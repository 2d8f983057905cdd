------------------------- MODULE TaskMemoryMapProofs -------------------------
(***************************************************************************)
(* What holds of the mapping algorithm for every address space, page size, *)
(* heap, set of threads and behaviour of the kernel and of the target.     *)
(***************************************************************************)
EXTENDS TaskMemoryMap, CoreProofs

InMap == {"map", "mapentry", "object"}

CallRecord ==
  [pc : PCs, req : Requests \cup {NoRequest}, total : Count,
   verified : Count, mapped : Count, mapping : HeapPages \cup {0},
   entry : Count, rights : 0 .. 1, err : Errors]

\* How far a call has come: a right is held between making an entry and mapping it, an entry is
\* never larger than what is left of the mapping and shows pages the target can have, and an
\* object is the whole mapping.
Progressing(k) ==
  /\ k.pc # "idle" => k.req \in Requests /\ ~ AddressRefused(k.req)
  /\ k.rights = IF k.pc = "mapentry" THEN 1 ELSE 0
  /\ k.pc \in {"verify", "reserve"} => k.mapped = 0
  /\ k.pc = "mapentry" =>
       k.mapped + k.entry <= k.total /\ Run(BasePage(k.req) + k.mapped, k.entry) \subseteq Page
  /\ k.pc = "map" => k.mapped <= k.total
  /\ k.pc = "object" => k.mapped = k.total

TypeInv == TypeOK /\ \A c \in Clients : Progressing(call[c])

----------------------------------------------------------------------------
(* Pages and words.                                                        *)

\* The address space is a whole number of pages.
LEMMA WholePages == Pages \in Nat /\ Pages * PageSize = MaxWord + 1 /\ PageSize \in Nat \ {0}
  BY SMT, WordAssumption, MapAssumption DEF Pages

\* Quotient and remainder by the page size.
LEMMA PageDivision ==
  ASSUME NEW x \in Nat
  PROVE  /\ x \div PageSize \in Nat /\ x % PageSize \in 0 .. (PageSize - 1)
         /\ x = (x \div PageSize) * PageSize + (x % PageSize)
         /\ x % PageSize \in Nat /\ (x \div PageSize) * PageSize <= x
         /\ (x \div PageSize) * PageSize \in Nat
  BY SMT, WholePages

\* The page of a word is one of the address space's.
LEMMA PageOfWord ==
  ASSUME NEW x \in Word
  PROVE  x \div PageSize \in Page
<1> DEFINE q == x \div PageSize
<1>1. x \in Nat /\ x < MaxWord + 1 BY WordAssumption DEF Word
<1>2. q \in Nat /\ q * PageSize <= x BY <1>1, PageDivision, WholePages
<1>3. q * PageSize < Pages * PageSize BY <1>1, <1>2, WholePages
<1> HIDE DEF q
<1>4. q < Pages
  <2>1. SUFFICES ASSUME Pages <= q PROVE FALSE BY <1>2, WholePages
  <2>2. Pages * PageSize <= q * PageSize BY <2>1, <1>2, WholePages, SMT
  <2>3. QED BY <2>2, <1>2, <1>3, WholePages
<1>5. QED BY <1>2, <1>4, WholePages DEF Page, q

\* The address a call that is not refused asks for, and its place in its page.
LEMMA RequestPages ==
  ASSUME NEW r \in Requests, ~ AddressRefused(r)
  PROVE  /\ r.length \in Word /\ ContextAddress(r) \in Word
         /\ AddressOffset(r) \in 0 .. (PageSize - 1) /\ BasePage(r) \in Page
         /\ BasePage(r) * PageSize \in Nat /\ BasePage(r) * PageSize <= MaxWord
         /\ ContextAddress(r) = BasePage(r) * PageSize + AddressOffset(r)
<1>1. r.offset \in Word /\ r.address \in Word /\ r.length \in Word
  BY MapAssumption
<1>2. ContextAddress(r) \in Word
  BY <1>1, WordAssumption
     DEF AddressRefused, mk_vm_address_apply_offset, Adds, Succeeded, Ok, Fails, ContextAddress, Word
<1>3. ContextAddress(r) \in Nat /\ ContextAddress(r) <= MaxWord
  BY <1>2, WordAssumption DEF Word
<1>4. BasePage(r) \in Page BY <1>2, PageOfWord DEF BasePage
<1> DEFINE x == ContextAddress(r)
<1> HIDE DEF x
<1>5. x \in Nat /\ x <= MaxWord BY <1>3 DEF x
<1>6. /\ x % PageSize \in 0 .. (PageSize - 1)
      /\ (x \div PageSize) * PageSize <= x
      /\ (x \div PageSize) * PageSize \in Nat
      /\ x = (x \div PageSize) * PageSize + (x % PageSize)
  BY <1>5, PageDivision
<1>7. (x \div PageSize) * PageSize <= MaxWord BY <1>5, <1>6, WordAssumption
<1>8. QED BY <1>1, <1>2, <1>4, <1>6, <1>7 DEF AddressOffset, BasePage, x

\* The number of pages a call sets out to map is a page count.
LEMMA TotalIsCount ==
  ASSUME NEW r \in Requests, ~ AddressRefused(r)
  PROVE  TotalLength(r) \div PageSize \in Count
<1>1. r.length \in Word BY RequestPages
<1>3. /\ AddressOffset(r) \in Nat /\ BasePage(r) \in Page
      /\ BasePage(r) * PageSize \in Nat /\ BasePage(r) * PageSize <= MaxWord
  <2>1. AddressOffset(r) \in 0 .. (PageSize - 1) BY RequestPages
  <2>2. QED BY <2>1, RequestPages, WholePages
<1>4. TotalPages(r) \in Page
  <2>1. Wrap(r.length + AddressOffset(r)) \in Nat BY <1>1, <1>3, WordAssumption DEF Wrap, Word
  <2>2. Wrap(Wrap(r.length + AddressOffset(r)) + PageSize - 1) \in Word
    BY <2>1, WholePages, WordAssumption DEF Wrap, Word
  <2>3. QED BY <2>2, PageOfWord DEF TotalPages, RoundPage
<1>5. ShortLength(r) \in Word
  BY <1>3, WordAssumption, WholePages DEF ShortLength, Word, Page
<1>6. CASE LengthOverflows(r) \/ EndOverflows(r)
  BY <1>5, <1>6, PageOfWord, WholePages DEF TotalLength, Page, Count
<1>7. CASE ~ (LengthOverflows(r) \/ EndOverflows(r))
  <2>1. TotalLength(r) = TotalPages(r) * PageSize BY <1>7 DEF TotalLength
  <2>2. (TotalPages(r) * PageSize) \div PageSize = TotalPages(r)
    BY <1>4, WholePages, SMT DEF Page
  <2>3. QED BY <1>4, <2>1, <2>2, WholePages DEF Page, Count
<1>8. QED BY <1>6, <1>7

----------------------------------------------------------------------------
(* Type correctness.                                                       *)

\* The values a call has between its steps.
LEMMA ReturnedIsTyped ==
  ASSUME NEW e \in Errors
  PROVE  Returned(e) \in CallRecord /\ Progressing(Returned(e))
  BY WholePages DEF Returned, CallRecord, PCs, Count, Progressing

LEMMA InitIsTyped == Init => TypeInv
<1>1. SUFFICES ASSUME Init PROVE TypeInv OBVIOUS
<1>2. target \in [Page -> BOOLEAN] /\ changes \in 0 .. MaxChanges /\ trapped \in BOOLEAN
  <2>1. target \in [Page -> BOOLEAN] BY <1>1 DEF Init
  <2>2. 0 \in 0 .. MaxChanges BY MapAssumption
  <2>3. QED BY <1>1, <2>1, <2>2 DEF Init
<1>3. local \in [HeapPages -> [owner : Clients \cup {Nobody}, shows : Page \cup {Blank}]]
  BY <1>1 DEF Init, FreePage
<1>4. call \in [Clients -> CallRecord] /\ \A c \in Clients : Progressing(call[c])
  BY <1>1, ReturnedIsTyped DEF Init, Errors
<1>5. library \in {"MachOKit", "libMachO"} BY <1>1 DEF Init
<1>6. QED BY <1>2, <1>3, <1>4, <1>5 DEF TypeInv, TypeOK, CallRecord

\* Replacing one call by a typed one keeps the calls typed.
LEMMA StepIsTyped ==
  ASSUME TypeInv, NEW c \in Clients, NEW from, NEW to, Step(c, from, to),
         to \in CallRecord, Progressing(to)
  PROVE  call' \in [Clients -> CallRecord] /\ \A d \in Clients : Progressing(call'[d])
<1>1. call \in [Clients -> CallRecord] BY DEF TypeInv, TypeOK, CallRecord
<1>2. call' = [call EXCEPT ![c] = to] BY DEF Step
<1>3. \A d \in Clients : call'[d] = IF d = c THEN to ELSE call[d] BY <1>1, <1>2
<1>4. QED BY <1>1, <1>2, <1>3 DEF TypeInv

\* The three ways the kernel changes the heap keep it typed.
LEMMA HeapIsTyped ==
  ASSUME TypeInv, NEW c \in Clients, NEW first \in Int, NEW n \in Int, NEW page \in Int,
         \A i \in Run(page, n) : i \in Page
  PROVE  LET Heap == [HeapPages -> [owner : Clients \cup {Nobody}, shows : Page \cup {Blank}]]
         IN  /\ Allocate(c, first, n) \in Heap
             /\ Overwrite(c, first, n, page) \in Heap
             /\ Deallocate(first, n) \in Heap
<1> DEFINE Content == [owner : Clients \cup {Nobody}, shows : Page \cup {Blank}]
<1>1. local \in [HeapPages -> Content] BY DEF TypeInv, TypeOK
<1>2. Allocate(c, first, n) \in [HeapPages -> Content] BY <1>1 DEF Allocate
<1>3. Deallocate(first, n) \in [HeapPages -> Content] BY <1>1 DEF Deallocate, FreePage
<1>4. Overwrite(c, first, n, page) \in [HeapPages -> Content]
  <2>1. ASSUME NEW p \in HeapPages, p \in Run(first, n) PROVE page + (p - first) \in Page
    <3>1. page + (p - first) \in Run(page, n) BY <2>1, MapAssumption DEF Run, Page
    <3>2. QED BY <3>1
  <2>2. QED BY <1>1, <2>1 DEF Overwrite
<1>5. QED BY <1>2, <1>3, <1>4

\* Every step of a call keeps the state typed and the call progressing.
LEMMA ProceedIsTyped ==
  ASSUME TypeInv, NEW c \in Clients, Proceed(c)
  PROVE  TypeInv'
<1> DEFINE k == call[c]
           Heap == [HeapPages -> [owner : Clients \cup {Nobody}, shows : Page \cup {Blank}]]
<1>1. k \in CallRecord /\ Progressing(k) BY DEF TypeInv, TypeOK, CallRecord
<1>2. target \in [Page -> BOOLEAN] /\ changes \in 0 .. MaxChanges /\ trapped \in BOOLEAN
      /\ local \in Heap
  BY DEF TypeInv, TypeOK
<1>3. ASSUME NEW from, NEW to, Step(c, from, to), to \in CallRecord, Progressing(to),
             UNCHANGED <<library, target, changes, trapped>>, local' \in Heap
      PROVE  TypeInv'
  <2>1. call' \in [Clients -> CallRecord] /\ \A d \in Clients : Progressing(call'[d])
    BY <1>3, StepIsTyped
  <2>2. QED BY <1>2, <1>3, <2>1 DEF TypeInv, TypeOK, CallRecord
<1>4. \A e \in Errors : Returned(e) \in CallRecord /\ Progressing(Returned(e))
  BY ReturnedIsTyped
<1>5. k.total \in Nat /\ k.mapped \in Nat /\ k.verified \in Nat /\ k.entry \in Nat
      /\ k.mapping \in Nat /\ k.total <= Pages /\ Pages \in Nat
  <2>1. HeapPages \cup {0} \subseteq Nat BY MapAssumption, WholePages DEF Page
  <2>2. k.mapping \in Nat BY <1>1, <2>1 DEF CallRecord
  <2>3. k.total \in Count /\ k.mapped \in Count /\ k.verified \in Count /\ k.entry \in Count
    BY <1>1 DEF CallRecord
  <2>4. QED BY <2>2, <2>3, WholePages DEF Count
<1>6. \A first, n \in Nat : Allocate(c, first, n) \in Heap /\ Deallocate(first, n) \in Heap
  BY HeapIsTyped, <1>2, MapAssumption DEF Allocate, Deallocate, FreePage
<1>7. "EBAD_ACCESS" \in Errors /\ "EINTERNAL" \in Errors /\ "ESUCCESS" \in Errors BY DEF Errors
<1>a. CASE VerifyEntry(c)
  <2>1. PICK n \in EntrySizes(BasePage(k.req) + k.verified, k.total - k.verified) :
          Step(c, "verify", [k EXCEPT !.verified = k.verified + n])
    BY <1>a DEF VerifyEntry
  <2>2. k.verified + n \in Count BY <2>1, <1>5 DEF EntrySizes, Count
  <2> DEFINE to == [k EXCEPT !.verified = k.verified + n]
  <2>3. to \in CallRecord BY <1>1, <2>2 DEF CallRecord
  <2>4. Progressing(to) BY <1>1, <2>1 DEF Progressing, CallRecord, Step
  <2>5. QED BY <1>a, <1>2, <1>3, <2>1, <2>3, <2>4 DEF VerifyEntry
<1>b. CASE VerifyDone(c)
  <2> DEFINE on == [k EXCEPT !.pc = "reserve",
                             !.total = IF k.verified < k.total THEN k.verified ELSE k.total]
  <2>1. on \in CallRecord BY <1>1 DEF CallRecord, PCs
  <2>2. Progressing(on) BY <1>1, <1>b DEF Progressing, CallRecord, VerifyDone, Step
  <2>3. QED BY <1>b, <1>2, <1>3, <1>4, <1>7, <2>1, <2>2 DEF VerifyDone
<1>c. CASE Reserve(c)
  <2>1. PICK first \in FreeRuns(k.total) :
          /\ Step(c, "reserve", [k EXCEPT !.pc = "map", !.mapping = first])
          /\ local' = Allocate(c, first, k.total)
    BY <1>c DEF Reserve
  <2> DEFINE to == [k EXCEPT !.pc = "map", !.mapping = first]
  <2>2. first \in HeapPages \cup {0} BY <2>1 DEF FreeRuns
  <2>3. to \in CallRecord BY <1>1, <2>2 DEF CallRecord, PCs
  <2>4. Progressing(to) BY <1>1, <1>5, <2>1 DEF Progressing, CallRecord, Step
  <2>5. first \in Nat BY <2>2, MapAssumption, WholePages DEF Page
  <2>6. QED BY <1>c, <1>3, <1>5, <1>6, <2>1, <2>3, <2>4, <2>5 DEF Reserve
<1>d. CASE ReserveFails(c)
  BY <1>d, <1>2, <1>3, <1>4, <1>7 DEF ReserveFails
<1>e. CASE MakeEntry(c)
  <2>1. PICK n \in EntrySizes(BasePage(k.req) + k.mapped, k.total - k.mapped) :
          Step(c, "map", [k EXCEPT !.pc = "mapentry", !.entry = n, !.rights = 1])
    BY <1>e DEF MakeEntry
  <2> DEFINE to == [k EXCEPT !.pc = "mapentry", !.entry = n, !.rights = 1]
  <2>2. n \in Count /\ k.mapped + n <= k.total BY <2>1, <1>5 DEF EntrySizes, Count
  <2>p. Run(BasePage(k.req) + k.mapped, n) \subseteq Page BY <2>1 DEF EntrySizes, Run
  <2>3. to \in CallRecord
    <3>1. 1 \in 0 .. 1 /\ "mapentry" \in PCs BY DEF PCs
    <3>2. QED BY <1>1, <2>2, <3>1 DEF CallRecord
  <2>4. Progressing(to) BY <1>1, <2>1, <2>2, <2>p DEF Progressing, CallRecord, Step
  <2>5. QED BY <1>e, <1>2, <1>3, <2>1, <2>3, <2>4 DEF MakeEntry
<1>f. CASE MakeEntryFails(c)
  BY <1>f, <1>3, <1>4, <1>5, <1>6, <1>7, MapAssumption DEF MakeEntryFails
<1>g. CASE MapEntry(c)
  <2> DEFINE to == [k EXCEPT !.pc = "map", !.mapped = k.mapped + k.entry, !.entry = 0, !.rights = 0]
  <2>1. k.pc = "mapentry" /\ k.mapped + k.entry <= k.total
    BY <1>1, <1>g DEF MapEntry, Step, Progressing
  <2>2. k.mapped + k.entry \in Count BY <1>5, <2>1 DEF Count
  <2>3. to \in CallRecord
    <3>1. 0 \in Count /\ 0 \in 0 .. 1 /\ "map" \in PCs BY <1>5 DEF Count, PCs
    <3>2. QED BY <1>1, <2>2, <3>1 DEF CallRecord
  <2>4. Progressing(to) BY <1>1, <2>1 DEF Progressing, CallRecord
  <2>5. local' \in Heap
    <3>1. Run(BasePage(k.req) + k.mapped, k.entry) \subseteq Page
      BY <1>1, <2>1 DEF Progressing
    <3>2. BasePage(k.req) + k.mapped \in Int
      <4>1. k.req \in Requests /\ ~ AddressRefused(k.req) BY <1>1, <2>1 DEF Progressing
      <4>2. BasePage(k.req) \in Page BY <4>1, RequestPages
      <4>3. QED BY <4>2, <1>5, WholePages DEF Page
    <3>3. k.mapping + k.mapped \in Int BY <1>5
    <3>4. k.entry \in Int BY <1>5
    <3> HIDE DEF k
    <3>5. Overwrite(c, k.mapping + k.mapped, k.entry, BasePage(k.req) + k.mapped) \in Heap
      BY <3>1, <3>2, <3>3, <3>4, HeapIsTyped
    <3>6. QED BY <3>5, <1>g DEF MapEntry, k
  <2>6. QED BY <1>g, <1>3, <2>3, <2>4, <2>5 DEF MapEntry
<1>h. CASE MapEntryFails(c)
  BY <1>h, <1>3, <1>4, <1>5, <1>6, <1>7 DEF MapEntryFails
<1>i. CASE Finish(c)
  <2> DEFINE to == [k EXCEPT !.pc = "object"]
  <2>1. to \in CallRecord BY <1>1 DEF CallRecord, PCs
  <2>2. Progressing(to) BY <1>1, <1>i DEF Progressing, CallRecord, Finish, Step
  <2>3. QED BY <1>i, <1>2, <1>3, <2>1, <2>2 DEF Finish
<1>j. CASE HandlerReturns(c)
  BY <1>j, <1>3, <1>4, <1>5, <1>6, <1>7 DEF HandlerReturns
<1>k. CASE free_object(c)
  <2>1. PICK stale \in StaleSizes : local' = Deallocate(k.mapped, stale)
    BY <1>k DEF free_object
  <2>2. stale \in Nat BY MapAssumption
  <2>3. QED BY <1>k, <1>3, <1>4, <1>5, <1>6, <1>7, <2>1, <2>2 DEF free_object
<1>l. QED BY <1>a, <1>b, <1>c, <1>d, <1>e, <1>f, <1>g, <1>h, <1>i, <1>j, <1>k DEF Proceed

LEMMA BeginIsTyped ==
  ASSUME TypeInv, NEW c \in Clients, NEW r \in Requests, Begin(c, r)
  PROVE  TypeInv'
<1>1. target' \in [Page -> BOOLEAN] /\ changes' \in 0 .. MaxChanges
      /\ local' \in [HeapPages -> [owner : Clients \cup {Nobody}, shows : Page \cup {Blank}]]
  BY DEF TypeInv, TypeOK, Begin
<1>2. CASE Misaligned(r)
  BY <1>1, <1>2 DEF Begin, TypeInv, TypeOK
<1>3. CASE ~ Misaligned(r)
  <2> DEFINE on == [Returned("ESUCCESS") EXCEPT
                      !.pc = IF r.requireFull THEN "reserve" ELSE "verify",
                      !.req = r,
                      !.total = TotalLength(r) \div PageSize]
             to == IF AddressRefused(r) THEN Returned("EOVERFLOW")
                   ELSE IF RangeRefused(r) THEN Returned(RefusalCode) ELSE on
  <2>1. Step(c, "idle", to) BY <1>3 DEF Begin, Step
  <2>2. to \in CallRecord /\ Progressing(to)
    <3>1. CASE AddressRefused(r) BY <3>1, ReturnedIsTyped DEF Errors
    <3>2. CASE ~ AddressRefused(r) /\ RangeRefused(r)
      BY <3>2, ReturnedIsTyped DEF Errors, RefusalCode
    <3>3. CASE ~ AddressRefused(r) /\ ~ RangeRefused(r)
      <4>1. TotalLength(r) \div PageSize \in Count BY <3>3, TotalIsCount
      <4>2. on \in CallRecord
        <5>1. Returned("ESUCCESS") \in CallRecord BY ReturnedIsTyped DEF Errors
        <5>2. QED BY <4>1, <5>1 DEF CallRecord, PCs
      <4>3. Progressing(on) BY <3>3 DEF Progressing, Returned
      <4>4. QED BY <3>3, <4>2, <4>3
    <3>4. QED BY <3>1, <3>2, <3>3
  <2> HIDE DEF to
  <2>3. call' \in [Clients -> CallRecord] /\ \A d \in Clients : Progressing(call'[d])
    BY <2>1, <2>2, StepIsTyped
  <2>4. trapped' = trapped /\ library' = library BY <1>3 DEF Begin
  <2>5. QED BY <1>1, <2>3, <2>4 DEF TypeInv, TypeOK, CallRecord
<1>4. QED BY <1>2, <1>3

\* What a step of the map is.
LEMMA Steps ==
  ASSUME [Next]_vars
  PROVE  \/ \E c \in Clients, r \in Requests : Begin(c, r)
         \/ \E c \in Clients : Proceed(c)
         \/ \E p \in Page : TargetChanges(p)
         \/ UNCHANGED vars
  BY MapAssumption DEF Next, Threads

LEMMA NextIsTyped == TypeInv /\ [Next]_vars => TypeInv'
<1>1. SUFFICES ASSUME TypeInv, [Next]_vars PROVE TypeInv' OBVIOUS
<1>2. ASSUME NEW c \in Clients, NEW r \in Requests, Begin(c, r) PROVE TypeInv'
  BY <1>1, <1>2, BeginIsTyped
<1>3. ASSUME NEW c \in Clients, Proceed(c) PROVE TypeInv'
  BY <1>1, <1>3, ProceedIsTyped
<1>4. ASSUME NEW p \in Page, TargetChanges(p) PROVE TypeInv'
  <2>1. target' \in [Page -> BOOLEAN] BY <1>1, <1>4 DEF TargetChanges, TypeInv, TypeOK
  <2>2. changes' \in 0 .. MaxChanges
    BY <1>1, <1>4, MapAssumption DEF TargetChanges, TypeInv, TypeOK
  <2>3. QED BY <1>1, <1>4, <2>1, <2>2 DEF TargetChanges, TypeInv, TypeOK
<1>5. CASE UNCHANGED vars BY <1>1, <1>5 DEF vars, TypeInv, TypeOK
<1>6. QED BY <1>1, <1>2, <1>3, <1>4, <1>5, Steps

LEMMA AlwaysTyped == Spec => []TypeInv
  BY InitIsTyped, NextIsTyped, PTL DEF Spec

\* Every reachable state has its type: no length, no page number and no count of rights ever
\* leaves its range, whatever entries the kernel makes and whoever fails.
THEOREM TypeCorrect == Spec => []TypeOK
<1>1. TypeInv => TypeOK BY DEF TypeInv
<1>2. QED BY <1>1, AlwaysTyped, PTL

----------------------------------------------------------------------------
(* Nothing is held between calls.                                          *)

\* A page a thread owns is one of the pages it has reserved in the call it is in.
Reserved(c) ==
  \A p \in HeapPages :
    local[p].owner = c => call[c].pc \in InMap /\ p \in Run(call[c].mapping, call[c].total)

ReservedInv == Kit => \A c \in Clients : Reserved(c)

\* A program does not change the library it maps with.
LEMMA OneLibrary == [Next]_vars => Kit' = Kit
<1>1. ASSUME NEW c \in Clients, Proceed(c) PROVE library' = library
  BY <1>1 DEF Proceed, VerifyEntry, VerifyDone, Reserve, ReserveFails, MakeEntry, MakeEntryFails,
              MapEntry, MapEntryFails, Finish, HandlerReturns, free_object
<1>2. QED BY <1>1 DEF Next, Begin, TargetChanges, vars, Kit

\* What a step does to the owners of the heap's pages.
LEMMA Owners ==
  ASSUME TypeInv, NEW c \in Clients, NEW first \in Int, NEW n \in Int, NEW page \in Int,
         NEW p \in HeapPages
  PROVE  /\ Allocate(c, first, n)[p].owner = IF p \in Run(first, n) THEN c ELSE local[p].owner
         /\ Overwrite(c, first, n, page)[p].owner =
              IF p \in Run(first, n) THEN c ELSE local[p].owner
         /\ Deallocate(first, n)[p].owner = IF p \in Run(first, n) THEN Nobody ELSE local[p].owner
  BY DEF Allocate, Overwrite, Deallocate, FreePage

\* A step is its thread's own: the other calls stay as they are, and no page becomes another
\* thread's.
LEMMA OneThreadMoves ==
  ASSUME TypeInv, NEW c \in Clients, Proceed(c)
  PROVE  /\ \A d \in Clients \ {c} : call'[d] = call[d]
         /\ \A p \in HeapPages : local'[p].owner \in {c, Nobody, local[p].owner}
<1>1. \A d \in Clients \ {c} : call'[d] = call[d]
  <2>1. \A from, to : Step(c, from, to) => \A d \in Clients \ {c} : call'[d] = call[d]
    BY DEF Step, TypeInv, TypeOK
  <2>2. \E from, to : Step(c, from, to)
    BY DEF Proceed, VerifyEntry, VerifyDone, Reserve, ReserveFails, MakeEntry, MakeEntryFails,
           MapEntry, MapEntryFails, Finish, HandlerReturns, free_object
  <2>3. QED BY <2>1, <2>2
<1>2. \A p \in HeapPages : local'[p].owner \in {c, Nobody, local[p].owner}
  <2>1. \/ local' = local
        \/ \E first, n : local' = Allocate(c, first, n)
        \/ \E first, n, page : local' = Overwrite(c, first, n, page)
        \/ \E first, n : local' = Deallocate(first, n)
    BY DEF Proceed, VerifyEntry, VerifyDone, Reserve, ReserveFails, MakeEntry, MakeEntryFails,
           MapEntry, MapEntryFails, Finish, HandlerReturns, free_object
  <2>2. QED BY <2>1 DEF Allocate, Overwrite, Deallocate, FreePage
<1>3. QED BY <1>1, <1>2

\* The thread's own pages, action by action.
LEMMA ProceedKeepsReserved ==
  ASSUME TypeInv, Kit, NEW c \in Clients, Proceed(c), Reserved(c)
  PROVE  Reserved(c)'
<1> DEFINE k == call[c]
<1>0. c \in Clients /\ c # Nobody BY MapAssumption
<1>1. SUFFICES ASSUME NEW p \in HeapPages, local'[p].owner = c
               PROVE  call'[c].pc \in InMap /\ p \in Run(call'[c].mapping, call'[c].total)
  BY DEF Reserved
<1>2. call \in [Clients -> CallRecord] /\ k \in CallRecord /\ Progressing(k)
  BY <1>0 DEF TypeInv, TypeOK, CallRecord
<1>3. \A from, to : Step(c, from, to) => k.pc = from /\ call'[c] = to
  BY <1>0, <1>2 DEF Step
<1>4. local[p].owner = c => k.pc \in InMap /\ p \in Run(k.mapping, k.total) BY DEF Reserved
<1>a. CASE VerifyEntry(c) BY <1>a, <1>1, <1>3, <1>4 DEF VerifyEntry, InMap
<1>b. CASE VerifyDone(c) BY <1>b, <1>1, <1>3, <1>4 DEF VerifyDone, InMap
<1>c. CASE Reserve(c)
  <2>1. PICK first \in FreeRuns(k.total) :
          /\ Step(c, "reserve", [k EXCEPT !.pc = "map", !.mapping = first])
          /\ local' = Allocate(c, first, k.total)
    BY <1>c DEF Reserve
  <2> DEFINE to == [k EXCEPT !.pc = "map", !.mapping = first]
  <2>t. call'[c] = to /\ k.pc = "reserve" BY <1>3, <2>1
  <2>2. call'[c].pc = "map" /\ call'[c].mapping = first /\ call'[c].total = k.total /\ k.pc = "reserve"
    BY <1>2, <2>t DEF CallRecord
  <2>3. p \in Run(first, k.total) BY <1>1, <1>4, <2>1, <2>2 DEF Allocate, InMap
  <2>4. QED BY <2>2, <2>3 DEF InMap
<1>d. CASE ReserveFails(c) BY <1>d, <1>1, <1>3, <1>4 DEF ReserveFails, InMap
<1>e. CASE MakeEntry(c)
  <2>1. PICK n : Step(c, "map", [k EXCEPT !.pc = "mapentry", !.entry = n, !.rights = 1])
    BY <1>e DEF MakeEntry
  <2> DEFINE to == [k EXCEPT !.pc = "mapentry", !.entry = n, !.rights = 1]
  <2>2. call'[c] = to BY <1>3, <2>1
  <2>3. call'[c].pc = "mapentry" /\ call'[c].mapping = k.mapping /\ call'[c].total = k.total
    BY <1>2, <2>2 DEF CallRecord
  <2>4. QED BY <1>e, <1>1, <1>4, <2>3 DEF MakeEntry, InMap
<1>f. CASE MakeEntryFails(c)
  BY <1>f, <1>0, <1>1, <1>4 DEF MakeEntryFails, Deallocate, FreePage
<1>g. CASE MapEntry(c)
  <2>1. k.pc = "mapentry" /\ k.mapped + k.entry <= k.total
    BY <1>2, <1>3, <1>g DEF MapEntry, Progressing
  <2> DEFINE to == [k EXCEPT !.pc = "map", !.mapped = k.mapped + k.entry, !.entry = 0, !.rights = 0]
  <2>t. call'[c] = to BY <1>3, <1>g DEF MapEntry
  <2>2. call'[c].pc = "map" /\ call'[c].mapping = k.mapping /\ call'[c].total = k.total
    BY <1>2, <2>t DEF CallRecord
  <2>3. CASE p \in Run(k.mapping + k.mapped, k.entry)
    <3>1. k.mapping \in Int /\ k.mapped \in Nat /\ k.entry \in Nat /\ k.total \in Nat /\ p \in Int
      BY <1>2, MapAssumption, WholePages DEF CallRecord, Count, Page
    <3>2. p \in Run(k.mapping, k.total) BY <2>1, <2>3, <3>1 DEF Run
    <3>3. QED BY <2>2, <3>2 DEF InMap
  <2>4. CASE p \notin Run(k.mapping + k.mapped, k.entry)
    BY <1>1, <1>4, <1>g, <2>2, <2>4 DEF MapEntry, Overwrite, InMap
  <2>5. QED BY <2>3, <2>4
<1>h. CASE MapEntryFails(c)
  BY <1>h, <1>0, <1>1, <1>4 DEF MapEntryFails, Deallocate, FreePage
<1>i. CASE Finish(c) BY <1>i, <1>1, <1>2, <1>3, <1>4 DEF Finish, InMap, CallRecord
<1>j. CASE HandlerReturns(c)
  <2>1. k.mapped = k.total BY <1>2, <1>3, <1>j DEF HandlerReturns, Progressing
  <2>2. QED BY <1>j, <1>0, <1>1, <1>4, <2>1 DEF HandlerReturns, Deallocate, FreePage
<1>k. CASE free_object(c) BY <1>k DEF free_object
<1>l. QED BY <1>a, <1>b, <1>c, <1>d, <1>e, <1>f, <1>g, <1>h, <1>i, <1>j, <1>k DEF Proceed

LEMMA NextKeepsReserved == TypeInv /\ ReservedInv /\ [Next]_vars => ReservedInv'
<1>1. SUFFICES ASSUME TypeInv, ReservedInv, [Next]_vars, Kit, NEW c \in Clients PROVE Reserved(c)'
  BY OneLibrary DEF ReservedInv
<1>2. c \in Clients /\ c # Nobody /\ Reserved(c) BY <1>1, MapAssumption DEF ReservedInv
<1>3. ASSUME NEW d \in Clients, NEW r \in Requests, Begin(d, r) PROVE Reserved(c)'
  <2>1. local' = local BY <1>3 DEF Begin
  <2>2. CASE call'[c] = call[c] BY <1>2, <2>1, <2>2 DEF Reserved
  <2>3. CASE call'[c] # call[c]
    <3>1. c = d /\ call[c].pc = "idle" BY <1>1, <1>2, <1>3, <2>3 DEF Begin, TypeInv, TypeOK
    <3>2. QED BY <1>2, <2>1, <3>1 DEF Reserved, InMap
  <2>4. QED BY <2>2, <2>3
<1>4. ASSUME NEW d \in Clients, Proceed(d) PROVE Reserved(c)'
  <2>1. CASE c = d BY <1>1, <1>2, <1>4, <2>1, ProceedKeepsReserved
  <2>2. CASE c # d BY <1>1, <1>2, <1>4, <2>2, OneThreadMoves DEF Reserved
  <2>3. QED BY <2>1, <2>2
<1>5. ASSUME NEW p \in Page, TargetChanges(p) PROVE Reserved(c)'
  BY <1>2, <1>5 DEF TargetChanges, Reserved
<1>6. CASE UNCHANGED vars BY <1>2, <1>6 DEF vars, Reserved
<1>7. QED BY <1>1, <1>3, <1>4, <1>5, <1>6, Steps

\* A thread of MachOKit's between calls holds no page and no right: every error path undoes what was done
\* before it, in every interleaving of threads, failures and changes of the target.
THEOREM CleansUp == Spec => []IdleHoldsNothing
<1>1. Init => ReservedInv
  BY MapAssumption DEF Init, ReservedInv, Reserved, FreePage
<1>2. Spec => []ReservedInv
  BY <1>1, NextKeepsReserved, AlwaysTyped, PTL DEF Spec
<1>3. TypeInv /\ ReservedInv => IdleHoldsNothing
  BY MapAssumption
     DEF TypeInv, Progressing, ReservedInv, Reserved, IdleHoldsNothing, HoldsNothing, InMap
<1>4. QED BY <1>2, <1>3, AlwaysTyped, PTL

----------------------------------------------------------------------------
(* What a mapping of MachOKit's shows.  Of a program that maps with        *)
(* libMachO the following is false: freeing an object deallocates pages    *)
(* that may be anybody's.                                                  *)

\* The pages of a mapping belong to its thread, and those already mapped show the target's pages
\* in order from the one asked for.
Window(c) ==
  call[c].pc \in InMap =>
    /\ \A p \in Run(call[c].mapping, call[c].total) : p \in HeapPages /\ local[p].owner = c
    /\ \A p \in Run(call[c].mapping, call[c].mapped) :
         /\ local[p].shows = BasePage(call[c].req) + (p - call[c].mapping)
         /\ local[p].shows \in Page

WindowInv == Kit => \A c \in Clients : Window(c)

\* The numbers of a typed call.
LEMMA CallNumbers ==
  ASSUME TypeInv, NEW c \in Clients
  PROVE  /\ call[c] \in CallRecord /\ Progressing(call[c])
         /\ call[c].total \in Nat /\ call[c].mapped \in Nat /\ call[c].entry \in Nat
         /\ call[c].mapping \in Nat
<1>1. call[c] \in CallRecord /\ Progressing(call[c]) BY DEF TypeInv, TypeOK, CallRecord
<1>2. HeapPages \cup {0} \subseteq Nat BY MapAssumption, WholePages DEF Page
<1>3. call[c].total \in Count /\ call[c].mapped \in Count /\ call[c].entry \in Count
      /\ call[c].mapping \in HeapPages \cup {0}
  BY <1>1 DEF CallRecord
<1>4. QED BY <1>1, <1>2, <1>3, WholePages DEF Count

\* What is about to be mapped lies in the mapping.
LEMMA EntryFits ==
  ASSUME TypeInv, NEW c \in Clients, call[c].pc = "mapentry"
  PROVE  /\ Run(call[c].mapping + call[c].mapped, call[c].entry)
              \subseteq Run(call[c].mapping, call[c].total)
         /\ Run(call[c].mapping, call[c].mapped + call[c].entry)
              = Run(call[c].mapping, call[c].mapped)
                \cup Run(call[c].mapping + call[c].mapped, call[c].entry)
<1>1. call[c].mapped + call[c].entry <= call[c].total BY CallNumbers DEF Progressing
<1>2. /\ call[c].total \in Nat /\ call[c].mapped \in Nat /\ call[c].entry \in Nat
      /\ call[c].mapping \in Nat
  BY CallNumbers
<1>3. QED BY <1>1, <1>2 DEF Run

\* A step changes pages that are free or its thread's own, and no others.
LEMMA StaysHome ==
  ASSUME TypeInv, WindowInv, Kit, NEW c \in Clients, Proceed(c),
         NEW p \in HeapPages, local'[p] # local[p]
  PROVE  local[p].owner \in {c, Nobody}
<1> DEFINE k == call[c]
<1>1. \A from, to : Step(c, from, to) => k.pc = from BY DEF Step
<1>2. k.pc \in InMap => \A q \in Run(k.mapping, k.total) : local[q].owner = c
  BY DEF WindowInv, Window
<1>3. local \in [HeapPages -> [owner : Clients \cup {Nobody}, shows : Page \cup {Blank}]]
  BY DEF TypeInv, TypeOK
<1>a. CASE VerifyEntry(c) BY <1>a DEF VerifyEntry
<1>b. CASE VerifyDone(c) BY <1>b DEF VerifyDone
<1>c. CASE Reserve(c)
  <2>1. PICK first \in FreeRuns(k.total) : local' = Allocate(c, first, k.total)
    BY <1>c DEF Reserve
  <2>2. p \in Run(first, k.total) BY <1>3, <2>1 DEF Allocate
  <2>3. CASE k.total = 0 BY <2>1, <2>2, <2>3 DEF FreeRuns, Run
  <2>4. CASE k.total # 0 BY <2>1, <2>2, <2>4 DEF FreeRuns, FreePage
  <2>5. QED BY <2>3, <2>4
<1>d. CASE ReserveFails(c) BY <1>d DEF ReserveFails
<1>e. CASE MakeEntry(c) BY <1>e DEF MakeEntry
<1>f. CASE MakeEntryFails(c)
  BY <1>f, <1>1, <1>2, <1>3 DEF MakeEntryFails, Deallocate, InMap
<1>g. CASE MapEntry(c)
  <2>1. k.pc = "mapentry" BY <1>1, <1>g DEF MapEntry
  <2>2. p \in Run(k.mapping + k.mapped, k.entry) BY <1>3, <1>g DEF MapEntry, Overwrite
  <2>3. p \in Run(k.mapping, k.total) BY <2>1, <2>2, EntryFits
  <2>4. QED BY <1>2, <2>1, <2>3 DEF InMap
<1>h. CASE MapEntryFails(c)
  BY <1>h, <1>1, <1>2, <1>3 DEF MapEntryFails, Deallocate, InMap
<1>i. CASE Finish(c) BY <1>i DEF Finish
<1>j. CASE HandlerReturns(c)
  <2>1. k.pc = "object" BY <1>1, <1>j DEF HandlerReturns
  <2>2. k.mapped = k.total BY <2>1, CallNumbers DEF Progressing
  <2>3. QED BY <1>j, <1>2, <1>3, <2>1, <2>2 DEF HandlerReturns, Deallocate, InMap
<1>k. CASE free_object(c) BY <1>k DEF free_object
<1>l. QED BY <1>a, <1>b, <1>c, <1>d, <1>e, <1>f, <1>g, <1>h, <1>i, <1>j, <1>k DEF Proceed

\* The window of the thread that takes the step.
LEMMA ProceedKeepsWindow ==
  ASSUME TypeInv, WindowInv, Kit, NEW c \in Clients, Proceed(c)
  PROVE  Window(c)'
<1> DEFINE k == call[c]
<1>0. SUFFICES ASSUME call'[c].pc \in InMap
               PROVE  /\ \A p \in Run(call'[c].mapping, call'[c].total) :
                           p \in HeapPages /\ local'[p].owner = c
                      /\ \A p \in Run(call'[c].mapping, call'[c].mapped) :
                           /\ local'[p].shows = BasePage(call'[c].req) + (p - call'[c].mapping)
                           /\ local'[p].shows \in Page
  BY DEF Window
<1>1. call \in [Clients -> CallRecord] /\ k \in CallRecord /\ Progressing(k)
  BY CallNumbers DEF TypeInv, TypeOK, CallRecord
<1>2. \A from, to : Step(c, from, to) => k.pc = from /\ call'[c] = to
  BY <1>1 DEF Step
<1>3. k.pc \in InMap =>
        /\ \A p \in Run(k.mapping, k.total) : p \in HeapPages /\ local[p].owner = c
        /\ \A p \in Run(k.mapping, k.mapped) :
             local[p].shows = BasePage(k.req) + (p - k.mapping) /\ local[p].shows \in Page
  BY DEF WindowInv, Window
<1>4. k.total \in Nat /\ k.mapped \in Nat /\ k.entry \in Nat /\ k.mapping \in Nat
  BY CallNumbers
<1>5. \A e : Returned(e).pc = "idle" BY DEF Returned
<1>a. CASE VerifyEntry(c)
  <2>1. PICK n : Step(c, "verify", [k EXCEPT !.verified = k.verified + n])
    BY <1>a DEF VerifyEntry
  <2>2. call'[c] = [k EXCEPT !.verified = k.verified + n] /\ k.pc = "verify" BY <1>2, <2>1
  <2>3. QED BY <1>0, <1>1, <2>2 DEF CallRecord, InMap
<1>b. CASE VerifyDone(c)
  <2> DEFINE on == [k EXCEPT !.pc = "reserve",
                             !.total = IF k.verified < k.total THEN k.verified ELSE k.total]
  <2>1. call'[c] = on \/ call'[c] = Returned("EBAD_ACCESS") BY <1>b, <1>2 DEF VerifyDone
  <2>2. on.pc = "reserve" BY <1>1 DEF CallRecord
  <2>3. QED BY <1>0, <1>5, <2>1, <2>2 DEF InMap
<1>c. CASE Reserve(c)
  <2>1. PICK first \in FreeRuns(k.total) :
          /\ Step(c, "reserve", [k EXCEPT !.pc = "map", !.mapping = first])
          /\ local' = Allocate(c, first, k.total)
    BY <1>c DEF Reserve
  <2>2. call'[c] = [k EXCEPT !.pc = "map", !.mapping = first] /\ k.pc = "reserve" BY <1>2, <2>1
  <2>3. k.mapped = 0 BY <1>1, <2>2 DEF Progressing
  <2>4. call'[c].mapping = first /\ call'[c].total = k.total /\ call'[c].mapped = 0
    BY <1>1, <2>2, <2>3 DEF CallRecord
  <2>5. first \in Nat BY <2>1, MapAssumption, WholePages DEF FreeRuns, Page
  <2>6. Run(first, 0) = {} BY <2>5 DEF Run
  <2>7. \A p \in Run(first, k.total) : p \in HeapPages
    <3>1. CASE k.total = 0 BY <2>1, <2>6, <3>1 DEF FreeRuns
    <3>2. CASE k.total # 0 BY <2>1, <3>2 DEF FreeRuns
    <3>3. QED BY <3>1, <3>2
  <2>8. QED BY <2>1, <2>4, <2>6, <2>7 DEF Allocate
<1>d. CASE ReserveFails(c) BY <1>d, <1>0, <1>2, <1>5 DEF ReserveFails, InMap
<1>e. CASE MakeEntry(c)
  <2>1. PICK n : Step(c, "map", [k EXCEPT !.pc = "mapentry", !.entry = n, !.rights = 1])
    BY <1>e DEF MakeEntry
  <2>2. call'[c] = [k EXCEPT !.pc = "mapentry", !.entry = n, !.rights = 1] /\ k.pc = "map"
    BY <1>2, <2>1
  <2>3. /\ call'[c].mapping = k.mapping /\ call'[c].total = k.total
        /\ call'[c].mapped = k.mapped /\ call'[c].req = k.req
    BY <1>1, <2>2 DEF CallRecord
  <2>4. QED BY <1>e, <1>3, <2>2, <2>3 DEF MakeEntry, InMap
<1>f. CASE MakeEntryFails(c) BY <1>f, <1>0, <1>2, <1>5 DEF MakeEntryFails, InMap
<1>g. CASE MapEntry(c)
  <2> DEFINE to == [k EXCEPT !.pc = "map", !.mapped = k.mapped + k.entry, !.entry = 0, !.rights = 0]
             New == Run(k.mapping + k.mapped, k.entry)
  <2>1. call'[c] = to /\ k.pc = "mapentry" BY <1>2, <1>g DEF MapEntry
  <2>2. /\ call'[c].mapping = k.mapping /\ call'[c].total = k.total
        /\ call'[c].mapped = k.mapped + k.entry /\ call'[c].req = k.req
    BY <1>1, <2>1 DEF CallRecord
  <2>3. local' = Overwrite(c, k.mapping + k.mapped, k.entry, BasePage(k.req) + k.mapped)
    BY <1>g DEF MapEntry
  <2>4. New \subseteq Run(k.mapping, k.total)
        /\ Run(k.mapping, k.mapped + k.entry) = Run(k.mapping, k.mapped) \cup New
    BY <2>1, EntryFits
  <2>5. k.mapped + k.entry <= k.total /\ Run(BasePage(k.req) + k.mapped, k.entry) \subseteq Page
    BY <1>1, <2>1 DEF Progressing
  <2>6. Run(k.mapping, k.mapped) \subseteq Run(k.mapping, k.total) BY <1>4, <2>5 DEF Run
  <2>7. \A p \in Run(k.mapping, k.total) : p \in HeapPages /\ local'[p].owner = c
    BY <1>3, <2>1, <2>3 DEF Overwrite, InMap
  <2>8. BasePage(k.req) \in Nat
    <3>1. k.req \in Requests /\ ~ AddressRefused(k.req) BY <1>1, <2>1 DEF Progressing
    <3>2. QED BY <3>1, RequestPages, WholePages DEF Page
  <2>9. ASSUME NEW p \in New
        PROVE  /\ local'[p].shows = BasePage(k.req) + (p - k.mapping)
               /\ local'[p].shows \in Page
    <3>1. p \in HeapPages BY <2>4, <2>7
    <3>2. local'[p].shows = BasePage(k.req) + k.mapped + (p - (k.mapping + k.mapped))
      BY <2>3, <3>1 DEF Overwrite
    <3>3. p \in Int BY <1>4 DEF Run
    <3>4. BasePage(k.req) + k.mapped + (p - (k.mapping + k.mapped)) = BasePage(k.req) + (p - k.mapping)
      BY <1>4, <2>8, <3>3
    <3>5. BasePage(k.req) + k.mapped + (p - (k.mapping + k.mapped))
            \in Run(BasePage(k.req) + k.mapped, k.entry)
      BY <1>4, <2>8, <3>3 DEF Run
    <3>6. QED BY <2>5, <3>2, <3>4, <3>5
  <2>10. ASSUME NEW p \in Run(k.mapping, k.mapped), p \notin New
         PROVE  /\ local'[p].shows = BasePage(k.req) + (p - k.mapping)
                /\ local'[p].shows \in Page
    <3>1. p \in HeapPages BY <2>6, <2>7
    <3>2. local'[p] = local[p] BY <2>3, <2>10, <3>1 DEF Overwrite
    <3>3. QED BY <1>3, <2>1, <3>2 DEF InMap
  <2>11. QED BY <2>2, <2>4, <2>7, <2>9, <2>10
<1>h. CASE MapEntryFails(c) BY <1>h, <1>0, <1>2, <1>5 DEF MapEntryFails, InMap
<1>i. CASE Finish(c)
  <2>1. call'[c] = [k EXCEPT !.pc = "object"] /\ k.pc = "map" BY <1>2, <1>i DEF Finish
  <2>2. /\ call'[c].mapping = k.mapping /\ call'[c].total = k.total
        /\ call'[c].mapped = k.mapped /\ call'[c].req = k.req
    BY <1>1, <2>1 DEF CallRecord
  <2>3. QED BY <1>i, <1>3, <2>1, <2>2 DEF Finish, InMap
<1>j. CASE HandlerReturns(c) BY <1>j, <1>0, <1>2, <1>5 DEF HandlerReturns, InMap
<1>k. CASE free_object(c) BY <1>k, <1>0, <1>2, <1>5 DEF free_object, InMap
<1>l. QED BY <1>a, <1>b, <1>c, <1>d, <1>e, <1>f, <1>g, <1>h, <1>i, <1>j, <1>k DEF Proceed

LEMMA NextKeepsWindow == TypeInv /\ WindowInv /\ [Next]_vars => WindowInv'
<1>1. SUFFICES ASSUME TypeInv, WindowInv, [Next]_vars, Kit, NEW c \in Clients PROVE Window(c)'
  BY OneLibrary DEF WindowInv
<1>2. Window(c) /\ c # Nobody BY <1>1, MapAssumption DEF WindowInv
<1>3. ASSUME NEW d \in Clients, NEW r \in Requests, Begin(d, r) PROVE Window(c)'
  <2>1. local' = local BY <1>3 DEF Begin
  <2>2. CASE call'[c] = call[c] BY <1>2, <2>1, <2>2 DEF Window
  <2>3. CASE call'[c] # call[c]
    <3>1. c = d BY <1>1, <1>3, <2>3 DEF Begin, TypeInv, TypeOK
    <3>2. Returned("EOVERFLOW").pc = "idle" /\ Returned(RefusalCode).pc = "idle" BY DEF Returned
    <3>3. \A n : [Returned("ESUCCESS") EXCEPT
                    !.pc = IF r.requireFull THEN "reserve" ELSE "verify",
                    !.req = r, !.total = n].pc \in {"reserve", "verify"}
      BY DEF Returned
    <3>4. \/ call'[c] = Returned("EOVERFLOW")
          \/ call'[c] = Returned(RefusalCode)
          \/ call'[c] = [Returned("ESUCCESS") EXCEPT
                            !.pc = IF r.requireFull THEN "reserve" ELSE "verify",
                            !.req = r, !.total = TotalLength(r) \div PageSize]
      BY <1>1, <1>3, <2>3, <3>1 DEF Begin, TypeInv, TypeOK
    <3>5. QED BY <3>2, <3>3, <3>4 DEF Window, InMap
  <2>4. QED BY <2>2, <2>3
<1>4. ASSUME NEW d \in Clients, Proceed(d) PROVE Window(c)'
  <2>1. CASE c = d BY <1>1, <1>4, <2>1, ProceedKeepsWindow
  <2>2. CASE c # d
    <3>1. call'[c] = call[c] BY <1>1, <1>4, <2>2, OneThreadMoves
    <3>2. SUFFICES ASSUME call[c].pc \in InMap,
                          NEW p \in Run(call[c].mapping, call[c].total)
                   PROVE  local'[p] = local[p]
      <4>1. call[c].pc \in InMap =>
              Run(call[c].mapping, call[c].mapped) \subseteq Run(call[c].mapping, call[c].total)
        <5>1. call[c].pc \in InMap => call[c].mapped <= call[c].total
          <6>1. /\ call[c].total \in Nat /\ call[c].mapped \in Nat /\ call[c].entry \in Nat
                /\ Progressing(call[c])
            BY <1>1, CallNumbers
          <6>2. QED BY <6>1 DEF Progressing, InMap
        <5>2. call[c].total \in Nat /\ call[c].mapped \in Nat /\ call[c].mapping \in Nat
          BY <1>1, CallNumbers
        <5>3. QED BY <5>1, <5>2 DEF Run
      <4>2. QED BY <1>2, <3>1, <3>2, <4>1 DEF Window
    <3>3. p \in HeapPages /\ local[p].owner = c BY <1>2, <3>2 DEF Window
    <3>4. QED BY <1>1, <1>2, <1>4, <2>2, <3>3, StaysHome
  <2>3. QED BY <2>1, <2>2
<1>5. ASSUME NEW p \in Page, TargetChanges(p) PROVE Window(c)'
  BY <1>2, <1>5 DEF TargetChanges, Window
<1>6. CASE UNCHANGED vars BY <1>2, <1>6 DEF vars, Window
<1>7. QED BY <1>1, <1>3, <1>4, <1>5, <1>6, Steps

LEMMA AlwaysWindow == Spec => []WindowInv
<1>1. Init => WindowInv BY DEF Init, WindowInv, Window, Returned, InMap
<1>2. TypeInv /\ WindowInv /\ [Next]_vars => WindowInv' BY NextKeepsWindow
<1>3. QED BY <1>1, <1>2, AlwaysTyped, PTL DEF Spec

\* In a program that maps with MachOKit the overwriting, fixed-address vm_map and every deallocation
\* stay inside the reservation of the thread that makes them.
THEOREM LeavesOthersAlone == Spec => OthersUndisturbed
<1> DEFINE Kept == Kit => \A p \in HeapPages : \A c \in Clients :
                     local[p].owner = c /\ call'[c] = call[c] => local'[p] = local[p]
<1>1. TypeInv /\ WindowInv /\ [Next]_vars => [Kept]_vars
  <2>1. SUFFICES ASSUME TypeInv, WindowInv, Next, Kit,
                        NEW p \in HeapPages, NEW c \in Clients,
                        local[p].owner = c, call'[c] = call[c], local'[p] # local[p]
                 PROVE  FALSE
    OBVIOUS
  <2>2. PICK d \in Clients : Proceed(d) BY <2>1 DEF Next, Begin, TargetChanges
  <2>3. c = d BY <2>1, <2>2, StaysHome, MapAssumption
  <2>4. call[c] \in CallRecord BY <2>1, CallNumbers
  <2>5. \A from, to : Step(c, from, to) => call[c].pc = from /\ to = call[c]
    BY <2>1 DEF Step, TypeInv, TypeOK
  <2>6. \A e : Returned(e).pc = "idle" BY DEF Returned
  <2>7. ~ Reserve(c)
    <3>1. SUFFICES ASSUME Reserve(c) PROVE FALSE OBVIOUS
    <3>2. PICK first : Step(c, "reserve", [call[c] EXCEPT !.pc = "map", !.mapping = first])
      BY <3>1 DEF Reserve
    <3>3. call[c].pc = "reserve" /\ [call[c] EXCEPT !.pc = "map", !.mapping = first] = call[c]
      BY <2>5, <3>2
    <3>4. QED BY <2>4, <3>3 DEF CallRecord
  <2>8. ~ MapEntry(c)
    <3>1. SUFFICES ASSUME MapEntry(c) PROVE FALSE OBVIOUS
    <3> DEFINE to == [call[c] EXCEPT !.pc = "map", !.mapped = call[c].mapped + call[c].entry,
                                     !.entry = 0, !.rights = 0]
    <3>2. call[c].pc = "mapentry" /\ to = call[c] BY <2>5, <3>1 DEF MapEntry
    <3>3. QED BY <2>4, <3>2 DEF CallRecord
  <2>9. ~ MakeEntryFails(c) /\ ~ MapEntryFails(c) /\ ~ HandlerReturns(c) /\ ~ free_object(c)
    BY <2>5, <2>6 DEF MakeEntryFails, MapEntryFails, HandlerReturns, free_object
  <2>10. QED
    BY <2>1, <2>2, <2>3, <2>7, <2>8, <2>9
       DEF Proceed, VerifyEntry, VerifyDone, ReserveFails, MakeEntry, Finish
<1>2. QED BY <1>1, AlwaysTyped, AlwaysWindow, PTL DEF Spec, OthersUndisturbed

----------------------------------------------------------------------------
(* Every pointer an object yields shows the target's byte.                 *)

\* Multiplying by the page size keeps the order.
LEMMA PagesInOrder ==
  ASSUME NEW a \in Nat, NEW b \in Nat
  PROVE  /\ a * PageSize \in Nat
         /\ a <= b => a * PageSize <= b * PageSize
         /\ (a + 1) * PageSize = a * PageSize + PageSize
         /\ (a + b) * PageSize = a * PageSize + b * PageSize
<1>1. PageSize \in Nat BY WholePages
<1>2. QED BY <1>1, SMT

\* Quotient and remainder are the only numbers of their kind.
LEMMA DivisionIsUnique ==
  ASSUME NEW n \in Nat, NEW q \in Nat, NEW r \in 0 .. (PageSize - 1), n = q * PageSize + r
  PROVE  n \div PageSize = q /\ n % PageSize = r
<1> DEFINE Q == n \div PageSize
           R == n % PageSize
<1>1. Q \in Nat /\ R \in 0 .. (PageSize - 1) /\ n = Q * PageSize + R BY PageDivision
<1> HIDE DEF Q, R
<1>2. ~ Q < q
  <2>1. SUFFICES ASSUME Q + 1 <= q PROVE FALSE BY <1>1
  <2>2. (Q + 1) * PageSize <= q * PageSize /\ (Q + 1) * PageSize = Q * PageSize + PageSize
    BY <1>1, <2>1, PagesInOrder
  <2>3. Q * PageSize \in Nat /\ q * PageSize \in Nat BY <1>1, PagesInOrder
  <2>4. QED BY <1>1, <2>2, <2>3, WholePages
<1>3. ~ q < Q
  <2>1. SUFFICES ASSUME q + 1 <= Q PROVE FALSE BY <1>1
  <2>2. (q + 1) * PageSize <= Q * PageSize /\ (q + 1) * PageSize = q * PageSize + PageSize
    BY <1>1, <2>1, PagesInOrder
  <2>3. Q * PageSize \in Nat /\ q * PageSize \in Nat BY <1>1, PagesInOrder
  <2>4. QED BY <1>1, <2>2, <2>3, WholePages
<1>4. Q = q BY <1>1, <1>2, <1>3
<1>5. q * PageSize \in Nat BY PagesInOrder
<1>6. R = r BY <1>1, <1>4, <1>5, WholePages
<1>7. QED BY <1>4, <1>6 DEF Q, R

\* Moving by whole pages keeps the place within the page.
LEMMA WholePageShift ==
  ASSUME NEW m \in Nat, NEW d \in Nat
  PROVE  /\ (m * PageSize + d) \div PageSize = m + (d \div PageSize)
         /\ (m * PageSize + d) % PageSize = d % PageSize
         /\ m * PageSize + d = (m + (d \div PageSize)) * PageSize + (d % PageSize)
<1> DEFINE q == d \div PageSize
           r == d % PageSize
<1>1. q \in Nat /\ r \in 0 .. (PageSize - 1) /\ d = q * PageSize + r BY PageDivision
<1> HIDE DEF q, r
<1>2. (m + q) * PageSize = m * PageSize + q * PageSize BY <1>1, PagesInOrder
<1>3. m * PageSize \in Nat /\ q * PageSize \in Nat BY <1>1, PagesInOrder
<1>4. m * PageSize + d = (m + q) * PageSize + r BY <1>1, <1>2, <1>3, WholePages
<1>5. m * PageSize + d \in Nat /\ m + q \in Nat BY <1>1, <1>3
<1>6. (m * PageSize + d) \div PageSize = m + q /\ (m * PageSize + d) % PageSize = r
  BY <1>1, <1>4, <1>5, DivisionIsUnique
<1>7. QED BY <1>4, <1>6 DEF q, r

\* The byte an object's mapping has d bytes behind its beginning is the target's byte d bytes
\* behind the first page that was asked for.
LEMMA MappedByte ==
  ASSUME TypeInv, WindowInv, Kit, NEW c \in Clients, HasObject(c),
         NEW d \in Nat, d < call[c].mapped * PageSize
  PROVE  /\ call[c].mapping * PageSize + d \in Word
         /\ ByteAt(c, call[c].mapping * PageSize + d) = BasePage(call[c].req) * PageSize + d
<1> DEFINE k == call[c]
           base == BasePage(k.req) * PageSize
           q == d \div PageSize
           page == k.mapping + q
<1>2. Progressing(k) /\ k.total \in Nat /\ k.mapped \in Nat /\ k.mapping \in Nat
  BY CallNumbers
<1>3. k.req \in Requests /\ ~ AddressRefused(k.req) /\ k.mapped = k.total
  BY <1>2 DEF Progressing, HasObject
<1>4. BasePage(k.req) \in Nat /\ base \in Nat
  <2>1. BasePage(k.req) \in Page BY <1>3, RequestPages
  <2>2. QED BY <1>3, <2>1, RequestPages, WholePages DEF Page
<1>5. k.mapped * PageSize \in Nat /\ k.mapping * PageSize \in Nat BY <1>2, PagesInOrder
<1>6. /\ q \in Nat /\ q < k.mapped /\ q * PageSize \in Nat
      /\ d = q * PageSize + (d % PageSize) /\ d % PageSize \in Nat /\ d % PageSize < PageSize
  <2>1. /\ q \in Nat /\ d % PageSize \in 0 .. (PageSize - 1) /\ q * PageSize \in Nat
        /\ d = q * PageSize + (d % PageSize) /\ q * PageSize <= d
    BY PageDivision
  <2> HIDE DEF q
  <2>2. k.mapped <= q => k.mapped * PageSize <= q * PageSize BY <1>2, <2>1, PagesInOrder
  <2>3. QED BY <1>2, <1>5, <2>1, <2>2, WholePages
<1>7. /\ page \in HeapPages /\ local[page].owner = c
      /\ local[page].shows = BasePage(k.req) + q
      /\ local[page].shows \in Page
  <2> HIDE DEF q
  <2>1. page \in Run(k.mapping, k.mapped) /\ page \in Run(k.mapping, k.total)
        /\ page - k.mapping = q
    BY <1>2, <1>3, <1>6 DEF Run
  <2>2. k.pc \in InMap BY DEF HasObject, InMap
  <2>3. QED BY <2>1, <2>2 DEF WindowInv, Window
<1>8. k.mapping * PageSize + d \in Word
  <2>1. k.mapping * PageSize + d = page * PageSize + (d % PageSize) BY <1>2, WholePageShift
  <2> HIDE DEF q
  <2>2. page \in Nat /\ page + 1 <= Pages
    BY <1>2, <1>6, <1>7, MapAssumption, WholePages DEF Page
  <2> HIDE DEF page
  <2>3. (page + 1) * PageSize <= MaxWord + 1 /\ (page + 1) * PageSize = page * PageSize + PageSize
        /\ page * PageSize \in Nat
    <3>1. page + 1 \in Nat BY <2>2
    <3>2. (page + 1) * PageSize <= Pages * PageSize BY <2>2, <3>1, PagesInOrder, WholePages
    <3>3. QED BY <2>2, <3>2, PagesInOrder, WholePages
  <2>4. k.mapping * PageSize + d < MaxWord + 1 /\ k.mapping * PageSize + d \in Nat
    BY <1>5, <1>6, <2>1, <2>3, WholePages, WordAssumption
  <2>5. QED BY <2>4, WordAssumption DEF Word
<1>9. /\ (k.mapping * PageSize + d) \div PageSize = page
      /\ (k.mapping * PageSize + d) % PageSize = d % PageSize
  BY <1>2, WholePageShift
<1>10. ByteAt(c, k.mapping * PageSize + d) = local[page].shows * PageSize + (d % PageSize)
  BY <1>7, <1>9 DEF ByteAt
<1>11. (BasePage(k.req) + (d \div PageSize)) * PageSize = base + (d \div PageSize) * PageSize
  BY <1>4, <1>6, WholePages, SMT
<1>12. QED BY <1>4, <1>6, <1>7, <1>8, <1>10, <1>11

\* Every byte a handler can reach through its object of MachOKit's is the target's byte at the address it stands
\* for: the offset into the first page is applied alike on both sides, and the length stops at the
\* last page that was mapped.
THEOREM PointersAreTruthful == Spec => []PointersReadTarget
<1>1. ASSUME TypeInv, WindowInv, Kit, NEW c \in Clients PROVE ReadsTarget(c)
  <2> DEFINE k == call[c]
             base == BasePage(k.req) * PageSize
             object == Object(c)
  <2>1. c \in Clients BY <1>1
  <2>2. SUFFICES ASSUME HasObject(c), NEW x \in Word,
                        Succeeded(mk_memory_object_remap_address(object, 0, x, 1))
                 PROVE  ByteAt(c, mk_memory_object_remap_address(object, 0, x, 1).value) = x
    BY DEF ReadsTarget
  <2>3. /\ Progressing(k) /\ k.total \in Nat /\ k.mapped \in Nat /\ k.mapping \in Nat
    BY <1>1, <2>1, CallNumbers
  <2>4. k.req \in Requests /\ ~ AddressRefused(k.req) /\ k.mapped = k.total
    BY <2>2, <2>3 DEF Progressing, HasObject
  <2>5. /\ AddressOffset(k.req) \in Nat /\ BasePage(k.req) \in Nat /\ base \in Nat
        /\ ContextAddress(k.req) = base + AddressOffset(k.req)
    <3>1. AddressOffset(k.req) \in 0 .. (PageSize - 1) /\ BasePage(k.req) \in Page
      BY <2>4, RequestPages
    <3>2. QED BY <2>4, <3>1, RequestPages, WholePages DEF Page
  <2>6. /\ object.target_address = base + AddressOffset(k.req)
        /\ object.address = k.mapping * PageSize + AddressOffset(k.req)
        /\ object.length = k.mapped * PageSize - AddressOffset(k.req)
    BY <1>1, <2>5 DEF Object, ObjectLength
  <2>7. k.mapped * PageSize \in Nat /\ k.mapping * PageSize \in Nat /\ x \in Nat
    BY <2>3, WholePages, WordAssumption DEF Word
  <2>8. /\ base + AddressOffset(k.req) <= x /\ x < base + k.mapped * PageSize
        /\ mk_memory_object_remap_address(object, 0, x, 1)
             = Ok(Wrap(k.mapping * PageSize + (x - base)))
    <3> DEFINE found == Locate(object.target_address, object.length, 0, x, 1)
    <3>1. found = Ok(x) /\ base + AddressOffset(k.req) <= x
          /\ ~ (Wrap(base + k.mapped * PageSize) < x + 1)
      BY <2>2, <2>5, <2>6, <2>7
         DEF mk_memory_object_remap_address, Locate, Succeeded, Fails, Ok
    <3>2. Wrap(base + k.mapped * PageSize) <= base + k.mapped * PageSize
          /\ Wrap(base + k.mapped * PageSize) \in Nat
      <4>1. base + k.mapped * PageSize \in Nat BY <2>5, <2>7
      <4>2. QED BY <4>1, WrapBelow, WordAssumption DEF Word
    <3>3. x < base + k.mapped * PageSize BY <2>5, <2>7, <3>1, <3>2
    <3>4. mk_memory_object_remap_address(object, 0, x, 1)
            = Ok(Wrap(object.address + (x - object.target_address)))
      BY <3>1 DEF mk_memory_object_remap_address, Succeeded, Ok
    <3>5. object.address + (x - object.target_address) = k.mapping * PageSize + (x - base)
      BY <2>5, <2>6, <2>7
    <3>6. QED BY <3>1, <3>3, <3>4, <3>5
  <2>9. PICK d \in Nat : x = base + d /\ d < k.mapped * PageSize
    <3>1. x - base \in Nat /\ x = base + (x - base) /\ x - base < k.mapped * PageSize
      BY <2>5, <2>7, <2>8
    <3>2. QED BY <3>1
  <2>10. k.mapping * PageSize + (x - base) = k.mapping * PageSize + d BY <2>5, <2>7, <2>9
  <2>11. k.mapping * PageSize + d \in Word /\ ByteAt(c, k.mapping * PageSize + d) = base + d
    BY <1>1, <2>2, <2>9, MappedByte
  <2>12. Wrap(k.mapping * PageSize + d) = k.mapping * PageSize + d BY <2>11, WrapOfWord
  <2>13. QED BY <2>8, <2>9, <2>10, <2>11, <2>12 DEF Ok
<1>2. TypeInv /\ WindowInv => PointersReadTarget BY <1>1 DEF PointersReadTarget
<1>3. QED BY <1>2, AlwaysTyped, AlwaysWindow, PTL
----------------------------------------------------------------------------
(* MachOKit's mapping implements what a memory map promises.               *)

\* A call has pages for what it was asked for: when the range must be covered in full, for all of
\* it behind its place in the first page, and else at least for that place.  A call that measures
\* has not been asked for the range in full.
Enough(k) ==
  /\ k.pc = "verify" => ~ k.req.requireFull /\ k.verified <= k.total
  /\ k.pc # "idle" => k.total * PageSize <= MaxWord
  /\ k.pc \in {"reserve"} \cup InMap =>
       /\ AddressOffset(k.req) <= k.total * PageSize
       /\ k.req.requireFull => k.req.length + AddressOffset(k.req) <= k.total * PageSize

EnoughInv == \A c \in Clients : Enough(call[c])

\* The rounded length covers the range, from its place in the first page on, unless the overflow
\* check notices that it does not: neither the addition nor the rounding can wrap behind its back.
LEMMA RoundedCovers ==
  ASSUME NEW r \in Requests, ~ AddressRefused(r), ~ LengthOverflows(r)
  PROVE  r.length + AddressOffset(r) <= TotalPages(r) * PageSize
<1> DEFINE n == r.length + AddressOffset(r)
           v == Wrap(Wrap(n) + PageSize - 1)
           pages == v \div PageSize
<1>1. /\ r.length \in Nat /\ r.length <= MaxWord /\ AddressOffset(r) \in Nat
      /\ AddressOffset(r) <= PageSize - 1 /\ PageSize \in Nat \ {0} /\ 2 * PageSize <= MaxWord
      /\ MaxWord \in Nat
  <2>1. r.length \in Word /\ AddressOffset(r) \in 0 .. (PageSize - 1) BY RequestPages
  <2>2. QED BY <2>1, WordAssumption, WholePages, MapAssumption DEF Word
<1>2. n \in Nat BY <1>1
<1> HIDE DEF n
<1>3. Wrap(n) \in Nat /\ (Wrap(n) = n \/ Wrap(n) <= n - (MaxWord + 1))
  BY <1>1, <1>2 DEF Wrap
<1>4. \A m \in Nat : Wrap(m) \in Nat /\ (Wrap(m) = m \/ Wrap(m) <= m - (MaxWord + 1))
  BY <1>1 DEF Wrap
<1>5. Wrap(n) + PageSize - 1 \in Nat BY <1>1, <1>3
<1>6. v \in Nat /\ (v = n + PageSize - 1 \/ v <= n + PageSize - 1 - (MaxWord + 1))
  BY <1>1, <1>2, <1>3, <1>4, <1>5
<1> HIDE DEF v
<1>7. /\ pages * PageSize \in Nat /\ pages * PageSize <= v
      /\ v = pages * PageSize + (v % PageSize) /\ v % PageSize \in 0 .. (PageSize - 1)
  BY <1>6, PageDivision
<1>8. pages = TotalPages(r) BY DEF TotalPages, RoundPage, v, n
<1>9. r.length <= pages * PageSize
  <2>1. ~ (pages * PageSize < r.length) BY <1>8 DEF LengthOverflows
  <2>2. QED BY <1>1, <1>7, <2>1
<1> HIDE DEF pages
<1>10. v = n + PageSize - 1
  <2>1. SUFFICES ASSUME v <= n + PageSize - 1 - (MaxWord + 1) PROVE FALSE BY <1>6
  <2>2. r.length <= v BY <1>1, <1>6, <1>7, <1>9
  <2>3. r.length <= r.length + AddressOffset(r) + PageSize - 1 - (MaxWord + 1)
    BY <1>1, <1>6, <2>1, <2>2 DEF n
  <2>4. QED BY <1>1, <2>3
<1>11. n <= pages * PageSize BY <1>1, <1>2, <1>6, <1>7, <1>10
<1>12. QED BY <1>8, <1>11 DEF n

\* What a call sets out to map does not reach past the address space, and is enough when the
\* range must be covered in full.
LEMMA BeginsWithEnough ==
  ASSUME NEW r \in Requests, ~ AddressRefused(r), ~ RangeRefused(r)
  PROVE  LET pages == TotalLength(r) \div PageSize
         IN  /\ pages * PageSize <= MaxWord
             /\ r.requireFull => r.length + AddressOffset(r) <= pages * PageSize
                                 /\ AddressOffset(r) <= pages * PageSize
<1> DEFINE pages == TotalLength(r) \div PageSize
<1>1. /\ r.length \in Nat /\ AddressOffset(r) \in Nat /\ MaxWord \in Nat /\ PageSize \in Nat
      /\ BasePage(r) * PageSize \in Nat /\ BasePage(r) * PageSize <= MaxWord
  <2>1. /\ r.length \in Word /\ AddressOffset(r) \in 0 .. (PageSize - 1)
        /\ BasePage(r) * PageSize \in Nat /\ BasePage(r) * PageSize <= MaxWord
    BY RequestPages
  <2>2. QED BY <2>1, WordAssumption, WholePages DEF Word
<1>2. CASE LengthOverflows(r) \/ EndOverflows(r)
  <2>1. ~ r.requireFull BY <1>2 DEF RangeRefused
  <2>2. TotalLength(r) \in Nat /\ TotalLength(r) <= MaxWord
    BY <1>1, <1>2 DEF TotalLength, ShortLength
  <2>3. pages * PageSize <= TotalLength(r) /\ pages * PageSize \in Nat BY <2>2, PageDivision
  <2>4. pages * PageSize <= MaxWord BY <1>1, <2>2, <2>3
  <2>5. QED BY <2>1, <2>4
<1>3. CASE ~ LengthOverflows(r) /\ ~ EndOverflows(r)
  <2>1. TotalLength(r) = TotalPages(r) * PageSize BY <1>3 DEF TotalLength
  <2>2. TotalPages(r) \in Nat
    <3>1. Wrap(r.length + AddressOffset(r)) \in Nat BY <1>1 DEF Wrap
    <3>2. Wrap(Wrap(r.length + AddressOffset(r)) + PageSize - 1) \in Nat
      BY <3>1, WholePages, <1>1 DEF Wrap
    <3>3. QED BY <3>2, PageDivision DEF TotalPages, RoundPage
  <2>3. pages = TotalPages(r)
    <3>1. 0 \in 0 .. (PageSize - 1) BY WholePages
    <3>2. TotalPages(r) * PageSize \in Nat BY <2>2, PagesInOrder
    <3>3. TotalPages(r) * PageSize = TotalPages(r) * PageSize + 0 BY <3>2
    <3>4. QED BY <2>1, <2>2, <3>1, <3>2, <3>3, DivisionIsUnique
  <2>4. TotalPages(r) * PageSize \in Nat BY <2>2, PagesInOrder
  <2>5. TotalPages(r) * PageSize <= MaxWord
    <3>1. ~ (MaxWord - TotalPages(r) * PageSize < BasePage(r) * PageSize)
      BY <1>3 DEF EndOverflows
    <3>2. QED BY <1>1, <2>4, <3>1
  <2>6. r.length + AddressOffset(r) <= TotalPages(r) * PageSize BY <1>3, RoundedCovers
  <2>7. AddressOffset(r) <= TotalPages(r) * PageSize BY <1>1, <2>4, <2>6
  <2>8. /\ pages * PageSize <= MaxWord
        /\ r.length + AddressOffset(r) <= pages * PageSize /\ AddressOffset(r) <= pages * PageSize
    BY <2>3, <2>5, <2>6, <2>7, Zenon
  <2>9. QED BY <2>8, Zenon
<1>4. QED BY <1>2, <1>3

\* A call that is over, or that goes on with what it had, has enough.
LEMMA GoesOnWithEnough ==
  ASSUME NEW k, NEW new, Enough(k), new.pc = "idle"
           \/ /\ new.pc \in InMap /\ k.pc \in {"reserve"} \cup InMap
              /\ new.req = k.req /\ new.total = k.total
  PROVE  Enough(new)
  BY DEF Enough, InMap

LEMMA ProceedKeepsEnough ==
  ASSUME TypeInv, NEW c \in Clients, Proceed(c), Enough(call[c])
  PROVE  Enough(call'[c])
<1> DEFINE k == call[c]
<1>1. k \in CallRecord /\ Progressing(k) BY CallNumbers
<1>2. \A from, to : Step(c, from, to) => k.pc = from /\ call'[c] = to
  BY DEF Step, TypeInv, TypeOK
<1>3. \A e : Returned(e).pc = "idle" BY DEF Returned
<1>4. k.total \in Nat /\ k.verified \in Nat /\ k.mapped \in Nat
  BY <1>1, WholePages DEF CallRecord, Count
<1>a. CASE VerifyEntry(c)
  <2>1. PICK n \in EntrySizes(BasePage(k.req) + k.verified, k.total - k.verified) :
          Step(c, "verify", [k EXCEPT !.verified = k.verified + n])
    BY <1>a DEF VerifyEntry
  <2> DEFINE to == [k EXCEPT !.verified = k.verified + n]
  <2>2. call'[c] = to /\ k.pc = "verify" BY <1>2, <2>1
  <2>3. to.pc = "verify" /\ to.req = k.req /\ to.total = k.total /\ to.verified = k.verified + n
    BY <1>1, <2>2 DEF CallRecord
  <2>4. k.verified + n <= k.total
    <3>1. n \in 1 .. (k.total - k.verified) BY <2>1 DEF EntrySizes
    <3>2. QED BY <1>4, <3>1
  <2> HIDE DEF to
  <2>5. QED BY <2>2, <2>3, <2>4 DEF Enough, InMap
<1>b. CASE VerifyDone(c)
  <2> DEFINE on == [k EXCEPT !.pc = "reserve",
                             !.total = IF k.verified < k.total THEN k.verified ELSE k.total]
  <2>1. k.pc = "verify" /\ (k.verified # 0 => call'[c] = on) /\ (k.verified = 0 => call'[c].pc = "idle")
    BY <1>2, <1>3, <1>b DEF VerifyDone
  <2>2. CASE k.verified = 0 BY <2>1, <2>2, GoesOnWithEnough
  <2>3. CASE k.verified # 0
    <3>1. ~ k.req.requireFull /\ k.verified <= k.total /\ k.total * PageSize <= MaxWord
      BY <2>1 DEF Enough
    <3>2. on.pc = "reserve" /\ on.req = k.req
          /\ on.total = IF k.verified < k.total THEN k.verified ELSE k.total
      BY <1>1 DEF CallRecord
    <3>3. on.total = k.verified BY <1>4, <3>1, <3>2
    <3>4. k.verified * PageSize <= k.total * PageSize /\ PageSize <= k.verified * PageSize
          /\ k.verified * PageSize \in Nat /\ k.total * PageSize \in Nat
      <4>1. k.verified - 1 \in Nat BY <1>4, <2>3
      <4>2. ((k.verified - 1) + 1) * PageSize = (k.verified - 1) * PageSize + PageSize
            /\ (k.verified - 1) * PageSize \in Nat
        BY <4>1, PagesInOrder
      <4>3. (k.verified - 1) + 1 = k.verified BY <1>4
      <4>4. PageSize <= k.verified * PageSize BY <4>2, <4>3, WholePages
      <4>5. QED BY <1>4, <3>1, <4>4, PagesInOrder
    <3>5. AddressOffset(k.req) \in 0 .. (PageSize - 1)
      <4>1. k.req \in Requests /\ ~ AddressRefused(k.req) BY <1>1, <2>1 DEF Progressing
      <4>2. QED BY <4>1, RequestPages
    <3>6. k.verified * PageSize <= MaxWord /\ AddressOffset(k.req) <= k.verified * PageSize
      BY <3>1, <3>4, <3>5, WordAssumption, WholePages
    <3> HIDE DEF on
    <3>7. QED BY <2>1, <2>3, <3>1, <3>2, <3>3, <3>6 DEF Enough, InMap
  <2>4. QED BY <2>2, <2>3
<1>c. CASE Reserve(c)
  <2>1. PICK first : Step(c, "reserve", [k EXCEPT !.pc = "map", !.mapping = first])
    BY <1>c DEF Reserve
  <2> DEFINE to == [k EXCEPT !.pc = "map", !.mapping = first]
  <2>2. call'[c] = to /\ k.pc = "reserve" BY <1>2, <2>1
  <2>3. to.pc = "map" /\ to.req = k.req /\ to.total = k.total BY <1>1 DEF CallRecord
  <2> HIDE DEF to
  <2>4. QED BY <2>2, <2>3, GoesOnWithEnough DEF InMap
<1>d. CASE ReserveFails(c) \/ MakeEntryFails(c) \/ MapEntryFails(c) \/ HandlerReturns(c)
           \/ free_object(c)
  <2>1. call'[c].pc = "idle"
    BY <1>2, <1>3, <1>d
       DEF ReserveFails, MakeEntryFails, MapEntryFails, HandlerReturns, free_object
  <2>2. QED BY <2>1, GoesOnWithEnough
<1>e. CASE MakeEntry(c)
  <2>1. PICK n : Step(c, "map", [k EXCEPT !.pc = "mapentry", !.entry = n, !.rights = 1])
    BY <1>e DEF MakeEntry
  <2> DEFINE to == [k EXCEPT !.pc = "mapentry", !.entry = n, !.rights = 1]
  <2>2. call'[c] = to /\ k.pc = "map" BY <1>2, <2>1
  <2>3. to.pc = "mapentry" /\ to.req = k.req /\ to.total = k.total BY <1>1 DEF CallRecord
  <2> HIDE DEF to
  <2>4. QED BY <2>2, <2>3, GoesOnWithEnough DEF InMap
<1>f. CASE MapEntry(c)
  <2> DEFINE to == [k EXCEPT !.pc = "map", !.mapped = k.mapped + k.entry, !.entry = 0, !.rights = 0]
  <2>1. call'[c] = to /\ k.pc = "mapentry" BY <1>2, <1>f DEF MapEntry
  <2>2. to.pc = "map" /\ to.req = k.req /\ to.total = k.total BY <1>1 DEF CallRecord
  <2> HIDE DEF to
  <2>3. QED BY <2>1, <2>2, GoesOnWithEnough DEF InMap
<1>g. CASE Finish(c)
  <2> DEFINE to == [k EXCEPT !.pc = "object"]
  <2>1. call'[c] = to /\ k.pc = "map" BY <1>2, <1>g DEF Finish
  <2>2. to.pc = "object" /\ to.req = k.req /\ to.total = k.total BY <1>1 DEF CallRecord
  <2> HIDE DEF to
  <2>3. QED BY <2>1, <2>2, GoesOnWithEnough DEF InMap
<1>h. QED BY <1>a, <1>b, <1>c, <1>d, <1>e, <1>f, <1>g DEF Proceed

\* What a call becomes that begins.
LEMMA BeginMoves ==
  ASSUME TypeInv, NEW c \in Clients, NEW r \in Requests, Begin(c, r)
  PROVE  /\ \A d \in Clients \ {c} : call'[d] = call[d]
         /\ call[c].pc = "idle"
         /\ \/ call'[c].pc = "idle"
            \/ /\ ~ AddressRefused(r) /\ ~ RangeRefused(r)
               /\ call'[c].pc = IF r.requireFull THEN "reserve" ELSE "verify"
               /\ call'[c].req = r /\ call'[c].verified = 0
               /\ call'[c].total = TotalLength(r) \div PageSize
<1> DEFINE on == [Returned("ESUCCESS") EXCEPT
                    !.pc = IF r.requireFull THEN "reserve" ELSE "verify",
                    !.req = r, !.total = TotalLength(r) \div PageSize]
           to == IF AddressRefused(r) THEN Returned("EOVERFLOW")
                 ELSE IF RangeRefused(r) THEN Returned(RefusalCode) ELSE on
<1>1. call[c].pc = "idle" BY DEF Begin
<1>2. \A e : Returned(e).pc = "idle" BY DEF Returned
<1>3. CASE Misaligned(r) BY <1>1, <1>3 DEF Begin
<1>4. CASE ~ Misaligned(r)
  <2>1. call' = [call EXCEPT ![c] = to] BY <1>4 DEF Begin
  <2>2. call'[c] = to /\ \A d \in Clients \ {c} : call'[d] = call[d]
    <3> HIDE DEF to
    <3>1. QED BY <2>1 DEF TypeInv, TypeOK
  <2>3. /\ on.pc = IF r.requireFull THEN "reserve" ELSE "verify"
        /\ on.req = r /\ on.verified = 0 /\ on.total = TotalLength(r) \div PageSize
    BY DEF Returned
  <2> HIDE DEF on
  <2>4. QED BY <1>1, <1>2, <2>2, <2>3
<1>5. QED BY <1>3, <1>4

LEMMA NextKeepsEnough == TypeInv /\ EnoughInv /\ [Next]_vars => EnoughInv'
<1>1. SUFFICES ASSUME TypeInv, EnoughInv, [Next]_vars, NEW c \in Clients PROVE Enough(call'[c])
  BY DEF EnoughInv, Enough
<1>2. Enough(call[c]) BY <1>1 DEF EnoughInv
<1>3. ASSUME NEW d \in Clients, NEW r \in Requests, Begin(d, r) PROVE Enough(call'[c])
  <2>1. CASE c # d BY <1>1, <1>2, <1>3, <2>1, BeginMoves
  <2>2. CASE c = d /\ call'[c].pc = "idle" BY <1>2, <2>2, GoesOnWithEnough
  <2>3. CASE c = d /\ call'[c].pc # "idle"
    <3>1. /\ ~ AddressRefused(r) /\ ~ RangeRefused(r)
          /\ call'[c].pc = IF r.requireFull THEN "reserve" ELSE "verify"
          /\ call'[c].req = r /\ call'[c].verified = 0
          /\ call'[c].total = TotalLength(r) \div PageSize
      BY <1>1, <1>3, <2>3, BeginMoves
    <3> DEFINE pages == TotalLength(r) \div PageSize
    <3>2. /\ pages * PageSize <= MaxWord
          /\ r.requireFull => r.length + AddressOffset(r) <= pages * PageSize
                              /\ AddressOffset(r) <= pages * PageSize
      BY <3>1, BeginsWithEnough
    <3>3. pages \in Nat
      <4>1. pages \in Count BY <3>1, TotalIsCount
      <4>2. QED BY <4>1, WholePages DEF Count
    <3> HIDE DEF pages
    <3>4. call'[c].total = pages /\ call'[c].verified <= pages BY <3>1, <3>3 DEF pages
    <3>5. QED BY <3>1, <3>2, <3>4 DEF Enough, InMap
  <2>4. QED BY <2>1, <2>2, <2>3
<1>4. ASSUME NEW d \in Clients, Proceed(d) PROVE Enough(call'[c])
  <2>1. CASE c = d BY <1>1, <1>2, <1>4, <2>1, ProceedKeepsEnough
  <2>2. CASE c # d
    <3>1. call'[c] = call[c] BY <1>1, <1>4, <2>2, OneThreadMoves
    <3>2. QED BY <1>2, <3>1
  <2>3. QED BY <2>1, <2>2
<1>5. ASSUME NEW p \in Page, TargetChanges(p) PROVE Enough(call'[c])
  BY <1>2, <1>5 DEF TargetChanges
<1>6. CASE UNCHANGED vars BY <1>2, <1>6 DEF vars
<1>7. QED BY <1>1, <1>3, <1>4, <1>5, <1>6, Steps

LEMMA AlwaysEnough == Spec => []EnoughInv
<1>1. Init => EnoughInv BY DEF Init, EnoughInv, Enough, Returned, InMap
<1>2. QED BY <1>1, NextKeepsEnough, AlwaysTyped, PTL DEF Spec

\* What a client has asked for, and what it sees, is told by its call alone.
AskedOf(k) ==
  IF k.pc = "idle" THEN Nothing
  ELSE [address |-> ContextAddress(k.req), length |-> k.req.length, requireFull |-> k.req.requireFull]
SeenLength(k) == k.mapped * PageSize - AddressOffset(k.req)
ViewOf(k) ==
  IF k.pc # "object" THEN Nothing ELSE Promise!Truthful(ContextAddress(k.req), SeenLength(k))

\* A client sees as much as it must, and each byte of it is the target's.
Shown(c) ==
  /\ View(c) = ViewOf(call[c])
  /\ HasObject(c) =>
       /\ ContextAddress(call[c].req) \in Word /\ SeenLength(call[c]) \in 0 .. MaxWord
       /\ call[c].req.requireFull => SeenLength(call[c]) >= call[c].req.length
ShownInv == Kit => \A c \in Clients : Shown(c)

LEMMA ObjectsShow == TypeInv /\ WindowInv /\ EnoughInv => ShownInv
<1> SUFFICES ASSUME TypeInv, WindowInv, EnoughInv, Kit, NEW c \in Clients PROVE Shown(c)
  BY DEF ShownInv
<1>1. CASE ~ HasObject(c) BY <1>1 DEF Shown, View, ViewOf, HasObject
<1>2. CASE HasObject(c)
  <2> DEFINE k == call[c]
             at == ContextAddress(k.req)
             base == BasePage(k.req) * PageSize
             size == k.mapped * PageSize
  <2>2. /\ k.req \in Requests /\ ~ AddressRefused(k.req) /\ k.mapped = k.total
        /\ k.mapped \in Nat /\ k.mapping \in Nat /\ k.pc = "object" /\ Enough(k)
    BY <1>2, CallNumbers DEF Progressing, HasObject, EnoughInv
  <2>3. /\ AddressOffset(k.req) \in Nat /\ base \in Nat /\ at \in Word
        /\ at = base + AddressOffset(k.req) /\ k.req.length \in Nat
    <3>1. AddressOffset(k.req) \in 0 .. (PageSize - 1) BY <2>2, RequestPages
    <3>2. k.req.length \in Word BY <2>2, RequestPages
    <3>3. QED BY <2>2, <3>1, <3>2, RequestPages, WordAssumption DEF Word
  <2>4. size \in Nat /\ k.mapping * PageSize \in Nat BY <2>2, PagesInOrder
  <2>5. /\ size <= MaxWord /\ AddressOffset(k.req) <= size
        /\ k.req.requireFull => k.req.length + AddressOffset(k.req) <= size
    BY <2>2 DEF Enough, InMap
  <2>6. ObjectLength(c) = SeenLength(k) BY DEF ObjectLength, SeenLength
  <2>7. Object(c).address = k.mapping * PageSize + AddressOffset(k.req) BY DEF Object
  <2>8. ASSUME NEW x \in at .. (at + SeenLength(k) - 1)
        PROVE  ByteAt(c, Object(c).address + (x - at)) = x
    <3> DEFINE d == x - base
    <3> HIDE DEF base, size
    <3>1. at \in Nat /\ SeenLength(k) = size - AddressOffset(k.req)
      BY <2>3, WordAssumption DEF Word, SeenLength, size
    <3> HIDE DEF at
    <3>2. x \in Int /\ at <= x /\ x <= at + SeenLength(k) - 1 BY <2>3, <2>4, <3>1
    <3>3. d \in Nat /\ d < size BY <2>3, <2>4, <3>1, <3>2
    <3>4. Object(c).address + (x - at) = k.mapping * PageSize + d BY <2>3, <2>4, <2>7, <3>1, <3>2
    <3>5. base + d = x BY <2>3, <3>2
    <3> HIDE DEF d
    <3>6. ByteAt(c, k.mapping * PageSize + d) = base + d BY <1>2, <3>3, MappedByte DEF size, base
    <3>7. QED BY <3>4, <3>5, <3>6
  <2>9. View(c) = ViewOf(k)
    <3>1. View(c) = [x \in at .. (at + SeenLength(k) - 1) |->
                       ByteAt(c, Object(c).address + (x - at))]
      BY <1>2, <2>6 DEF View
    <3>2. ViewOf(k) = [x \in at .. (at + SeenLength(k) - 1) |-> x]
      BY <2>2 DEF ViewOf, Promise!Truthful
    <3> HIDE DEF at, k
    <3>3. QED BY <2>8, <3>1, <3>2, Zenon
  <2>10. SeenLength(k) \in 0 .. MaxWord /\ (k.req.requireFull => SeenLength(k) >= k.req.length)
    <3>1. SeenLength(k) = size - AddressOffset(k.req) BY DEF SeenLength
    <3> HIDE DEF size
    <3>2. QED BY <2>3, <2>4, <2>5, <3>1, WordAssumption
  <2>11. QED BY <1>2, <2>3, <2>9, <2>10 DEF Shown
<1>3. QED BY <1>1, <1>2

\* The ways a call moves on, seen from outside: not at all, by being answered, refused or closed.
Stays(k, new) ==
  /\ k.pc = "idle" <=> new.pc = "idle"
  /\ k.pc # "object" /\ new.pc # "object"
  /\ k.pc # "idle" => new.req = k.req
Granted(k, new) ==
  k.pc \notin {"idle", "object"} /\ new.pc = "object" /\ new.req = k.req
Refused(k, new) == k.pc \notin {"idle", "object"} /\ new.pc = "idle"
Closed(k, new) == k.pc = "object" /\ new.pc = "idle"

LEMMA ProceedMoves ==
  ASSUME TypeInv, NEW c \in Clients, Proceed(c)
  PROVE  LET k == call[c]
             new == call'[c]
         IN  Stays(k, new) \/ Granted(k, new) \/ Refused(k, new) \/ Closed(k, new)
<1> DEFINE k == call[c]
<1>1. k \in CallRecord BY CallNumbers
<1>2. \A from, to : Step(c, from, to) => k.pc = from /\ call'[c] = to
  BY DEF Step, TypeInv, TypeOK
<1>3. \A e : Returned(e).pc = "idle" BY DEF Returned
<1>a. CASE VerifyEntry(c)
  <2>1. PICK n : Step(c, "verify", [k EXCEPT !.verified = k.verified + n]) BY <1>a DEF VerifyEntry
  <2> DEFINE to == [k EXCEPT !.verified = k.verified + n]
  <2>2. call'[c] = to /\ k.pc = "verify" BY <1>2, <2>1
  <2>3. to.pc = k.pc /\ to.req = k.req BY <1>1 DEF CallRecord
  <2> HIDE DEF to
  <2>4. QED BY <2>2, <2>3 DEF Stays
<1>b. CASE VerifyDone(c)
  <2> DEFINE on == [k EXCEPT !.pc = "reserve",
                             !.total = IF k.verified < k.total THEN k.verified ELSE k.total]
  <2>1. k.pc = "verify" /\ (call'[c] = on \/ call'[c].pc = "idle")
    BY <1>2, <1>3, <1>b DEF VerifyDone
  <2>2. on.pc = "reserve" /\ on.req = k.req BY <1>1 DEF CallRecord
  <2> HIDE DEF on
  <2>3. QED BY <2>1, <2>2 DEF Stays, Refused
<1>c. CASE Reserve(c)
  <2>1. PICK first : Step(c, "reserve", [k EXCEPT !.pc = "map", !.mapping = first])
    BY <1>c DEF Reserve
  <2> DEFINE to == [k EXCEPT !.pc = "map", !.mapping = first]
  <2>2. call'[c] = to /\ k.pc = "reserve" BY <1>2, <2>1
  <2>3. to.pc = "map" /\ to.req = k.req BY <1>1 DEF CallRecord
  <2> HIDE DEF to
  <2>4. QED BY <2>2, <2>3 DEF Stays
<1>d. CASE ReserveFails(c) \/ MakeEntryFails(c) \/ MapEntryFails(c)
  <2>1. call'[c].pc = "idle" /\ k.pc \in {"reserve", "map", "mapentry"}
    BY <1>2, <1>3, <1>d DEF ReserveFails, MakeEntryFails, MapEntryFails
  <2>2. QED BY <2>1 DEF Refused
<1>e. CASE MakeEntry(c)
  <2>1. PICK n : Step(c, "map", [k EXCEPT !.pc = "mapentry", !.entry = n, !.rights = 1])
    BY <1>e DEF MakeEntry
  <2> DEFINE to == [k EXCEPT !.pc = "mapentry", !.entry = n, !.rights = 1]
  <2>2. call'[c] = to /\ k.pc = "map" BY <1>2, <2>1
  <2>3. to.pc = "mapentry" /\ to.req = k.req BY <1>1 DEF CallRecord
  <2> HIDE DEF to
  <2>4. QED BY <2>2, <2>3 DEF Stays
<1>f. CASE MapEntry(c)
  <2> DEFINE to == [k EXCEPT !.pc = "map", !.mapped = k.mapped + k.entry, !.entry = 0, !.rights = 0]
  <2>1. call'[c] = to /\ k.pc = "mapentry" BY <1>2, <1>f DEF MapEntry
  <2>2. to.pc = "map" /\ to.req = k.req BY <1>1 DEF CallRecord
  <2> HIDE DEF to
  <2>3. QED BY <2>1, <2>2 DEF Stays
<1>g. CASE Finish(c)
  <2> DEFINE to == [k EXCEPT !.pc = "object"]
  <2>1. call'[c] = to /\ k.pc = "map" BY <1>2, <1>g DEF Finish
  <2>2. to.pc = "object" /\ to.req = k.req BY <1>1 DEF CallRecord
  <2> HIDE DEF to
  <2>3. QED BY <2>1, <2>2 DEF Granted
<1>h. CASE HandlerReturns(c) \/ free_object(c)
  <2>1. call'[c].pc = "idle" /\ k.pc = "object"
    BY <1>2, <1>3, <1>h DEF HandlerReturns, free_object
  <2>2. QED BY <2>1 DEF Closed
<1>i. QED BY <1>a, <1>b, <1>c, <1>d, <1>e, <1>f, <1>g, <1>h DEF Proceed

\* The range a client has asked for is not `nothing', and neither is what it sees.
LEMMA SomethingIsAsked ==
  ASSUME TypeInv, NEW c \in Clients
  PROVE  /\ call[c].pc # "idle" => AskedOf(call[c]) # Nothing
         /\ call[c].pc = "object" /\ SeenLength(call[c]) \in 0 .. MaxWord => ViewOf(call[c]) # Nothing
<1> DEFINE k == call[c]
<1>1. Progressing(k) BY CallNumbers
<1>2. CASE k.pc = "idle" BY <1>2
<1>3. CASE k.pc # "idle"
  <2>1. k.req \in Requests /\ ~ AddressRefused(k.req) BY <1>1, <1>3 DEF Progressing
  <2>2. k.req.length \in Word /\ ContextAddress(k.req) \in Word BY <2>1, RequestPages
  <2>3. k.req.requireFull \in BOOLEAN BY <2>1, MapAssumption
  <2>4. AskedOf(k) # Nothing
    <3>1. [address |-> ContextAddress(k.req), length |-> k.req.length,
           requireFull |-> k.req.requireFull]
            \in [address : Word, length : Word, requireFull : BOOLEAN]
      BY <2>2, <2>3
    <3>2. QED BY <1>3, <3>1, NothingAssumption DEF AskedOf
  <2>5. ASSUME k.pc = "object", SeenLength(k) \in 0 .. MaxWord PROVE ViewOf(k) # Nothing
    <3> DEFINE first == ContextAddress(k.req)
               last == ContextAddress(k.req) + SeenLength(k) - 1
    <3>1. first \in Word /\ last \in -1 .. (2 * MaxWord)
      <4>1. \A a, n \in 0 .. MaxWord : a + n - 1 \in -1 .. (2 * MaxWord) BY WordAssumption
      <4>2. first \in 0 .. MaxWord BY <2>2 DEF Word
      <4>3. QED BY <2>2, <2>5, <4>1, <4>2
    <3>2. ViewOf(k) = [x \in first .. last |-> x] BY <2>5 DEF ViewOf, Promise!Truthful
    <3> HIDE DEF first, last
    <3>3. QED BY <3>1, <3>2, NothingAssumption, Zenon
  <2>6. QED BY <2>4, <2>5
<1>4. QED BY <1>2, <1>3

\* The variables of the promise, told by the calls.
AskedNow == [d \in Clients |-> Asked(d)]
ViewNow == [d \in Clients |-> View(d)]
AskedIn(calls) == [d \in Clients |-> AskedOf(calls[d])]
ViewsIn(calls) == [d \in Clients |-> ViewOf(calls[d])]

LEMMA PromisedActions ==
  ASSUME NEW c \in Clients
  PROVE  /\ \A r : Promise!Ask(c, r) <=> /\ AskedNow[c] = Nothing
                                         /\ AskedNow' = [AskedNow EXCEPT ![c] = r]
                                         /\ ViewNow' = ViewNow
         /\ Promise!Grant(c) <=>
              /\ AskedNow[c] # Nothing /\ ViewNow[c] = Nothing
              /\ \E n \in 0 .. MaxWord :
                   /\ AskedNow[c].requireFull => n >= AskedNow[c].length
                   /\ ViewNow' = [ViewNow EXCEPT ![c] = Promise!Truthful(AskedNow[c].address, n)]
              /\ AskedNow' = AskedNow
         /\ Promise!Refuse(c) <=> /\ AskedNow[c] # Nothing /\ ViewNow[c] = Nothing
                                  /\ AskedNow' = [AskedNow EXCEPT ![c] = Nothing]
                                  /\ ViewNow' = ViewNow
         /\ Promise!Close(c) <=> /\ ViewNow[c] # Nothing
                                 /\ AskedNow' = [AskedNow EXCEPT ![c] = Nothing]
                                 /\ ViewNow' = [ViewNow EXCEPT ![c] = Nothing]
  BY DEF Promise!Ask, Promise!Grant, Promise!Refuse, Promise!Close, Promise!Truthful,
         AskedNow, ViewNow

\* When one call changes, so does what its client has asked for and sees, and nothing else.
LEMMA OneCallMoves ==
  ASSUME NEW calls, NEW new, NEW c \in Clients,
         \A d \in Clients \ {c} : new[d] = calls[d]
  PROVE  /\ AskedIn(new) = [AskedIn(calls) EXCEPT ![c] = AskedOf(new[c])]
         /\ ViewsIn(new) = [ViewsIn(calls) EXCEPT ![c] = ViewOf(new[c])]
  BY DEF AskedIn, ViewsIn

LEMMA NoCallMoves ==
  ASSUME NEW calls, NEW new, \A d \in Clients : new[d] = calls[d]
  PROVE  AskedIn(new) = AskedIn(calls) /\ ViewsIn(new) = ViewsIn(calls)
  BY DEF AskedIn, ViewsIn

LEMMA NothingMoves ==
  ASSUME NEW calls, NEW c \in Clients
  PROVE  /\ [AskedIn(calls) EXCEPT ![c] = AskedOf(calls[c])] = AskedIn(calls)
         /\ [ViewsIn(calls) EXCEPT ![c] = ViewOf(calls[c])] = ViewsIn(calls)
         /\ AskedIn(calls)[c] = AskedOf(calls[c]) /\ ViewsIn(calls)[c] = ViewOf(calls[c])
  BY DEF AskedIn, ViewsIn

\* Every step is one the promise allows, or one it does not see.
LEMMA StepKeepsPromise ==
  TypeInv /\ EnoughInv /\ ShownInv /\ ShownInv' /\ [Next]_vars => [Promise!Next]_(Promise!vars)
<1> SUFFICES ASSUME TypeInv, EnoughInv, ShownInv, ShownInv', [Next]_vars
             PROVE  [Promise!Next]_(Promise!vars)
  OBVIOUS
<1>0. CASE ~ Kit
  <2>1. ~ Kit' BY <1>0, OneLibrary
  <2>2. \A d \in Clients : Asked(d) = Nothing /\ View(d) = Nothing BY <1>0 DEF Asked, View
  <2>3. (\A d \in Clients : Asked(d) = Nothing /\ View(d) = Nothing)' BY <2>1 DEF Asked, View
  <2>4. QED BY <2>2, <2>3 DEF Promise!vars
<1> SUFFICES ASSUME Kit, Kit' PROVE [Promise!Next]_(Promise!vars) BY <1>0, OneLibrary
<1>1. AskedNow = AskedIn(call) /\ AskedNow' = AskedIn(call')
  BY DEF AskedNow, AskedIn, Asked, AskedOf
<1>2. ViewNow = ViewsIn(call) /\ ViewNow' = ViewsIn(call')
  <2>1. \A d \in Clients : View(d) = ViewOf(call[d]) BY DEF ShownInv, Shown
  <2>2. (\A d \in Clients : View(d) = ViewOf(call[d]))' BY DEF ShownInv, Shown
  <2>3. ViewNow = ViewsIn(call) BY <2>1 DEF ViewNow, ViewsIn
  <2>4. ViewNow' = ViewsIn(call') BY <2>2 DEF ViewNow, ViewsIn, ViewOf, SeenLength
  <2>5. QED BY <2>3, <2>4
<1>3. AskedNow' = AskedNow /\ ViewNow' = ViewNow => UNCHANGED Promise!vars
  BY DEF Promise!vars, AskedNow, ViewNow
<1>6. ASSUME NEW c \in Clients, \A d \in Clients \ {c} : call'[d] = call[d]
      PROVE  /\ AskedNow' = [AskedNow EXCEPT ![c] = AskedOf(call'[c])]
             /\ ViewNow' = [ViewNow EXCEPT ![c] = ViewOf(call'[c])]
             /\ AskedNow = [AskedNow EXCEPT ![c] = AskedOf(call[c])]
             /\ ViewNow = [ViewNow EXCEPT ![c] = ViewOf(call[c])]
             /\ AskedNow[c] = AskedOf(call[c]) /\ ViewNow[c] = ViewOf(call[c])
  <2>1. \A d \in Clients \ {c} : call'[d] = call[d] BY <1>6
  <2>2. AskedIn(call') = [AskedIn(call) EXCEPT ![c] = AskedOf(call'[c])]
        /\ ViewsIn(call') = [ViewsIn(call) EXCEPT ![c] = ViewOf(call'[c])]
    BY <2>1 DEF AskedIn, ViewsIn
  <2>3. QED BY <1>1, <1>2, <2>2, NothingMoves
<1>7. ASSUME NEW c \in Clients, NEW r \in Requests, Begin(c, r)
      PROVE  [Promise!Next]_(Promise!vars)
  <2>1. /\ \A d \in Clients \ {c} : call'[d] = call[d]
        /\ call[c].pc = "idle"
        /\ \/ call'[c].pc = "idle"
           \/ call'[c].pc = (IF r.requireFull THEN "reserve" ELSE "verify") /\ call'[c].req = r
    BY <1>7, BeginMoves
  <2>2. ViewOf(call[c]) = Nothing /\ AskedOf(call[c]) = Nothing /\ ViewOf(call'[c]) = Nothing
    BY <2>1 DEF ViewOf, AskedOf
  <2>3. CASE call'[c].pc = "idle"
    <3>1. AskedOf(call'[c]) = Nothing BY <2>3 DEF AskedOf
    <3>2. AskedNow' = AskedNow /\ ViewNow' = ViewNow BY <1>6, <2>1, <2>2, <3>1
    <3>3. QED BY <1>3, <3>2
  <2>4. CASE call'[c].pc # "idle"
    <3> DEFINE range == [address |-> ContextAddress(r), length |-> r.length,
                         requireFull |-> r.requireFull]
    <3>1. AskedOf(call'[c]) = range BY <2>1, <2>4 DEF AskedOf
    <3>2. Promise!Ask(c, range) BY <1>6, <2>1, <2>2, <3>1, PromisedActions
    <3>3. QED BY <3>2 DEF Promise!Next
  <2>5. QED BY <2>3, <2>4
<1>8. ASSUME NEW c \in Clients, Proceed(c) PROVE [Promise!Next]_(Promise!vars)
  <2> DEFINE k == call[c]
             new == call'[c]
  <2>0. \A d \in Clients \ {c} : call'[d] = call[d] BY <1>8, OneThreadMoves
  <2>1. Stays(k, new) \/ Granted(k, new) \/ Refused(k, new) \/ Closed(k, new)
    BY <1>8, ProceedMoves
  <2>2. /\ AskedNow' = [AskedNow EXCEPT ![c] = AskedOf(new)]
        /\ ViewNow' = [ViewNow EXCEPT ![c] = ViewOf(new)]
        /\ AskedNow = [AskedNow EXCEPT ![c] = AskedOf(k)]
        /\ ViewNow = [ViewNow EXCEPT ![c] = ViewOf(k)]
        /\ AskedNow[c] = AskedOf(k) /\ ViewNow[c] = ViewOf(k)
    BY <1>6, <2>0
  <2>3. k.pc # "idle" => AskedOf(k) # Nothing BY SomethingIsAsked
  <2>4. Shown(c) /\ Shown(c)' BY DEF ShownInv
  <2>5. CASE Stays(k, new)
    <3>1. AskedOf(new) = AskedOf(k) /\ ViewOf(new) = ViewOf(k)
      BY <2>5 DEF Stays, AskedOf, ViewOf
    <3>2. AskedNow' = AskedNow /\ ViewNow' = ViewNow BY <2>2, <3>1
    <3>3. QED BY <1>3, <3>2
  <2>6. CASE Granted(k, new)
    <3>1. AskedOf(new) = AskedOf(k) /\ ViewOf(k) = Nothing /\ AskedOf(k) # Nothing
      BY <2>3, <2>6 DEF Granted, AskedOf, ViewOf
    <3>2. /\ AskedOf(k).address = ContextAddress(k.req) /\ AskedOf(k).length = k.req.length
          /\ AskedOf(k).requireFull = k.req.requireFull
      BY <2>6 DEF Granted, AskedOf
    <3>3. /\ SeenLength(new) \in 0 .. MaxWord
          /\ new.req.requireFull => SeenLength(new) >= new.req.length
      BY <2>4, <2>6 DEF Shown, HasObject, Granted, SeenLength
    <3>4. ViewOf(new) = Promise!Truthful(ContextAddress(new.req), SeenLength(new))
      BY <2>6 DEF Granted, ViewOf
    <3>5. new.req = k.req BY <2>6 DEF Granted
    <3>6. /\ AskedNow[c] # Nothing /\ ViewNow[c] = Nothing /\ AskedNow' = AskedNow
          /\ AskedNow[c].requireFull => SeenLength(new) >= AskedNow[c].length
          /\ ViewNow' = [ViewNow EXCEPT ![c] = Promise!Truthful(AskedNow[c].address, SeenLength(new))]
      BY <2>2, <3>1, <3>2, <3>3, <3>4, <3>5
    <3>7. Promise!Grant(c) BY <3>3, <3>6, PromisedActions
    <3>8. QED BY <3>7 DEF Promise!Next
  <2>7. CASE Refused(k, new)
    <3>1. AskedOf(new) = Nothing /\ ViewOf(k) = Nothing /\ ViewOf(new) = Nothing /\ AskedOf(k) # Nothing
      BY <2>3, <2>7 DEF Refused, AskedOf, ViewOf
    <3>2. Promise!Refuse(c) BY <2>2, <3>1, PromisedActions
    <3>3. QED BY <3>2 DEF Promise!Next
  <2>8. CASE Closed(k, new)
    <3>1. AskedOf(new) = Nothing /\ ViewOf(new) = Nothing BY <2>8 DEF Closed, AskedOf, ViewOf
    <3>2. ViewOf(k) # Nothing BY <2>4, <2>8, SomethingIsAsked DEF Shown, HasObject, Closed
    <3>3. Promise!Close(c) BY <2>2, <3>1, <3>2, PromisedActions
    <3>4. QED BY <3>3 DEF Promise!Next
  <2>9. QED BY <2>1, <2>5, <2>6, <2>7, <2>8
<1>9. CASE UNCHANGED call
  <2>1. QED BY <1>1, <1>2, <1>3, <1>9
<1>10. QED BY <1>7, <1>8, <1>9, Steps DEF TargetChanges, vars

\* MachOKit's mapping implements what a memory map promises: whatever entries the kernel makes, however
\* the target changes between measuring and mapping, and whatever the other threads do, a client is
\* refused, or sees the target's bytes at the addresses it asked for, and all of them when it must.
THEOREM Mediates == Spec => MediatesAccess
<1>1. Init => Promise!Init
  <2> SUFFICES ASSUME Init PROVE Promise!Init OBVIOUS
  <2>1. \A d \in Clients : call[d].pc = "idle" BY MapAssumption DEF Init, Returned
  <2>2. \A d \in Clients : Asked(d) = Nothing /\ View(d) = Nothing
    BY <2>1 DEF Asked, View, HasObject
  <2>3. QED BY <2>2 DEF Promise!Init
<1>2. Spec => []ShownInv
  BY ObjectsShow, AlwaysTyped, AlwaysWindow, AlwaysEnough, PTL
<1>3. QED
  BY <1>1, <1>2, StepKeepsPromise, AlwaysTyped, AlwaysEnough, PTL
  DEF Spec, MediatesAccess, Promise!Spec
=============================================================================
