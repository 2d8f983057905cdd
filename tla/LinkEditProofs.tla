--------------------------- MODULE LinkEditProofs ---------------------------
(***************************************************************************)
(* What holds of segments, sections and the tables of the link-edit        *)
(* segment whatever the file says, however large its numbers are, and on a *)
(* host of either byte order.                                              *)
(***************************************************************************)
EXTENDS LinkEdit, MachOImageProofs

----------------------------------------------------------------------------
(* Objects of this process's memory.                                       *)

\* An object that is backed by its mapping: the pages from that of its address on, as many as
\* its length reaches over, are there.
Backed(object) ==
  /\ object.target_address \in Nat /\ object.address = object.target_address
  /\ object.length \in Nat
  /\ \E first \in Nat, count \in Nat \ {0} :
       /\ first * PageSize <= object.address /\ object.address < (first + 1) * PageSize
       /\ object.address + object.length = (first + count) * PageSize
       /\ \A page \in first .. first + count - 1 : page \in Pages

\* The walk over the pages stops at the first that is not there.
LEMMA PagesFound ==
  ASSUME NEW pages, NEW page \in Nat, NEW most \in Nat
  PROVE  LET n == PagesFrom(pages, page, most)
         IN  /\ n \in 0 .. most /\ \A k \in 0 .. n - 1 : page + k \in pages
             /\ n = most \/ page + n \notin pages
<1> DEFINE S == {n \in 0 .. most : n = most \/ page + n \notin pages}
<1>1. PICK n \in S : \A m \in S : n <= m
  <2>1. S \in SUBSET Nat /\ most \in S OBVIOUS
  <2>2. QED BY <2>1, LeastNatural
<1>2. n \in 0 .. most /\ (n = most \/ page + n \notin pages) BY <1>1
<1>3. ASSUME NEW k \in 0 .. n - 1 PROVE page + k \in pages
  <2>1. k \in 0 .. most /\ k # most /\ ~ (n <= k) BY <1>2
  <2>2. k \notin S BY <1>1, <2>1
  <2>3. QED BY <2>1, <2>2
<1>4. \E m \in 0 .. most : /\ \A k \in 0 .. m - 1 : page + k \in pages
                           /\ m = most \/ page + m \notin pages
  BY <1>2, <1>3
<1>5. QED BY <1>4, Zenon DEF PagesFrom

\* An address is in one page.
LEMMA Truncated ==
  ASSUME NEW address \in Nat
  PROVE  LET base == mach_vm_trunc_page(address)
         IN  /\ base \in Nat /\ base <= address /\ address - base \in 0 .. PageSize - 1
             /\ base \div PageSize \in Nat /\ (base \div PageSize) * PageSize = base
<1> DEFINE q == address \div PageSize
           r == address % PageSize
           base == mach_vm_trunc_page(address)
<1>0. PageSize \in Nat \ {0} BY PageAssumption
<1>1. q \in Nat /\ r \in 0 .. PageSize - 1 /\ address = PageSize * q + r BY <1>0
<1> HIDE DEF q
<1>2. base = address - r BY DEF mach_vm_trunc_page
<1> HIDE DEF r, base
<1>3. PageSize * q \in Nat BY <1>0, <1>1
<1>4. base = PageSize * q + 0 BY <1>1, <1>2, <1>3
<1>5. base \div PageSize = q
  <2>1. 0 \in 0 .. PageSize - 1 BY <1>0
  <2>2. (PageSize * q + 0) \div PageSize = q BY <1>0, <1>1, <2>1, Division
  <2>3. QED BY <1>4, <2>2
<1>6. q * PageSize = PageSize * q BY <1>0, <1>1
<1>7. QED BY <1>0, <1>1, <1>2, <1>3, <1>4, <1>5, <1>6 DEF base

\* Pages are in the order of their addresses.
LEMMA PageOrder ==
  ASSUME NEW a \in Nat, NEW b \in Nat, a * PageSize < b * PageSize
  PROVE  a < b
<1>1. PageSize \in Nat BY PageAssumption
<1>2. \A x, y, z \in Nat : y <= x => y * z <= x * z
  <2>1. SUFFICES ASSUME NEW x \in Nat, NEW y \in Nat, NEW z \in Nat, y <= x PROVE y * z <= x * z OBVIOUS
  <2>2. x - y \in Nat /\ (x - y) * z = x * z - y * z BY <2>1
  <2>3. (x - y) * z \in Nat BY <2>2
  <2>4. QED BY <2>2, <2>3
<1>3. a * PageSize \in Nat /\ b * PageSize \in Nat BY <1>1
<1>4. QED BY <1>1, <1>2, <1>3

\* The pages of the file are numbers, and finitely many.
LEMMA PagesFinite ==
  ASSUME file \in Files
  PROVE  IsFiniteSet(Pages) /\ Cardinality(Pages) \in Nat
<1>1. Len(Contents[file]) \in Nat /\ LoadAddress \in Nat BY ImageAssumption, WordAssumption DEF Word
<1>2. PageSize \in Nat \ {0} BY PageAssumption
<1> DEFINE a == LoadAddress \div PageSize
           b == (LoadAddress + Len(Contents[file]) - 1) \div PageSize
<1>3. a \in Int /\ b \in Int BY <1>1, <1>2
<1>4. Pages = a .. b BY DEF Pages
<1> HIDE DEF a, b
<1>5. QED BY <1>3, <1>4, FS_Interval, FS_CardinalityType

\* The numbers the map computes for a request.
At(address) == mach_vm_trunc_page(address)
Rounded(address, length) == mach_vm_round_page(Wrap(length + (address - At(address))))
TooLong(address, length) ==
  Rounded(address, length) < length \/ MaxWord - Rounded(address, length) < At(address)
TotalOf(address, length) ==
  IF Rounded(address, length) < length THEN MaxWord
  ELSE IF TooLong(address, length) THEN MaxWord - At(address) ELSE Rounded(address, length)
Wanted(address, length) == TotalOf(address, length) \div PageSize
Most(address, length) ==
  IF Wanted(address, length) > Cardinality(Pages) THEN Cardinality(Pages) + 1
  ELSE Wanted(address, length)
Found(address, length) == PagesFrom(Pages, At(address) \div PageSize, Most(address, length))

LEMMA ObjectIs ==
  ASSUME NEW address \in Word, NEW length, NEW full \in BOOLEAN
  PROVE  mk_memory_map_init_object(0, address, length, full) =
           IF TooLong(address, length) /\ full THEN Fails("EOVERFLOW")
           ELSE IF TotalOf(address, length) % PageSize # 0 THEN Trapped
           ELSE IF Found(address, length) = 0 \/ (full /\ Found(address, length) < Wanted(address, length))
           THEN Fails("EBAD_ACCESS")
           ELSE Ok([target_address |-> address, address |-> address,
                    length |-> Found(address, length) * PageSize - (address - At(address))])
<1>1. address + 0 = address /\ ~ (MaxWord - 0 < address) BY WordAssumption DEF Word
<1>2. QED
  BY <1>1 DEF mk_memory_map_init_object, __mk_memory_map_self_init_object, Found, Most, Wanted, TotalOf,
              TooLong, Rounded, At

LEMMA RequestTypes ==
  ASSUME file \in Files, NEW address \in Word, NEW length \in Nat
  PROVE  /\ At(address) \in Nat /\ At(address) \div PageSize \in Nat
         /\ Rounded(address, length) \in Nat /\ TotalOf(address, length) \in Nat
         /\ Wanted(address, length) \in Nat /\ Most(address, length) \in Nat
         /\ TotalOf(address, length) % PageSize = 0 =>
              Wanted(address, length) * PageSize = TotalOf(address, length)
<1>0. PageSize \in Nat \ {0} /\ MaxWord \in Nat /\ address \in Nat /\ address <= MaxWord
  BY PageAssumption, WordAssumption DEF Word
<1>1. At(address) \in Nat /\ At(address) <= address /\ At(address) \div PageSize \in Nat
  BY <1>0, Truncated DEF At
<1>2. Rounded(address, length) \in Nat
  <2>1. Wrap(length + (address - At(address))) \in Nat BY <1>0, <1>1 DEF Wrap
  <2>2. Wrap(Wrap(length + (address - At(address))) + PageSize - 1) \in Nat BY <1>0, <2>1 DEF Wrap
  <2>3. QED BY <2>2, Truncated DEF Rounded, mach_vm_round_page
<1>3. TotalOf(address, length) \in Nat
  BY <1>0, <1>1, <1>2 DEF TotalOf
<1> DEFINE total == TotalOf(address, length)
           q == total \div PageSize
<1> HIDE DEF total
<1>4. q \in Nat /\ total = PageSize * q + (total % PageSize)
  <2>1. total \in Nat BY <1>3 DEF total
  <2>2. QED BY <1>0, <2>1
<1>5. Wanted(address, length) = q BY DEF Wanted, q, total
<1> HIDE DEF q
<1>6. total % PageSize = 0 => q * PageSize = total
  <2>1. q * PageSize = PageSize * q /\ PageSize * q \in Nat BY <1>0, <1>4
  <2>2. QED BY <1>4, <2>1
<1>7. Most(address, length) \in Nat BY <1>4, <1>5, PagesFinite DEF Most
<1>8. QED BY <1>1, <1>2, <1>3, <1>4, <1>5, <1>6, <1>7 DEF total

\* What the map gives out is backed, from the address that was asked for on.
LEMMA ObjectIsBacked ==
  ASSUME file \in Files, NEW address \in Word, NEW length \in Nat, NEW full \in BOOLEAN,
         NEW made, made = mk_memory_map_init_object(0, address, length, full), Succeeded(made)
  PROVE  Backed(made.value) /\ made.value.target_address = address
<1> DEFINE n == Found(address, length)
           first == At(address) \div PageSize
<1>1. made = Ok([target_address |-> address, address |-> address,
                 length |-> n * PageSize - (address - At(address))]) /\ n # 0
  BY ObjectIs DEF Succeeded, Fails, Ok, Trapped
<1>2. first \in Nat /\ Most(address, length) \in Nat BY RequestTypes
<1>3. n \in Nat /\ \A k \in 0 .. n - 1 : first + k \in Pages
  <2>1. n \in 0 .. Most(address, length) /\ \A k \in 0 .. n - 1 : first + k \in Pages
    BY <1>2, PagesFound, Zenon DEF Found
  <2>2. QED BY <1>2, <2>1
<1>4. /\ PageSize \in Nat \ {0} /\ address \in Nat BY PageAssumption, WordAssumption DEF Word
<1>5. /\ At(address) \in Nat /\ At(address) <= address /\ address - At(address) \in 0 .. PageSize - 1
      /\ first * PageSize = At(address)
  BY <1>4, Truncated DEF At
<1> HIDE DEF n, first
<1>6. /\ (first + 1) * PageSize = first * PageSize + PageSize
      /\ (first + n) * PageSize = first * PageSize + n * PageSize
      /\ n * PageSize \in Nat /\ n * PageSize >= PageSize
  <2>1. \A x, y, z \in Nat : (x + y) * z = x * z + y * z /\ (y # 0 => y * z >= z) /\ y * z \in Nat
        /\ 1 * z = z
    OBVIOUS
  <2>2. QED BY <1>1, <1>2, <1>3, <1>4, <2>1
<1>7. \A page \in first .. first + n - 1 : page \in Pages
  <2>1. SUFFICES ASSUME NEW page \in first .. first + n - 1 PROVE page \in Pages OBVIOUS
  <2>2. page - first \in 0 .. n - 1 /\ first + (page - first) = page BY <1>2, <1>3
  <2>3. first + (page - first) \in Pages BY <1>3, <2>2
  <2>4. QED BY <2>2, <2>3
<1> DEFINE length1 == n * PageSize - (address - At(address))
           object == [target_address |-> address, address |-> address, length |-> length1]
<1>8. length1 \in Nat /\ address + length1 = (first + n) * PageSize
  BY <1>4, <1>5, <1>6
<1>9. made.value = object BY <1>1 DEF Ok
<1> HIDE DEF length1
<1>10. made.value.target_address = address /\ made.value.address = address /\ made.value.length = length1
  BY <1>9
<1>11. first * PageSize <= address /\ address < (first + 1) * PageSize BY <1>4, <1>5, <1>6
<1>12. n \in Nat \ {0} BY <1>1, <1>3
<1>13. QED BY <1>2, <1>4, <1>7, <1>8, <1>10, <1>11, <1>12 DEF Backed

\* There is more than one page.
LEMMA TwoPages ==
  ASSUME file \in Files
  PROVE  PageSize \in Nat \ {0} /\ MaxWord \in Nat /\ 2 * PageSize <= MaxWord + 1
<1>1. PageSize \in Nat \ {0} /\ MaxWord \in Nat /\ (MaxWord + 1) % PageSize = 0
  BY PageAssumption, WordAssumption
<1>2. PageSize <= MaxWord
  BY <1>1, SegmentAssumption, ImageAssumption, WordAssumption DEF Word
<1> DEFINE m == MaxWord + 1
           q == m \div PageSize
<1>3. m \in Nat /\ m > PageSize BY <1>1, <1>2
<1>4. m % PageSize = 0 BY <1>1
<1> HIDE DEF m
<1>5. q \in Nat /\ m = PageSize * q BY <1>1, <1>3, <1>4
<1> HIDE DEF q
<1>6. q # 0 /\ q # 1 BY <1>1, <1>3, <1>5
<1>7. \A x, y \in Nat : y >= 2 => x * y >= 2 * x
  <2>1. SUFFICES ASSUME NEW x \in Nat, NEW y \in Nat, y >= 2 PROVE x * y >= 2 * x OBVIOUS
  <2>2. y - 2 \in Nat /\ x * (y - 2) = x * y - 2 * x BY <2>1
  <2>3. x * (y - 2) \in Nat BY <2>2
  <2>4. QED BY <2>2, <2>3
<1>8. q >= 2 /\ PageSize \in Nat BY <1>1, <1>5, <1>6
<1>9. PageSize * q >= 2 * PageSize BY <1>5, <1>7, <1>8
<1>10. QED BY <1>1, <1>5, <1>9 DEF m

\* The rounded length is a number of pages, and as long as the range from its place in the first
\* page on when the map does not notice that it is too long.
LEMMA RoundedCovers ==
  ASSUME file \in Files, NEW address \in Word, NEW length \in Word, ~ TooLong(address, length)
  PROVE  /\ TotalOf(address, length) = Rounded(address, length)
         /\ Rounded(address, length) \in Nat /\ Rounded(address, length) % PageSize = 0
         /\ Rounded(address, length) >= length + (address - At(address))
<1> DEFINE base == At(address)
           need == length + (address - base)
           rounded == Rounded(address, length)
           u == Wrap(need)
           v == u + PageSize - 1
           w == Wrap(v)
<1>0. /\ PageSize \in Nat \ {0} /\ MaxWord \in Nat /\ 2 * PageSize <= MaxWord + 1
      /\ address \in Nat /\ length \in Nat /\ length <= MaxWord
  BY TwoPages, WordAssumption DEF Word
<1>1. base \in Nat /\ address - base \in 0 .. PageSize - 1 BY <1>0, Truncated DEF At
<1>2. rounded = mach_vm_trunc_page(w) BY DEF Rounded, mach_vm_round_page
<1>3. ~ (rounded < length) /\ TotalOf(address, length) = rounded BY DEF TooLong, TotalOf
<1> HIDE DEF base, rounded
<1>4. need \in Nat /\ need >= length /\ need <= length + PageSize - 1 BY <1>0, <1>1
<1> HIDE DEF need
<1>5. u \in Nat /\ u <= MaxWord BY <1>0, <1>4, WrapBelow DEF Word
<1>6. \A n \in Nat : n > MaxWord /\ n <= 2 * MaxWord + 1 => Wrap(n) = n - (MaxWord + 1)
  <2>1. SUFFICES ASSUME NEW n \in Nat, n > MaxWord, n <= 2 * MaxWord + 1 PROVE Wrap(n) = n - (MaxWord + 1)
    OBVIOUS
  <2> DEFINE d == MaxWord + 1
             r == n - d
  <2>2. d \in Nat \ {0} /\ r \in 0 .. d - 1 /\ n = d * 1 + r BY <1>0, <2>1
  <2> HIDE DEF d, r
  <2>3. (d * 1 + r) % d = r BY <2>2, Division
  <2>4. n % d = r BY <2>2, <2>3
  <2>5. QED BY <2>4 DEF Wrap, d, r
<1> HIDE DEF u
<1>7. v \in Nat /\ v <= 2 * MaxWord + 1 /\ v >= u BY <1>0, <1>5
<1>8. w \in Nat /\ (v <= MaxWord => w = v) /\ (v > MaxWord => w = v - (MaxWord + 1))
  <2> HIDE DEF v
  <2>1. w \in Nat /\ (v <= MaxWord => w = v) BY <1>0, <1>7, WrapBelow DEF Word
  <2>2. QED BY <1>6, <1>7, <2>1
<1> HIDE DEF w
<1>9. rounded \in Nat /\ rounded <= w /\ w - rounded \in 0 .. PageSize - 1
      /\ (rounded \div PageSize) * PageSize = rounded /\ rounded \div PageSize \in Nat
  BY <1>2, <1>8, Truncated
<1>10. rounded % PageSize = 0
  <2> DEFINE q == rounded \div PageSize
  <2>1. q \in Nat /\ PageSize * q + 0 = rounded /\ 0 \in 0 .. PageSize - 1 BY <1>0, <1>9
  <2> HIDE DEF q
  <2>2. (PageSize * q + 0) % PageSize = 0 BY <1>0, <2>1, Division
  <2>3. QED BY <2>1, <2>2
<1>11. rounded >= need
  <2>1. CASE need > MaxWord
    <3>1. u = need - (MaxWord + 1) BY <1>0, <1>4, <1>6, <2>1 DEF u
    <3>2. u < PageSize - 1 BY <1>0, <1>4, <3>1
    <3>3. v < 2 * PageSize - 2 /\ v <= MaxWord BY <1>0, <1>5, <3>2
    <3>4. w = v BY <1>8, <3>3
    <3>5. length > MaxWord + 1 - PageSize BY <1>0, <1>4, <2>1
    <3>6. rounded < 2 * PageSize BY <1>0, <1>7, <1>8, <1>9, <3>3, <3>4
    <3>7. rounded <= PageSize
      <4> DEFINE q == rounded \div PageSize
      <4>1. q \in Nat /\ q * PageSize = rounded BY <1>9
      <4> HIDE DEF q
      <4>2. 2 \in Nat /\ q * PageSize < 2 * PageSize BY <3>6, <4>1
      <4>3. q < 2 BY <4>1, <4>2, PageOrder
      <4>4. q = 0 \/ q = 1 BY <4>1, <4>3
      <4>5. QED BY <1>0, <4>1, <4>4
    <3>8. QED BY <1>0, <1>3, <1>9, <3>5, <3>7
  <2>2. CASE need <= MaxWord /\ v > MaxWord
    <3>1. u = need BY <1>4, <2>2, WrapBelow DEF u
    <3>2. w = v - (MaxWord + 1) /\ w < PageSize - 1 BY <1>0, <1>5, <1>8, <2>2
    <3>3. rounded = 0
      <4>1. w \in 0 .. PageSize - 1 BY <1>0, <1>8, <3>2
      <4>2. w % PageSize = w BY <1>0, <4>1
      <4>3. QED BY <1>2, <4>1, <4>2 DEF mach_vm_trunc_page
    <3>4. length = 0 /\ need <= PageSize - 1 BY <1>0, <1>3, <1>4, <3>3
    <3>5. QED BY <1>0, <1>4, <2>2, <3>1, <3>4
  <2>3. CASE need <= MaxWord /\ v <= MaxWord
    <3>1. u = need BY <1>4, <2>3, WrapBelow DEF u
    <3>2. w = v BY <1>8, <2>3
    <3>3. QED BY <1>0, <1>4, <1>5, <1>8, <1>9, <3>1, <3>2
  <2>4. QED BY <1>0, <1>4, <1>7, <2>1, <2>2, <2>3
<1>12. QED BY <1>3, <1>9, <1>10, <1>11 DEF rounded, need, base

\* A range that ends before the last page is not too long.
LEMMA TotalCovers ==
  ASSUME file \in Files, NEW location \in Word, NEW length \in Nat \ {0},
         location + length + PageSize <= MaxWord + 1
  PROVE  /\ TotalOf(location, length) % PageSize = 0
         /\ TotalOf(location, length) >= length + (location - At(location))
<1> DEFINE base == At(location)
           need == length + (location - base)
           v == need + PageSize - 1
           rounded == Rounded(location, length)
<1>0. PageSize \in Nat \ {0} /\ MaxWord \in Nat /\ location \in Nat
  BY PageAssumption, WordAssumption DEF Word
<1>1. base \in Nat /\ base <= location BY <1>0, Truncated DEF At
<1> HIDE DEF base
<1>2. /\ need \in Nat /\ need <= MaxWord /\ need >= length
      /\ v \in Nat /\ v <= MaxWord - base /\ v <= MaxWord
  BY <1>0, <1>1
<1> HIDE DEF need
<1>3. rounded = mach_vm_trunc_page(v)
  <2>1. Wrap(need) = need BY <1>2, WrapBelow
  <2>2. Wrap(v) = v
    <3> HIDE DEF v
    <3>1. QED BY <1>2, WrapBelow
  <2>3. rounded = mach_vm_round_page(Wrap(need)) BY DEF Rounded, need, base
  <2>4. QED BY <2>1, <2>2, <2>3 DEF mach_vm_round_page
<1>4. rounded \in Nat /\ v - rounded \in 0 .. PageSize - 1 BY <1>2, <1>3, Truncated
<1> HIDE DEF rounded
<1>5. ~ (rounded < length) /\ ~ (MaxWord - rounded < base) BY <1>0, <1>1, <1>2, <1>4
<1>6. ~ TooLong(location, length) BY <1>5 DEF TooLong, rounded, base
<1>7. length \in Word BY <1>0, <1>2 DEF Word
<1>8. QED BY <1>6, <1>7, RoundedCovers

\* What ends before the last address, after a number of pages, ends before the last page.
LEMMA EndsBefore ==
  ASSUME NEW n \in Nat, n * PageSize <= MaxWord
  PROVE  n * PageSize + PageSize <= MaxWord + 1
<1>0. PageSize \in Nat \ {0} /\ MaxWord \in Nat /\ (MaxWord + 1) % PageSize = 0
  BY PageAssumption, WordAssumption
<1> DEFINE m == MaxWord + 1
           q == m \div PageSize
<1>1. m \in Nat BY <1>0
<1>2. m % PageSize = 0 BY <1>0
<1> HIDE DEF m
<1>3. q \in Nat /\ m = PageSize * q BY <1>0, <1>1, <1>2
<1> HIDE DEF q
<1>4. q * PageSize = m /\ n * PageSize \in Nat BY <1>0, <1>3
<1>5. n * PageSize < q * PageSize BY <1>0, <1>4 DEF m
<1>6. n < q BY <1>3, <1>5, PageOrder
<1>7. \A x, y, z \in Nat : x < y => x * z + z <= y * z
  <2>1. SUFFICES ASSUME NEW x \in Nat, NEW y \in Nat, NEW z \in Nat, x < y PROVE x * z + z <= y * z OBVIOUS
  <2>2. y - x - 1 \in Nat BY <2>1
  <2>3. (y - x - 1) * z \in Nat /\ (y - x - 1) * z = y * z - x * z - z BY <2>2
  <2>4. QED BY <2>3
<1>8. n * PageSize + PageSize <= q * PageSize BY <1>0, <1>3, <1>6, <1>7
<1>9. QED BY <1>4, <1>8 DEF m

\* A part of what is backed can be mapped by itself, at its address and with its length.
LEMMA RangeIsMapped ==
  ASSUME file \in Files, NEW outer, Backed(outer), outer.target_address + outer.length <= MaxWord,
         NEW location \in Word, NEW length \in Nat \ {0},
         location >= outer.target_address,
         location + length <= outer.target_address + outer.length
  PROVE  LET made == mk_memory_map_init_object(0, location, length, FALSE)
         IN  /\ Succeeded(made) /\ made.value.target_address = location
             /\ made.value.length >= length
<1> DEFINE n == Found(location, length)
           base == At(location)
           page == base \div PageSize
           need == length + (location - base)
           most == Most(location, length)
<1>0. PageSize \in Nat \ {0} /\ MaxWord \in Nat /\ location \in Nat
  BY PageAssumption, WordAssumption DEF Word
<1>1. /\ base \in Nat /\ base <= location /\ location - base \in 0 .. PageSize - 1
      /\ page \in Nat /\ page * PageSize = base
  BY <1>0, Truncated DEF At
<1>2. /\ most \in Nat /\ Wanted(location, length) \in Nat
      /\ TotalOf(location, length) % PageSize = 0 =>
           Wanted(location, length) * PageSize = TotalOf(location, length)
      /\ TotalOf(location, length) \in Nat
  BY RequestTypes
<1>3. n \in 0 .. most /\ (\A k \in 0 .. n - 1 : page + k \in Pages)
      /\ (n = most \/ page + n \notin Pages)
  <2>1. n = PagesFrom(Pages, page, most) BY DEF Found
  <2>2. page \in Nat /\ most \in Nat BY <1>1, <1>2
  <2> HIDE DEF n, page, most
  <2>3. QED BY <2>1, <2>2, PagesFound, Zenon
<1>5. PICK first \in Nat, count \in Nat \ {0} :
        /\ first * PageSize <= outer.address /\ outer.address < (first + 1) * PageSize
        /\ outer.address + outer.length = (first + count) * PageSize
        /\ \A i \in first .. first + count - 1 : i \in Pages
  BY DEF Backed
<1>6. outer.target_address \in Nat /\ outer.address = outer.target_address /\ outer.length \in Nat
  BY DEF Backed
<1>4. TotalOf(location, length) % PageSize = 0 /\ TotalOf(location, length) >= need
  <2> DEFINE end == (first + count) * PageSize
  <2>1. first + count \in Nat /\ end <= MaxWord BY <1>5, <1>6
  <2>2. end + PageSize <= MaxWord + 1 BY <2>1, EndsBefore
  <2>3. end \in Nat /\ location + length <= end BY <1>0, <1>5, <1>6, <2>1
  <2> HIDE DEF end
  <2>4. location + length + PageSize <= MaxWord + 1 BY <1>0, <2>2, <2>3
  <2>5. QED BY <2>4, TotalCovers
<1>7. Most(location, length) = IF Wanted(location, length) > Cardinality(Pages)
                               THEN Cardinality(Pages) + 1 ELSE Wanted(location, length)
  BY DEF Most
<1> HIDE DEF n, most, page, base
<1>8. \A x, y, z \in Nat : (x + y) * z = x * z + y * z /\ y * z \in Nat /\ 1 * z = z OBVIOUS
<1>9. n * PageSize >= need
  <2>1. SUFFICES ASSUME n * PageSize < need PROVE FALSE
    <3>1. n * PageSize \in Nat /\ need \in Nat BY <1>0, <1>1, <1>2, <1>3, <1>8
    <3>2. QED BY <3>1
  <2>2. page + n \in Nat /\ n \in Nat BY <1>1, <1>2, <1>3
  <2>3. first <= page
    <3>1. (page + 1) * PageSize = page * PageSize + PageSize BY <1>0, <1>1, <1>8
    <3>2. first * PageSize \in Nat BY <1>0, <1>8
    <3>3. first * PageSize < (page + 1) * PageSize BY <1>0, <1>1, <1>5, <1>6, <3>1, <3>2
    <3>4. page + 1 \in Nat BY <1>1
    <3>5. first < page + 1 BY <3>3, <3>4, PageOrder
    <3>6. QED BY <1>1, <3>5
  <2>4. page + n < first + count
    <3>1. (page + n) * PageSize = base + n * PageSize /\ n * PageSize \in Nat
      BY <1>0, <1>1, <1>8, <2>2
    <3>2. (page + n) * PageSize < (first + count) * PageSize
      BY <1>0, <1>1, <1>5, <1>6, <2>1, <3>1
    <3>3. first + count \in Nat OBVIOUS
    <3>4. QED BY <2>2, <3>2, <3>3, PageOrder
  <2>5. page + n \in Pages
    <3>1. page + n \in first .. first + count - 1 BY <1>1, <1>5, <2>2, <2>3, <2>4
    <3>2. QED BY <1>5, <3>1
  <2>6. n = most BY <1>3, <2>5
  <2>7. CASE most = Wanted(location, length)
    <3>1. n * PageSize = TotalOf(location, length)
      <4>1. n = Wanted(location, length) BY <2>6, <2>7
      <4>2. Wanted(location, length) * PageSize = TotalOf(location, length) BY <1>2, <1>4
      <4>3. QED BY <4>1, <4>2, Zenon
    <3>2. n * PageSize \in Nat /\ need \in Nat BY <1>0, <1>1, <1>8, <2>2
    <3>3. QED BY <1>2, <1>4, <2>1, <3>1, <3>2
  <2>8. CASE most = Cardinality(Pages) + 1
    <3> DEFINE row == page .. page + n
    <3>1. row \subseteq Pages
      <4>1. SUFFICES ASSUME NEW i \in row PROVE i \in Pages OBVIOUS
      <4>2. CASE i = page + n BY <2>5, <4>2
      <4>3. CASE i # page + n
        <5>1. i - page \in 0 .. n - 1 /\ page + (i - page) = i BY <1>1, <2>2, <4>1, <4>3
        <5>2. page + (i - page) \in Pages BY <1>3, <5>1
        <5>3. QED BY <5>1, <5>2
      <4>4. QED BY <4>2, <4>3
    <3>2. Cardinality(row) = n + 1
      <4>1. \A a, b \in Int : Cardinality(a .. b) = IF a > b THEN 0 ELSE b - a + 1
        BY FS_Interval
      <4> DEFINE b == page + n
      <4>2. page \in Int /\ b \in Int /\ ~ (page > b) /\ b - page + 1 = n + 1 BY <1>1, <2>2
      <4> HIDE DEF b
      <4>3. Cardinality(page .. b) = IF page > b THEN 0 ELSE b - page + 1 BY <4>1, <4>2, Zenon
      <4>4. Cardinality(page .. b) = n + 1 BY <4>2, <4>3
      <4>5. QED BY <4>4 DEF b
    <3> HIDE DEF row
    <3>3. Cardinality(row) <= Cardinality(Pages) /\ Cardinality(Pages) \in Nat
      BY <3>1, PagesFinite, FS_Subset
    <3>4. QED BY <2>2, <2>6, <2>8, <3>2, <3>3
  <2>9. QED BY <1>7, <2>7, <2>8 DEF most
<1>10. n # 0 /\ n \in Nat BY <1>0, <1>1, <1>2, <1>3, <1>9
<1>11. mk_memory_map_init_object(0, location, length, FALSE) =
         Ok([target_address |-> location, address |-> location, length |-> n * PageSize - (location - base)])
  BY <1>4, <1>10, ObjectIs DEF n, base
<1>12. n * PageSize - (location - base) >= length
  <2>1. n * PageSize \in Nat BY <1>0, <1>8, <1>10
  <2>2. QED BY <1>0, <1>1, <1>9, <2>1
<1> DEFINE size == n * PageSize - (location - base)
           made == mk_memory_map_init_object(0, location, length, FALSE)
<1>13. made = Ok([target_address |-> location, address |-> location, length |-> size]) BY <1>11
<1> HIDE DEF size, made
<1>14. Succeeded(made) /\ made.value.target_address = location /\ made.value.length = size
  BY <1>13 DEF Succeeded, Ok
<1>15. QED BY <1>12, <1>14 DEF size, made
----------------------------------------------------------------------------
(* Classes and the fields they read.                                       *)

\* A class keeps the name it is made with, and no two have the same.
LEMMA ClassNames ==
  /\ mk_load_command_segment.name = "SEGMENT"
  /\ mk_load_command_symtab.name = "SYMTAB"
  /\ mk_load_command_dysymtab.name = "DYSYMTAB"
  /\ mk_load_command_load_dylib.name = "LOAD_DYLIB"
  /\ mk_load_command_id_dylib.name = "ID_DYLIB"
  /\ mk_load_command_load_dylinker.name = "LOAD_DYLINKER"
  /\ mk_load_command_id_dylinker.name = "ID_DYLINKER"
  /\ mk_load_command_routines.name = "ROUTINES"
  /\ mk_load_command_sub_framework.name = "SUB_FRAMEWORK"
  /\ mk_load_command_sub_client.name = "SUB_CLIENT"
  /\ mk_load_command_sub_library.name = "SUB_LIBRARY"
  /\ mk_load_command_twolevel_hints.name = "TWOLEVEL_HINTS"
  /\ mk_load_command_prebind_cksum.name = "PREBIND_CKSUM"
  /\ mk_load_command_load_weak_dylib.name = "LOAD_WEAK_DYLIB"
  /\ mk_load_command_segment_64.name = "SEGMENT_64"
  /\ mk_load_command_routines_64.name = "ROUTINES_64"
  /\ mk_load_command_uuid.name = "UUID"
  /\ mk_load_command_rpath.name = "RPATH"
  /\ mk_load_command_code_signature.name = "CODE_SIGNATURE"
  /\ mk_load_command_segment_split_info.name = "SEGMENT_SPLIT_INFO"
  /\ mk_load_command_reexport_dylib.name = "REEXPORT_DYLIB"
  /\ mk_load_command_lazy_load_dylib.name = "LAZY_LOAD_DYLIB"
  /\ mk_load_command_encryption_info.name = "ENCRYPTION_INFO"
  /\ mk_load_command_dyld_info.name = "DYLD_INFO"
  /\ mk_load_command_dyld_info_only.name = "DYLD_INFO_ONLY"
  /\ mk_load_command_load_upward_dylib.name = "LOAD_UPWARD_DYLIB"
  /\ mk_load_command_version_min_macosx.name = "VERSION_MIN_MACOSX"
  /\ mk_load_command_version_min_iphoneos.name = "VERSION_MIN_IPHONEOS"
  /\ mk_load_command_function_starts.name = "FUNCTION_STARTS"
  /\ mk_load_command_dyld_environment.name = "DYLD_ENVIRONMENT"
  /\ mk_load_command_main.name = "MAIN"
  /\ mk_load_command_data_in_code.name = "DATA_IN_CODE"
  /\ mk_load_command_source_version.name = "SOURCE_VERSION"
  /\ mk_load_command_code_sign_drs.name = "DYLIB_CODE_SIGN_DRS"
  /\ mk_load_command_encryption_info_64.name = "ENCRYPTION_INFO_64"
  /\ mk_load_command_linker_option.name = "LINKER_OPTION"
  /\ mk_load_command_version_min_tvos.name = "VERSION_MIN_TVOS"
  /\ mk_load_command_version_min_watchos.name = "VERSION_MIN_WATCHOS"
  /\ mk_load_command_note.name = "NOTE"
  /\ mk_load_command_build_version.name = "BUILD_VERSION"
  /\ mk_load_command_dyld_exports_trie.name = "DYLD_EXPORTS_TRIE"
  /\ mk_load_command_dyld_chained_fixups.name = "DYLD_CHAINED_FIXUPS"
<1>1. \A name, layout, swaps, reads : /\ Class(name, layout, swaps, reads).name = name
                                      /\ "name" \in DOMAIN Class(name, layout, swaps, reads)
  BY DEF Class
<1>2. \A name : /\ LinkeditClass(name).name = name /\ DyldInfoClass(name).name = name
                /\ DylibClass(name).name = name
                /\ DylinkerClass(name).name = name /\ "name" \in DOMAIN DylinkerClass(name)
                /\ VersionMinClass(name).name = name
                /\ \A layout, field : StringClass(name, layout, field).name = name
  BY <1>1 DEF LinkeditClass, DyldInfoClass, DylibClass, DylinkerClass, VersionMinClass, StringClass
<1>3. /\ mk_load_command_segment.name = "SEGMENT"
      /\ mk_load_command_symtab.name = "SYMTAB"
      /\ mk_load_command_dysymtab.name = "DYSYMTAB"
      /\ mk_load_command_load_dylib.name = "LOAD_DYLIB"
      /\ mk_load_command_id_dylib.name = "ID_DYLIB"
      /\ mk_load_command_load_dylinker.name = "LOAD_DYLINKER"
      /\ mk_load_command_id_dylinker.name = "ID_DYLINKER"
  BY <1>1, <1>2 DEF mk_load_command_segment,
    mk_load_command_symtab,
    mk_load_command_dysymtab,
    mk_load_command_load_dylib,
    mk_load_command_id_dylib,
    mk_load_command_load_dylinker,
    mk_load_command_id_dylinker
<1>4. /\ mk_load_command_routines.name = "ROUTINES"
      /\ mk_load_command_sub_framework.name = "SUB_FRAMEWORK"
      /\ mk_load_command_sub_client.name = "SUB_CLIENT"
      /\ mk_load_command_sub_library.name = "SUB_LIBRARY"
      /\ mk_load_command_twolevel_hints.name = "TWOLEVEL_HINTS"
      /\ mk_load_command_prebind_cksum.name = "PREBIND_CKSUM"
      /\ mk_load_command_load_weak_dylib.name = "LOAD_WEAK_DYLIB"
  BY <1>1, <1>2 DEF mk_load_command_routines,
    mk_load_command_sub_framework,
    mk_load_command_sub_client,
    mk_load_command_sub_library,
    mk_load_command_twolevel_hints,
    mk_load_command_prebind_cksum,
    mk_load_command_load_weak_dylib
<1>5. /\ mk_load_command_segment_64.name = "SEGMENT_64"
      /\ mk_load_command_routines_64.name = "ROUTINES_64"
      /\ mk_load_command_uuid.name = "UUID"
      /\ mk_load_command_rpath.name = "RPATH"
      /\ mk_load_command_code_signature.name = "CODE_SIGNATURE"
      /\ mk_load_command_segment_split_info.name = "SEGMENT_SPLIT_INFO"
      /\ mk_load_command_reexport_dylib.name = "REEXPORT_DYLIB"
  BY <1>1, <1>2 DEF mk_load_command_segment_64,
    mk_load_command_routines_64,
    mk_load_command_uuid,
    mk_load_command_rpath,
    mk_load_command_code_signature,
    mk_load_command_segment_split_info,
    mk_load_command_reexport_dylib
<1>6. /\ mk_load_command_lazy_load_dylib.name = "LAZY_LOAD_DYLIB"
      /\ mk_load_command_encryption_info.name = "ENCRYPTION_INFO"
      /\ mk_load_command_dyld_info.name = "DYLD_INFO"
      /\ mk_load_command_dyld_info_only.name = "DYLD_INFO_ONLY"
      /\ mk_load_command_load_upward_dylib.name = "LOAD_UPWARD_DYLIB"
      /\ mk_load_command_version_min_macosx.name = "VERSION_MIN_MACOSX"
      /\ mk_load_command_version_min_iphoneos.name = "VERSION_MIN_IPHONEOS"
  BY <1>1, <1>2 DEF mk_load_command_lazy_load_dylib,
    mk_load_command_encryption_info,
    mk_load_command_dyld_info,
    mk_load_command_dyld_info_only,
    mk_load_command_load_upward_dylib,
    mk_load_command_version_min_macosx,
    mk_load_command_version_min_iphoneos
<1>7. /\ mk_load_command_function_starts.name = "FUNCTION_STARTS"
      /\ mk_load_command_dyld_environment.name = "DYLD_ENVIRONMENT"
      /\ mk_load_command_main.name = "MAIN"
      /\ mk_load_command_data_in_code.name = "DATA_IN_CODE"
      /\ mk_load_command_source_version.name = "SOURCE_VERSION"
      /\ mk_load_command_code_sign_drs.name = "DYLIB_CODE_SIGN_DRS"
      /\ mk_load_command_encryption_info_64.name = "ENCRYPTION_INFO_64"
  BY <1>1, <1>2 DEF mk_load_command_function_starts,
    mk_load_command_dyld_environment,
    mk_load_command_main,
    mk_load_command_data_in_code,
    mk_load_command_source_version,
    mk_load_command_code_sign_drs,
    mk_load_command_encryption_info_64
<1>8. /\ mk_load_command_linker_option.name = "LINKER_OPTION"
      /\ mk_load_command_version_min_tvos.name = "VERSION_MIN_TVOS"
      /\ mk_load_command_version_min_watchos.name = "VERSION_MIN_WATCHOS"
      /\ mk_load_command_note.name = "NOTE"
      /\ mk_load_command_build_version.name = "BUILD_VERSION"
      /\ mk_load_command_dyld_exports_trie.name = "DYLD_EXPORTS_TRIE"
      /\ mk_load_command_dyld_chained_fixups.name = "DYLD_CHAINED_FIXUPS"
  BY <1>1, <1>2 DEF mk_load_command_linker_option,
    mk_load_command_version_min_tvos,
    mk_load_command_version_min_watchos,
    mk_load_command_note,
    mk_load_command_build_version,
    mk_load_command_dyld_exports_trie,
    mk_load_command_dyld_chained_fixups
<1>9. QED BY <1>3, <1>4, <1>5, <1>6, <1>7, <1>8

LEMMA ClassIs ==
  ASSUME NEW class \in _mk_load_command_classes
  PROVE  /\ class.name = "SEGMENT" => class = mk_load_command_segment
         /\ class.name = "SEGMENT_64" => class = mk_load_command_segment_64
         /\ class.name = "SYMTAB" => class = mk_load_command_symtab
         /\ class.name = "DYSYMTAB" => class = mk_load_command_dysymtab
         /\ class.name = "DYLD_EXPORTS_TRIE" => class = mk_load_command_dyld_exports_trie
         /\ class.name = "DYLD_INFO" => class = mk_load_command_dyld_info
         /\ class.name = "DYLD_INFO_ONLY" => class = mk_load_command_dyld_info_only
BY ClassNames DEF _mk_load_command_classes

\* A class reads a number with the width it has in the structure.
ReadsField(class, field, width) ==
  /\ field \in DOMAIN class.reads /\ class.reads[field] = width
  /\ HasField(class.layout, field) /\ Wide(class.layout, field, width)

\* A structure that is put together has the fields of its parts.
LEMMA PartsJoin ==
  ASSUME NEW S, NEW s \in Seq(S), NEW t \in Seq(S), NEW field, NEW width
  PROVE  /\ s \o t \in Seq(S)
         /\ Wide(s, field, width) /\ Wide(t, field, width) => Wide(s \o t, field, width)
         /\ HasField(s, field) \/ HasField(t, field) => HasField(s \o t, field)
<1> DEFINE u == s \o t
           m == Len(s)
           n == Len(t)
<1>1. /\ u \in Seq(S) /\ m \in Nat /\ n \in Nat /\ Len(u) = m + n
      /\ DOMAIN s = 1 .. m /\ DOMAIN t = 1 .. n /\ DOMAIN u = 1 .. m + n
  OBVIOUS
<1>2. \A i \in 1 .. m + n : u[i] = IF i <= m THEN s[i] ELSE t[i - m] BY ConcatProperties
<1> HIDE DEF u, m, n
<1>3. ASSUME Wide(s, field, width), Wide(t, field, width) PROVE Wide(u, field, width)
  <2>1. SUFFICES ASSUME NEW i \in DOMAIN u, u[i][1] = field PROVE u[i][2] = width
    BY DEF Wide
  <2>2. CASE i <= m
    <3>1. u[i] = s[i] /\ i \in DOMAIN s BY <1>1, <1>2, <2>1, <2>2
    <3>2. QED BY <1>3, <2>1, <3>1 DEF Wide
  <2>3. CASE i > m
    <3>1. u[i] = t[i - m] /\ i - m \in DOMAIN t BY <1>1, <1>2, <2>1, <2>3
    <3>2. QED BY <1>3, <2>1, <3>1 DEF Wide
  <2>4. QED BY <1>1, <2>1, <2>2, <2>3
<1>4. ASSUME HasField(s, field) PROVE HasField(u, field)
  <2>1. PICK i \in DOMAIN s : s[i][1] = field BY <1>4 DEF HasField
  <2>2. u[i] = s[i] /\ i \in DOMAIN u BY <1>1, <1>2, <2>1
  <2>3. QED BY <2>1, <2>2 DEF HasField
<1>5. ASSUME HasField(t, field) PROVE HasField(u, field)
  <2>1. PICK i \in DOMAIN t : t[i][1] = field BY <1>5 DEF HasField
  <2>2. m + i \in 1 .. m + n /\ ~ (m + i <= m) /\ m + i - m = i BY <1>1, <2>1
  <2>3. u[m + i] = t[i] /\ m + i \in DOMAIN u BY <1>1, <1>2, <2>2
  <2>4. QED BY <2>1, <2>3 DEF HasField
<1>6. QED BY <1>1, <1>3, <1>4, <1>5 DEF u

\* Fields of four and of eight bytes.
LEMMA NumberFields ==
  ASSUME NEW S, NEW names \in Seq(S)
  PROVE  /\ Words(names) \in Seq(S \X Nat) /\ Quads(names) \in Seq(S \X Nat)
         /\ \A f : Wide(Words(names), f, 4) /\ Wide(Quads(names), f, 8)
         /\ \A i \in 1 .. Len(names) : HasField(Words(names), names[i]) /\ HasField(Quads(names), names[i])
         /\ \A f : (\A i \in 1 .. Len(names) : names[i] # f) =>
              \A w : Wide(Words(names), f, w) /\ Wide(Quads(names), f, w)
<1>1. Words(names) = [i \in 1 .. Len(names) |-> <<names[i], 4>>] BY DEF Words
<1>2. Quads(names) = [i \in 1 .. Len(names) |-> <<names[i], 8>>] BY DEF Quads
<1>3. \A i \in 1 .. Len(names) : <<names[i], 4>> \in S \X Nat /\ <<names[i], 8>> \in S \X Nat
  OBVIOUS
<1>4. Words(names) \in Seq(S \X Nat) /\ Quads(names) \in Seq(S \X Nat)
  <2> DEFINE T == S \X Nat
  <2>1. \A i \in 1 .. Len(names) : <<names[i], 4>> \in T /\ <<names[i], 8>> \in T BY <1>3
  <2> HIDE DEF T
  <2>2. QED BY <1>1, <1>2, <2>1
<1>5. \A f : Wide(Words(names), f, 4) /\ Wide(Quads(names), f, 8) BY <1>1, <1>2 DEF Wide
<1>6. \A i \in 1 .. Len(names) : HasField(Words(names), names[i]) /\ HasField(Quads(names), names[i])
  BY <1>1, <1>2 DEF HasField
<1>7. \A f : (\A i \in 1 .. Len(names) : names[i] # f) =>
        \A w : Wide(Words(names), f, w) /\ Wide(Quads(names), f, w)
  BY <1>1, <1>2 DEF Wide
<1>8. QED BY <1>4, <1>5, <1>6, <1>7

\* A command that is the header and further words.
LEMMA WordsFollow ==
  ASSUME NEW S, NEW names \in Seq(S)
  PROVE  /\ \A i \in 1 .. Len(names) : HasField(Header \o Words(names), names[i])
         /\ \A f : Wide(Header \o Words(names), f, 4)
<1> DEFINE begin == <<"cmd", "cmdsize">>
           T == S \cup {"cmd", "cmdsize"}
<1>1. begin \in Seq(T) /\ names \in Seq(T)
  <2>1. \A i \in 1 .. Len(names) : names[i] \in T OBVIOUS
  <2>2. begin \in Seq(T) OBVIOUS
  <2> HIDE DEF T
  <2>3. QED BY <2>1, <2>2
<1>2. Header = Words(begin) BY DEF Header
<1> HIDE DEF begin, T
<1>3. /\ Header \in Seq(T \X Nat) /\ Words(names) \in Seq(T \X Nat)
      /\ \A f : Wide(Header, f, 4) /\ Wide(Words(names), f, 4)
      /\ \A i \in 1 .. Len(names) : HasField(Words(names), names[i])
  BY <1>1, <1>2, NumberFields
<1> DEFINE P == T \X Nat
<1>4. Header \in Seq(P) /\ Words(names) \in Seq(P) BY <1>3
<1> HIDE DEF P
<1> DEFINE words == Words(names)
           whole == Header \o words
<1>5. \A f : Wide(whole, f, 4)
  <2> SUFFICES ASSUME NEW f PROVE Wide(whole, f, 4) OBVIOUS
  <2>1. Wide(Header, f, 4) /\ Wide(words, f, 4) BY <1>3
  <2>2. QED BY <1>4, <2>1, PartsJoin
<1>6. \A i \in 1 .. Len(names) : HasField(whole, names[i])
  <2> SUFFICES ASSUME NEW i \in 1 .. Len(names) PROVE HasField(whole, names[i]) OBVIOUS
  <2>1. HasField(words, names[i]) BY <1>3
  <2>2. QED BY <1>4, <2>1, PartsJoin
<1>7. QED BY <1>5, <1>6

LEMMA TableFields ==
  /\ \A f \in {"symoff", "nsyms", "stroff", "strsize"} : ReadsField(mk_load_command_symtab, f, 4)
  /\ \A f \in {"indirectsymoff", "nindirectsyms"} : ReadsField(mk_load_command_dysymtab, f, 4)
  /\ \A f \in {"dataoff", "datasize"} : ReadsField(mk_load_command_dyld_exports_trie, f, 4)
  /\ \A f \in {"export_off", "export_size"} :
       ReadsField(mk_load_command_dyld_info, f, 4) /\ ReadsField(mk_load_command_dyld_info_only, f, 4)
<1>0. ASSUME NEW names, NEW S, names \in Seq(S), NEW f, NEW i \in 1 .. Len(names), names[i] = f
      PROVE  HasField(Header \o Words(names), f) /\ Wide(Header \o Words(names), f, 4)
  BY <1>0, WordsFollow
<1>1. \A f \in {"symoff", "nsyms", "stroff", "strsize"} : ReadsField(mk_load_command_symtab, f, 4)
  <2> DEFINE names == <<"symoff", "nsyms", "stroff", "strsize">>
             S == {"symoff", "nsyms", "stroff", "strsize"}
  <2>1. names \in Seq(S) /\ \A f \in S : \E i \in 1 .. Len(names) : names[i] = f OBVIOUS
  <2>2. /\ mk_load_command_symtab.layout = Header \o Words(names)
        /\ \A f \in S : f \in DOMAIN mk_load_command_symtab.reads /\ mk_load_command_symtab.reads[f] = 4
    BY DEF mk_load_command_symtab, Class, struct_symtab_command, swap32
  <2> HIDE DEF names
  <2>3. QED BY <1>0, <2>1, <2>2 DEF ReadsField
<1>2. \A f \in {"indirectsymoff", "nindirectsyms"} : ReadsField(mk_load_command_dysymtab, f, 4)
  <2> DEFINE names == <<"ilocalsym", "nlocalsym", "iextdefsym", "nextdefsym", "iundefsym",
                        "nundefsym", "tocoff", "ntoc", "modtaboff", "nmodtab", "extrefsymoff",
                        "nextrefsyms", "indirectsymoff", "nindirectsyms", "extreloff", "nextrel",
                        "locreloff", "nlocrel">>
  <2>1. /\ names \in Seq(dysymtab_numbers) /\ Len(names) = 18
        /\ names[13] = "indirectsymoff" /\ names[14] = "nindirectsyms"
    BY DEF dysymtab_numbers
  <2>2. mk_load_command_dysymtab.layout = Header \o Words(names)
    BY DEF mk_load_command_dysymtab, Class, struct_dysymtab_command
  <2>3. \A f \in {"indirectsymoff", "nindirectsyms"} :
          f \in DOMAIN mk_load_command_dysymtab.reads /\ mk_load_command_dysymtab.reads[f] = 4
    BY DEF mk_load_command_dysymtab, mk_load_command_dysymtab_getters, dysymtab_numbers, Class, swap32
  <2> HIDE DEF names
  <2>4. 13 \in 1 .. Len(names) /\ 14 \in 1 .. Len(names) BY <2>1
  <2>5. QED BY <1>0, <2>1, <2>2, <2>3, <2>4 DEF ReadsField
<1>3. \A f \in {"dataoff", "datasize"} : ReadsField(mk_load_command_dyld_exports_trie, f, 4)
  <2> DEFINE names == <<"dataoff", "datasize">>
             S == {"dataoff", "datasize"}
             class == mk_load_command_dyld_exports_trie
  <2>1. names \in Seq(S) /\ \A f \in S : \E i \in 1 .. Len(names) : names[i] = f OBVIOUS
  <2>2. /\ class.layout = Header \o Words(names)
        /\ \A f \in S : f \in DOMAIN class.reads /\ class.reads[f] = 4
    BY DEF mk_load_command_dyld_exports_trie, LinkeditClass, Class, struct_linkedit_data_command, swap32
  <2> HIDE DEF names
  <2>3. QED BY <1>0, <2>1, <2>2 DEF ReadsField
<1>4. ASSUME NEW name, NEW class, class = DyldInfoClass(name), NEW f \in {"export_off", "export_size"}
      PROVE  ReadsField(class, f, 4)
  <2> DEFINE names == <<"rebase_off", "rebase_size", "bind_off", "bind_size", "weak_bind_off",
                        "weak_bind_size", "lazy_bind_off", "lazy_bind_size", "export_off", "export_size">>
             S == {"rebase_off", "rebase_size", "bind_off", "bind_size", "weak_bind_off",
                   "weak_bind_size", "lazy_bind_off", "lazy_bind_size", "export_off", "export_size"}
  <2>1. names \in Seq(S) /\ Len(names) = 10 /\ names[9] = "export_off" /\ names[10] = "export_size"
    OBVIOUS
  <2>2. /\ class.layout = Header \o Words(names)
        /\ f \in DOMAIN class.reads /\ class.reads[f] = 4
    BY <1>4 DEF DyldInfoClass, Class, struct_dyld_info_command, swap32
  <2> HIDE DEF names
  <2>3. 9 \in 1 .. Len(names) /\ 10 \in 1 .. Len(names) BY <2>1
  <2>4. QED BY <1>0, <2>1, <2>2, <2>3 DEF ReadsField
<1>5. QED
  BY <1>1, <1>2, <1>3, <1>4 DEF mk_load_command_dyld_info, mk_load_command_dyld_info_only

\* The fields of a section, of either kind.
SectionNumbers == {"offset", "align", "reloff", "nreloc", "flags", "reserved1", "reserved2"}
SectionNames == {"sectname", "segname", "addr", "size", "reserved3"} \cup SectionNumbers

LEMMA SectionJoins ==
  ASSUME NEW address \in Seq(SectionNames \X Nat), NEW more \in Seq(SectionNames \X Nat),
         NEW f \in SectionNames \ {"sectname", "segname"}, NEW w
  PROVE  LET words == Words(<<"offset", "align", "reloff", "nreloc", "flags", "reserved1", "reserved2">>)
         IN  /\ Wide(address, f, w) /\ Wide(words, f, w) /\ Wide(more, f, w) =>
                  Wide(Section(address, more), f, w)
             /\ HasField(address, f) \/ HasField(words, f) \/ HasField(more, f) =>
                  HasField(Section(address, more), f)
<1> DEFINE names == <<"offset", "align", "reloff", "nreloc", "flags", "reserved1", "reserved2">>
           words == Words(names)
           first == Chars("sectname", 16)
           second == Chars("segname", 16)
           P == SectionNames \X Nat
<1>1. names \in Seq(SectionNames)
  <2>1. names \in Seq(SectionNumbers) BY DEF SectionNumbers
  <2> HIDE DEF names
  <2>2. SectionNumbers \subseteq SectionNames BY DEF SectionNames
  <2> HIDE DEF P
  <2>3. QED BY <2>1, <2>2
<1> HIDE DEF names
<1>2. words \in Seq(P) BY <1>1, NumberFields
<1> HIDE DEF words
<1>3. first = <<<<"sectname", 16>>>> /\ second = <<<<"segname", 16>>>> BY DEF Chars
<1>4. <<"sectname", 16>> \in P /\ <<"segname", 16>> \in P BY DEF SectionNames
<1> HIDE DEF P
<1>5. first \in Seq(P) /\ second \in Seq(P)
  <2>1. \A x \in P : <<x>> \in Seq(P) OBVIOUS
  <2>2. QED BY <1>3, <1>4, <2>1
<1>6. Wide(first, f, w) /\ Wide(second, f, w) BY <1>3 DEF Wide
<1> HIDE DEF first, second
<1> DEFINE s2 == first \o second
           s3 == s2 \o address
           s4 == s3 \o words
           s5 == s4 \o more
<1>7. address \in Seq(P) /\ more \in Seq(P) BY DEF P
<1>8. s2 \in Seq(P) /\ Wide(s2, f, w) BY <1>5, <1>6, PartsJoin
<1> HIDE DEF s2
<1>9. /\ s3 \in Seq(P) /\ (Wide(address, f, w) => Wide(s3, f, w))
      /\ (HasField(address, f) => HasField(s3, f))
  BY <1>7, <1>8, PartsJoin
<1> HIDE DEF s3
<1>10. /\ s4 \in Seq(P) /\ (Wide(s3, f, w) /\ Wide(words, f, w) => Wide(s4, f, w))
       /\ (HasField(s3, f) \/ HasField(words, f) => HasField(s4, f))
  BY <1>2, <1>9, PartsJoin
<1> HIDE DEF s4
<1>11. /\ (Wide(s4, f, w) /\ Wide(more, f, w) => Wide(s5, f, w))
       /\ (HasField(s4, f) \/ HasField(more, f) => HasField(s5, f))
  BY <1>7, <1>10, PartsJoin
<1> HIDE DEF s5
<1>12. Section(address, more) = s5
  BY DEF Section, s2, s3, s4, s5, first, second, words, names
<1>13. QED BY <1>9, <1>10, <1>11, <1>12 DEF words, names

\* A class that a section is read with reads each number with its width.
ReadsSection(class) ==
  /\ {"addr", "size"} \subseteq DOMAIN class.reads
  /\ \A f \in DOMAIN class.reads : class.reads[f] \in {4, 8} /\ ReadsField(class, f, class.reads[f])

LEMMA SectionFields == ReadsSection(mk_load_command_section) /\ ReadsSection(mk_load_command_section_64)
<1> DEFINE names == <<"offset", "align", "reloff", "nreloc", "flags", "reserved1", "reserved2">>
           words == Words(names)
           two == <<"addr", "size">>
<1>1. /\ names \in Seq(SectionNumbers) /\ Len(names) = 7
      /\ \A f \in SectionNumbers : \E i \in 1 .. Len(names) : names[i] = f
  <2>1. names \in Seq(SectionNumbers) /\ Len(names) = 7 BY DEF SectionNumbers
  <2>2. /\ names[1] = "offset" /\ names[2] = "align" /\ names[3] = "reloff" /\ names[4] = "nreloc"
        /\ names[5] = "flags" /\ names[6] = "reserved1" /\ names[7] = "reserved2"
    OBVIOUS
  <2> HIDE DEF names
  <2>3. QED BY <2>1, <2>2 DEF SectionNumbers
<1>2. two \in Seq({"addr", "size"}) /\ Len(two) = 2 /\ two[1] = "addr" /\ two[2] = "size" OBVIOUS
<1> HIDE DEF names, two
<1>3. /\ \A f : Wide(words, f, 4)
      /\ \A f \in SectionNumbers : HasField(words, f)
      /\ \A f \in {"addr", "size", "reserved3"} : Wide(words, f, 8)
  <2>1. \A i \in 1 .. Len(names) : HasField(words, names[i]) BY <1>1, NumberFields
  <2>2. \A f \in {"addr", "size", "reserved3"} : \A i \in 1 .. Len(names) : names[i] # f
    <3>0. names \in Seq(SectionNumbers) BY <1>1
    <3>1. \A i \in 1 .. Len(names) : names[i] \in SectionNumbers BY <3>0
    <3>2. \A f \in {"addr", "size", "reserved3"} : f \notin SectionNumbers BY DEF SectionNumbers
    <3>3. QED BY <3>1, <3>2
  <2>3. QED BY <1>1, <2>1, <2>2, NumberFields
<1>4. /\ Words(two) \in Seq(SectionNames \X Nat) /\ Quads(two) \in Seq(SectionNames \X Nat)
      /\ \A f : Wide(Words(two), f, 4) /\ Wide(Quads(two), f, 8)
      /\ \A f \in {"addr", "size"} : HasField(Words(two), f) /\ HasField(Quads(two), f)
      /\ \A f \in SectionNames \ {"addr", "size"} : Wide(Quads(two), f, 4)
  <2>1. two \in Seq(SectionNames)
    <3>1. {"addr", "size"} \subseteq SectionNames BY DEF SectionNames
    <3> DEFINE S == SectionNames
    <3> HIDE DEF S
    <3>2. two \in Seq(S) BY <1>2, <3>1 DEF S
    <3>3. QED BY <3>2 DEF S
  <2>2. 1 \in 1 .. Len(two) /\ 2 \in 1 .. Len(two) BY <1>2
  <2>3. \A f \in SectionNames \ {"addr", "size"} : \A i \in 1 .. Len(two) : two[i] # f BY <1>2
  <2>4. \A i \in 1 .. Len(two) : HasField(Words(two), two[i]) /\ HasField(Quads(two), two[i])
    BY <2>1, NumberFields
  <2>5. QED BY <1>2, <2>1, <2>2, <2>3, <2>4, NumberFields
<1>5. ReadsSection(mk_load_command_section)
  <2> DEFINE class == mk_load_command_section
             fields == {"addr", "size", "offset", "align", "reloff", "nreloc", "reserved1", "reserved2"}
  <2>1. /\ class.layout = Section(Words(two), <<>>) /\ DOMAIN class.reads = fields
        /\ \A f \in fields : class.reads[f] = 4
    BY DEF mk_load_command_section, Class, struct_section, swap32, two
  <2>2. ASSUME NEW f \in fields PROVE HasField(class.layout, f) /\ Wide(class.layout, f, 4)
    <3>1. f \in SectionNames \ {"sectname", "segname"} BY DEF SectionNames, SectionNumbers
    <3>2. <<>> \in Seq(SectionNames \X Nat) /\ Wide(<<>>, f, 4) BY DEF Wide
    <3>3. HasField(Words(two), f) \/ HasField(words, f) BY <1>3, <1>4 DEF SectionNumbers
    <3> HIDE DEF class, fields
    <3> DEFINE numbers == Words(two)
    <3>4. /\ numbers \in Seq(SectionNames \X Nat) /\ Wide(numbers, f, 4) /\ Wide(words, f, 4)
          /\ (HasField(numbers, f) \/ HasField(words, f)) /\ class.layout = Section(numbers, <<>>)
      BY <1>3, <1>4, <2>1, <3>3
    <3> HIDE DEF numbers
    <3>5. QED BY <3>1, <3>2, <3>4, SectionJoins DEF words, names
  <2> HIDE DEF class
  <2>3. QED BY <2>1, <2>2 DEF ReadsSection, ReadsField, class
<1>6. ReadsSection(mk_load_command_section_64)
  <2> DEFINE class == mk_load_command_section_64
             numbers == {"offset", "align", "reloff", "nreloc", "reserved1", "reserved2", "reserved3"}
             fields == {"addr", "size"} \cup numbers
             last == <<"reserved3">>
  <2>1. /\ class.layout = Section(Quads(two), Words(last)) /\ DOMAIN class.reads = fields
        /\ \A f \in fields : class.reads[f] = IF f \in numbers THEN 4 ELSE 8
    BY DEF mk_load_command_section_64, Class, struct_section_64, swap, two
  <2>2. /\ Words(last) \in Seq(SectionNames \X Nat)
        /\ \A f : Wide(Words(last), f, 4)
        /\ HasField(Words(last), "reserved3")
        /\ \A f \in {"addr", "size"} : Wide(Words(last), f, 8)
    <3>1. last \in Seq(SectionNames) /\ Len(last) = 1 /\ last[1] = "reserved3" BY DEF SectionNames
    <3> HIDE DEF last
    <3>2. \A f \in {"addr", "size"} : \A i \in 1 .. Len(last) : last[i] # f BY <3>1
    <3>3. 1 \in 1 .. Len(last) BY <3>1
    <3>4. QED BY <3>1, <3>2, <3>3, NumberFields
  <2> HIDE DEF last, class
  <2>3. ASSUME NEW f \in numbers PROVE HasField(class.layout, f) /\ Wide(class.layout, f, 4)
    <3>1. f \in SectionNames \ {"sectname", "segname"} /\ f \in SectionNames \ {"addr", "size"}
      BY DEF SectionNames, SectionNumbers
    <3>2. HasField(words, f) \/ HasField(Words(last), f) BY <1>3, <2>2 DEF SectionNumbers
    <3> DEFINE quads == Quads(two)
               more == Words(last)
    <3> HIDE DEF numbers
    <3>3. /\ quads \in Seq(SectionNames \X Nat) /\ more \in Seq(SectionNames \X Nat)
          /\ Wide(quads, f, 4) /\ Wide(words, f, 4) /\ Wide(more, f, 4)
          /\ (HasField(words, f) \/ HasField(more, f)) /\ class.layout = Section(quads, more)
      BY <1>3, <1>4, <2>1, <2>2, <3>1, <3>2
    <3> HIDE DEF quads, more
    <3>4. QED BY <3>1, <3>3, SectionJoins DEF words, names
  <2>4. ASSUME NEW f \in {"addr", "size"} PROVE HasField(class.layout, f) /\ Wide(class.layout, f, 8)
    <3>1. f \in SectionNames \ {"sectname", "segname"} BY DEF SectionNames
    <3> DEFINE quads == Quads(two)
               more == Words(last)
    <3>2. /\ quads \in Seq(SectionNames \X Nat) /\ more \in Seq(SectionNames \X Nat)
          /\ Wide(quads, f, 8) /\ Wide(words, f, 8) /\ Wide(more, f, 8)
          /\ HasField(quads, f) /\ class.layout = Section(quads, more)
      BY <1>3, <1>4, <2>1, <2>2, <3>1
    <3> HIDE DEF quads, more
    <3>3. QED BY <3>1, <3>2, SectionJoins DEF words, names
  <2>5. QED BY <2>1, <2>3, <2>4 DEF ReadsSection, ReadsField, class
<1>7. QED BY <1>5, <1>6

\* The entries of a symbol table: their fields are apart, and they have 12 or 16 bytes.
EntryNames == {"n_strx", "n_type", "n_sect", "n_desc", "n_value"}
IsEntry(layout, width) ==
  /\ layout \in Seq(EntryNames \X Nat) /\ Len(layout) = 5
  /\ layout[1] = <<"n_strx", 4>> /\ layout[2] = <<"n_type", 1>> /\ layout[3] = <<"n_sect", 1>>
  /\ layout[4] = <<"n_desc", 2>> /\ layout[5] = <<"n_value", width>>

LEMMA Entries == IsEntry(struct_nlist, 4) /\ IsEntry(struct_nlist_64, 8)
<1> DEFINE P == EntryNames \X Nat
           a == <<"n_strx", 4>>
           b == <<"n_type", 1>>
           c == <<"n_sect", 1>>
           d == <<"n_desc", 2>>
           e(width) == <<"n_value", width>>
           whole(width) == <<a>> \o <<b>> \o <<c>> \o <<d>> \o <<e(width)>>
<1>1. /\ a \in P /\ b \in P /\ c \in P /\ d \in P
      /\ \A width \in Nat : e(width) \in P
  BY DEF EntryNames
<1>2. struct_nlist = whole(4) /\ struct_nlist_64 = whole(8)
  <2>1. /\ Words(<<"n_strx">>) = <<a>> /\ Words(<<"n_value">>) = <<e(4)>> /\ Quads(<<"n_value">>) = <<e(8)>>
    BY DEF Words, Quads
  <2>2. Chars("n_type", 1) = <<b>> /\ Chars("n_sect", 1) = <<c>> /\ Chars("n_desc", 2) = <<d>> BY DEF Chars
  <2> HIDE DEF a, b, c, d, e
  <2>3. QED BY <2>1, <2>2 DEF struct_nlist, struct_nlist_64
<1>3. ASSUME NEW width \in Nat PROVE IsEntry(whole(width), width)
  <2> DEFINE last == e(width)
  <2>1. last \in P BY <1>1
  <2> HIDE DEF a, b, c, d, e, P, last
  <2> DEFINE s2 == <<a>> \o <<b>>
             s3 == s2 \o <<c>>
             s4 == s3 \o <<d>>
             s5 == s4 \o <<last>>
  <2>2. ASSUME NEW s \in Seq(P), NEW x \in P
        PROVE  /\ s \o <<x>> \in Seq(P) /\ Len(s \o <<x>>) = Len(s) + 1
               /\ (s \o <<x>>)[Len(s) + 1] = x /\ \A i \in 1 .. Len(s) : (s \o <<x>>)[i] = s[i]
    BY AppendProperties, AppendIsConcat
  <2>3. <<a>> \in Seq(P) /\ Len(<<a>>) = 1 /\ <<a>>[1] = a BY <1>1
  <2>4. s2 \in Seq(P) /\ Len(s2) = 2 /\ s2[1] = a /\ s2[2] = b BY <1>1, <2>2, <2>3
  <2> HIDE DEF s2
  <2>5. s3 \in Seq(P) /\ Len(s3) = 3 /\ s3[1] = a /\ s3[2] = b /\ s3[3] = c
    <3>1. /\ s3 \in Seq(P) /\ Len(s3) = Len(s2) + 1 /\ s3[Len(s2) + 1] = c
          /\ \A i \in 1 .. Len(s2) : s3[i] = s2[i]
      BY <1>1, <2>2, <2>4
    <3> HIDE DEF s3
    <3>2. QED BY <2>4, <3>1
  <2> HIDE DEF s3
  <2>6. s4 \in Seq(P) /\ Len(s4) = 4 /\ s4[1] = a /\ s4[2] = b /\ s4[3] = c /\ s4[4] = d
    <3>1. /\ s4 \in Seq(P) /\ Len(s4) = Len(s3) + 1 /\ s4[Len(s3) + 1] = d
          /\ \A i \in 1 .. Len(s3) : s4[i] = s3[i]
      BY <1>1, <2>2, <2>5
    <3> HIDE DEF s4
    <3>2. QED BY <2>5, <3>1
  <2> HIDE DEF s4
  <2>7. s5 \in Seq(P) /\ Len(s5) = 5 /\ s5[1] = a /\ s5[2] = b /\ s5[3] = c /\ s5[4] = d /\ s5[5] = last
    <3>1. /\ s5 \in Seq(P) /\ Len(s5) = Len(s4) + 1 /\ s5[Len(s4) + 1] = last
          /\ \A i \in 1 .. Len(s4) : s5[i] = s4[i]
      BY <2>1, <2>2, <2>6
    <3> HIDE DEF s5
    <3>2. QED BY <2>6, <3>1
  <2> HIDE DEF s5
  <2>8. whole(width) = s5 BY DEF s2, s3, s4, s5, last
  <2>9. QED BY <2>7, <2>8 DEF IsEntry, a, b, c, d, e, last, P
<1>4. QED BY <1>2, <1>3

LEMMA EntryLayout == IsEntry(nlist_layout, 4) \/ IsEntry(nlist_layout, 8)
BY Entries DEF nlist_layout

LEMMA EntrySize == Sizeof(nlist_layout) \in 1 .. 16
<1> DEFINE layout == nlist_layout
           widths == [i \in 1 .. Len(layout) |-> layout[i][2]]
<1>1. PICK width \in {4, 8} : IsEntry(layout, width) BY EntryLayout
<1>2. /\ widths \in Seq(Nat) /\ Len(widths) = 5 /\ widths[1] = 4 /\ widths[2] = 1 /\ widths[3] = 1
      /\ widths[4] = 2 /\ widths[5] = width
  <2> HIDE DEF layout
  <2>1. Len(layout) = 5 /\ \A i \in 1 .. 5 : layout[i][2] \in Nat BY <1>1 DEF IsEntry
  <2>2. widths = [i \in 1 .. 5 |-> layout[i][2]] BY <2>1
  <2>3. QED BY <1>1, <2>1, <2>2 DEF IsEntry
<1>3. Sizeof(layout) = Horner(1, widths) BY DEF Sizeof, Widths
<1> HIDE DEF widths, layout
<1>4. PICK number \in [0 .. Len(widths) -> Nat] :
        /\ number[0] = 0
        /\ \A i \in 1 .. Len(widths) : number[i] = 1 * number[i - 1] + widths[i]
        /\ Horner(1, widths) = number[Len(widths)]
  BY <1>2, HornerSteps
<1>5. number[1] = 1 * number[0] + 4 /\ number[2] = 1 * number[1] + 1 /\ number[3] = 1 * number[2] + 1
      /\ number[4] = 1 * number[3] + 2 /\ number[5] = 1 * number[4] + width
  BY <1>2, <1>4
<1>6. number[5] = width + 8
  <2>1. number[0] \in Nat /\ number[1] \in Nat /\ number[2] \in Nat /\ number[3] \in Nat /\ number[4] \in Nat
    BY <1>2, <1>4
  <2>2. QED BY <1>4, <1>5, <2>1
<1>7. Sizeof(layout) = width + 8 BY <1>2, <1>3, <1>4, <1>6
<1>8. QED BY <1>7 DEF layout

----------------------------------------------------------------------------
(* What the commands say.                                                  *)

\* A number of a command is the file's.
LEMMA ValueIsFile ==
  ASSUME file \in Files, cpu \in Cpus, NEW command, NEW f, NEW width \in 0 .. 8,
         ReadsField(command.vtable, f, width)
  PROVE  /\ Value(command, f) = FileField(command.mach_load_command, command.vtable.layout, f)
         /\ Value(command, f) \in 0 .. UINT_MAX(width)
<1>1. IsA(command, command.vtable) BY DEF IsA
<1>2. Value(command, f) =
        Read(mem, command.mach_load_command, command.vtable.layout, f, width)
  BY <1>1 DEF Value, getter, ReadsField
<1>3. HasField(command.vtable.layout, f) /\ Wide(command.vtable.layout, f, width) BY DEF ReadsField
<1>4. QED BY <1>2, <1>3, ReadIsFile

LEMMA WordBounds ==
  /\ UINT_MAX(4) \in Nat /\ UINT_MAX(8) = MaxWord
  /\ \A n \in 0 .. UINT_MAX(4), size \in 0 .. 16 : n * size \in Nat /\ n * size <= MaxWord
<1> DEFINE b == ByteValues
           q == ByteValues ^ 4
<1>1. b \in Nat /\ b > 1 /\ MaxWord = ByteValues ^ 8 - 1 BY ByteAssumption
<1>2. /\ q \in Nat \ {0} /\ ByteValues ^ 5 \in Nat /\ ByteValues ^ 6 \in Nat /\ ByteValues ^ 7 \in Nat
      /\ ByteValues ^ 8 \in Nat
      /\ ByteValues ^ 5 = b * q /\ ByteValues ^ 6 = b * ByteValues ^ 5
      /\ ByteValues ^ 7 = b * ByteValues ^ 6 /\ ByteValues ^ 8 = b * ByteValues ^ 7
  <2>1. \A width \in 1 .. 8 : ByteValues ^ width = ByteValues * ByteValues ^ (width - 1) BY PowerAssumption
  <2>2. 5 \in 1 .. 8 /\ 6 \in 1 .. 8 /\ 7 \in 1 .. 8 /\ 8 \in 1 .. 8
        /\ 5 - 1 = 4 /\ 6 - 1 = 5 /\ 7 - 1 = 6 /\ 8 - 1 = 7
    OBVIOUS
  <2>3. \A width \in 0 .. 8 : ByteValues ^ width \in Nat \ {0} BY PowerAssumption
  <2>4. 4 \in 0 .. 8 /\ 5 \in 0 .. 8 /\ 6 \in 0 .. 8 /\ 7 \in 0 .. 8 /\ 8 \in 0 .. 8 OBVIOUS
  <2>5. ByteValues ^ 5 = b * q /\ ByteValues ^ 6 = b * ByteValues ^ 5
        /\ ByteValues ^ 7 = b * ByteValues ^ 6 /\ ByteValues ^ 8 = b * ByteValues ^ 7
    BY <2>1, <2>2
  <2>6. q \in Nat \ {0} /\ ByteValues ^ 5 \in Nat /\ ByteValues ^ 6 \in Nat /\ ByteValues ^ 7 \in Nat
        /\ ByteValues ^ 8 \in Nat
    BY <2>3, <2>4
  <2>7. QED BY <2>5, <2>6
<1> DEFINE v == ByteValues ^ 5
           w == ByteValues ^ 6
           x == ByteValues ^ 7
           y == ByteValues ^ 8
<1>3. UINT_MAX(4) = q - 1 /\ UINT_MAX(8) = y - 1 BY DEF UINT_MAX
<1> HIDE DEF b, q, v, w, x, y
<1>4. \A m \in Nat : b * m >= 2 * m /\ b * m \in Nat
  <2>1. ASSUME NEW m \in Nat PROVE b * m >= 2 * m /\ b * m \in Nat
    <3>1. b - 2 \in Nat BY <1>1 DEF b
    <3>2. (b - 2) * m \in Nat /\ (b - 2) * m = b * m - 2 * m BY <1>1, <2>1, <3>1 DEF b
    <3>3. b * m \in Int BY <1>1, <2>1 DEF b
    <3>4. QED BY <2>1, <3>2, <3>3
  <2>2. QED BY <2>1
<1>5. y >= 16 * q
  <2>1. v >= 2 * q /\ w >= 2 * v /\ x >= 2 * w /\ y >= 2 * x BY <1>2, <1>4 DEF v, w, x, y
  <2>2. QED BY <1>2, <2>1 DEF v, w, x, y
<1>6. ASSUME NEW n \in 0 .. UINT_MAX(4), NEW size \in 0 .. 16
      PROVE  n * size \in Nat /\ n * size <= MaxWord
  <2>1. n \in Nat /\ n <= q - 1 /\ size \in Nat /\ 16 - size \in Nat BY <1>2, <1>3
  <2>2. n * (16 - size) \in Nat /\ n * size \in Nat /\ n * (16 - size) = 16 * n - n * size BY <2>1
  <2>3. n * size <= 16 * n BY <2>1, <2>2
  <2>4. 16 * n <= MaxWord BY <1>1, <1>2, <1>5, <2>1 DEF y
  <2>5. QED BY <1>1, <1>2, <2>1, <2>2, <2>3, <2>4 DEF y
<1>7. QED BY <1>1, <1>2, <1>3, <1>6 DEF y

\* As many entries as a command can count do not wrap.
LEMMA CountsFit ==
  ASSUME NEW n \in 0 .. UINT_MAX(4), NEW size \in 0 .. 16
  PROVE  Wrap(n * size) = n * size /\ n * size \in Nat
<1>1. n * size \in Nat /\ n * size <= MaxWord BY WordBounds
<1>2. QED BY <1>1, WrapBelow

----------------------------------------------------------------------------
(* The slide of an open image.                                             *)

Known ==
  /\ file \in Files /\ cpu \in Cpus /\ low \in Nat
  /\ pc = "copied" => call.slide \in Slide
  /\ Mapped => image.slide \in Slide /\ "slide" \in DOMAIN image

LEMMA SlideIs == \A n \in Int : n \in Slide <=> -MaxSlide <= n /\ n <= MaxSlide
<1>1. MaxSlide \in Int BY WordAssumption DEF MaxSlide
<1>2. QED BY <1>1 DEF Slide

LEMMA KnownInit == Init => Known
BY DEF Init, Known, Mapped

LEMMA KnownStep == Known /\ [Next]_vars => Known'
<1>1. SUFFICES ASSUME Known, [Next]_vars PROVE Known' OBVIOUS
<1>2. file \in Files /\ cpu \in Cpus /\ low \in Nat BY <1>1 DEF Known
<1>3. ASSUME NEW derives, NEW slide \in Slide, mk_macho_init_with_slide(derives, slide) PROVE Known'
  <2>1. UNCHANGED <<cpu, file, low>> BY <1>3 DEF mk_macho_init_with_slide, Returns
  <2>2. pc' = "closed" \/ (pc' = "copied" /\ call'.slide = slide)
    <3>1. \/ \E err : Returns(err)
          \/ \E c : pc' = "copied" /\ call' = c /\ c.slide = slide
      <4> DEFINE magic == Raw(mem, HeaderAddress, struct_mach_header, "magic")
                 model == ModelOf(magic)
                 c == [open |-> TRUE, derives |-> derives, slide |-> slide, magic |-> magic,
                       header_size |-> model.value.header_size,
                       length |-> mk_macho_get_sizeofcmds + model.value.header_size]
      <4>1. (\E err : Returns(err)) \/ (pc' = "copied" /\ call' = c)
        BY <1>3, Zenon DEF mk_macho_init_with_slide
      <4>2. c.slide = slide OBVIOUS
      <4> HIDE DEF c
      <4>3. QED BY <4>1, <4>2
    <3>2. QED BY <3>1 DEF Returns
  <2>3. QED BY <1>2, <1>3, <2>1, <2>2 DEF Known, Mapped
<1>4. CASE Open
  <2>1. 0 \in Slide /\ Slides \subseteq Slide
    <3>1. MaxSlide \in Nat BY WordAssumption DEF MaxSlide
    <3>2. 0 \in Slide BY <3>1 DEF Slide
    <3>3. QED BY <3>2, ImageAssumption
  <2>2. QED BY <1>3, <1>4, <2>1 DEF Open
<1>5. CASE TargetChanges
  <2>1. pc = "copied" /\ pc' = "copied" /\ file' \in Files /\ UNCHANGED <<cpu, call, low>>
    BY <1>5 DEF TargetChanges
  <2>2. QED BY <1>1, <2>1 DEF Known, Mapped
<1>6. CASE MapFails \/ DropWild
  <2>1. pc' \in {"wild", "closed"} /\ UNCHANGED <<cpu, file, low>> BY <1>6 DEF MapFails, DropWild
  <2>2. QED BY <1>2, <2>1 DEF Known, Mapped
<1>7. CASE MapHeader
  <2>1. UNCHANGED <<cpu, file>> /\ pc = "copied" BY <1>7 DEF MapHeader
  <2>2. \/ pc' = "closed" /\ low' = low
        \/ /\ pc' \in {"slide", "open"} /\ low' \in {MaxWord, 0}
           /\ \E slack \in Slacks :
                image' = [open |-> TRUE, slide |-> call.slide, header_size |-> call.header_size,
                          header_mapping |-> [target_address |-> LoadAddress, address |-> HeaderAddress,
                                              length |-> call.length + slack]]
    BY <1>7 DEF MapHeader
  <2>3. CASE pc' = "closed" /\ low' = low BY <1>2, <2>1, <2>3 DEF Known, Mapped
  <2>4. CASE /\ pc' \in {"slide", "open"} /\ low' \in {MaxWord, 0}
             /\ \E slack \in Slacks :
                  image' = [open |-> TRUE, slide |-> call.slide, header_size |-> call.header_size,
                            header_mapping |-> [target_address |-> LoadAddress, address |-> HeaderAddress,
                                                length |-> call.length + slack]]
    <3>1. image'.slide = call.slide /\ "slide" \in DOMAIN image' BY <2>4
    <3>2. low' \in Nat BY <2>4, WordAssumption
    <3>3. call.slide \in Slide BY <1>1, <2>1 DEF Known
    <3>4. QED BY <1>2, <2>1, <2>4, <3>1, <3>2, <3>3 DEF Known
  <2>5. QED BY <2>2, <2>3, <2>4
<1>8. ASSUME NEW err, Frees(err) PROVE Known'
  BY <1>2, <1>8 DEF Frees, Known, Mapped
<1>9. CASE SlideStep
  <2> DEFINE next == mk_macho_next_command(image, lc, FALSE)
  <2>1. \/ Frees("EDERIVED")
        \/ /\ UNCHANGED <<cpu, file, pc, call, image>>
           /\ \/ low' = low
              \/ Number(next, "vmaddr") \in Nat /\ low' \in {Smaller(Number(next, "vmaddr"), low), low}
    <3> HIDE DEF next
    <3>1. QED BY <1>2, <1>9, SlideTurn DEF next
  <2>2. CASE Frees("EDERIVED") BY <1>8, <2>2
  <2>3. ASSUME NEW n \in Nat, low' \in {Smaller(n, low), low} PROVE low' \in Nat
    BY <1>2, <2>3 DEF Smaller
  <2>4. CASE /\ UNCHANGED <<cpu, file, pc, call, image>>
             /\ \/ low' = low
                \/ Number(next, "vmaddr") \in Nat /\ low' \in {Smaller(Number(next, "vmaddr"), low), low}
    <3>1. low' \in Nat BY <1>2, <2>3, <2>4
    <3>2. QED BY <1>1, <2>4, <3>1 DEF Known, Mapped
  <2>5. QED BY <2>1, <2>2, <2>4
<1>10. CASE SlideEnds
  <2>1. CASE Frees("EDERIVED") BY <1>8, <2>1
  <2>2. CASE /\ Succeeded(SlideFrom(low)) /\ image' = [image EXCEPT !.slide = SlideFrom(low).value]
             /\ pc' = "open" /\ UNCHANGED <<cpu, file, low>>
    <3>1. pc = "slide" BY <1>10 DEF SlideEnds
    <3>2. low <= MaxSlide /\ LoadAddress <= MaxSlide /\ SlideFrom(low).value = LoadAddress - low
      BY <1>2, <2>2, ImageAssumption, WordAssumption
         DEF SlideFrom, mk_vm_address_difference, Succeeded, Ok, Fails, Word, MaxSlide
    <3>3. LoadAddress - low \in Int /\ MaxSlide \in Int /\ LoadAddress \in Nat
      BY <1>2, ImageAssumption, WordAssumption DEF Word, MaxSlide
    <3>4. LoadAddress - low \in Slide BY <1>2, <3>2, <3>3, SlideIs
    <3>5. "slide" \in DOMAIN image BY <1>1, <3>1 DEF Known, Mapped
    <3> DEFINE v == SlideFrom(low).value
    <3>6. image' = [image EXCEPT !.slide = v] /\ v \in Slide BY <2>2, <3>2, <3>4
    <3> HIDE DEF v
    <3>7. image'.slide \in Slide /\ "slide" \in DOMAIN image' BY <3>5, <3>6
    <3>8. QED BY <1>2, <2>2, <3>7 DEF Known, Mapped
  <2>3. QED BY <1>10, <2>1, <2>2 DEF SlideEnds
<1>11. CASE mk_macho_free BY <1>8, <1>11 DEF mk_macho_free
<1>12. CASE NextCommand
  <2>1. UNCHANGED <<cpu, file, pc, call, image, low>> BY <1>12 DEF NextCommand
  <2>2. QED BY <1>1, <2>1 DEF Known, Mapped
<1>13. CASE UNCHANGED vars BY <1>1, <1>13 DEF vars, Known, Mapped
<1>14. QED
  BY <1>1, <1>4, <1>5, <1>6, <1>7, <1>9, <1>10, <1>11, <1>12, <1>13 DEF Next

----------------------------------------------------------------------------
(* The segment.                                                            *)

IsSegmentClass(class) == class \in {mk_load_command_segment, mk_load_command_segment_64}

SegmentInv ==
  segment # NoSegment =>
    /\ image.slide \in Slide /\ IsSegmentClass(segment.command.vtable) /\ Backed(segment.memory_object)

\* Where a segment is, in the file and in memory, are numbers.
LEMMA ExtentNumbers ==
  ASSUME Known, NEW command, IsSegmentClass(command.vtable)
  PROVE  \A f \in Extents : segment_getter(command, f) \in Word
<1>1. SUFFICES ASSUME NEW f \in Extents PROVE segment_getter(command, f) \in Word OBVIOUS
<1>2. PICK width \in {4, 8} : ReadsField(command.vtable, f, width)
  BY ExtentsRead DEF IsSegmentClass, ReadsExtent, ReadsField
<1>3. Value(command, f) \in 0 .. UINT_MAX(width) BY <1>2, ValueIsFile DEF Known
<1>4. segment_getter(command, f) = Value(command, f) BY DEF segment_getter, Value
<1>5. UINT_MAX(4) \in Nat /\ UINT_MAX(4) <= MaxWord /\ UINT_MAX(8) = MaxWord /\ MaxWord \in Nat
  <2>1. UINT_MAX(4) \in Nat BY WordBounds
  <2>2. UINT_MAX(4) \in 0 .. UINT_MAX(4) /\ 1 \in 0 .. 16 BY <2>1
  <2>3. UINT_MAX(4) * 1 <= MaxWord BY <2>2, WordBounds
  <2>4. QED BY <2>1, <2>3, WordBounds, WordAssumption
<1>6. QED BY <1>2, <1>3, <1>4, <1>5 DEF Word

\* An address that is moved stays one.
LEMMA MovedAddress ==
  ASSUME NEW address \in Word, NEW slide \in Slide,
         Succeeded(mk_vm_address_apply_slide(address, slide))
  PROVE  /\ mk_vm_address_apply_slide(address, slide).value = address + slide
         /\ address + slide \in Word /\ Wrap(address + slide) = address + slide
<1>1. MaxSlide \in Nat /\ MaxSlide <= MaxWord /\ MaxWord \in Nat BY WordAssumption DEF MaxSlide
<1>2. slide \in Int /\ -MaxSlide <= slide /\ slide <= MaxSlide BY <1>1, SlideIs DEF Slide
<1>3. address \in Nat /\ address <= MaxWord BY <1>1 DEF Word
<1>4. mk_vm_address_apply_slide(address, slide).value = address + slide
  BY DEF mk_vm_address_apply_slide, Succeeded, Ok, Fails
<1>5. ~ (slide > 0 /\ MaxSlide - slide < address) /\ ~ (slide < 0 /\ -slide > address)
  BY DEF mk_vm_address_apply_slide, Succeeded, Ok, Fails
<1>6. address + slide \in Nat /\ address + slide <= MaxWord BY <1>1, <1>2, <1>3, <1>5
<1>7. QED BY <1>1, <1>4, <1>6, WrapBelow DEF Word

LEMMA SegmentMade ==
  ASSUME Known, image.slide \in Slide, NEW command, command.vtable \in _mk_load_command_classes,
         NEW made, made = mk_segment_init(command), Succeeded(made)
  PROVE  /\ IsSegmentClass(made.value.command.vtable) /\ Backed(made.value.memory_object)
<1> DEFINE moved == mk_vm_address_apply_slide(segment_getter(command, "vmaddr"), image.slide)
           size == segment_getter(command, "vmsize")
           full == ~ AllowShortMappings(command)
           object == mk_memory_map_init_object(0, moved.value, size, full)
<1>1. command.vtable.name \in SegmentClasses BY DEF mk_segment_init, Succeeded, Fails
<1>2. IsSegmentClass(command.vtable) BY <1>1, ClassIs, ClassNames DEF SegmentClasses, IsSegmentClass
<1>3. segment_getter(command, "vmaddr") \in Word /\ size \in Nat
  <2>1. segment_getter(command, "vmaddr") \in Word /\ size \in Word BY <1>2, ExtentNumbers DEF Extents
  <2>2. QED BY <2>1, WordAssumption DEF Word
<1>4. full \in BOOLEAN OBVIOUS
<1>5. /\ Succeeded(moved) /\ Succeeded(object)
      /\ made = Ok([command |-> command, memory_object |-> object.value])
  BY <1>1, Zenon DEF mk_segment_init, Then, Succeeded, Fails
<1>6. moved.value \in Word BY <1>3, <1>5, MovedAddress
<1> HIDE DEF moved, size, full
<1>7. Backed(object.value) BY <1>3, <1>4, <1>5, <1>6, ObjectIsBacked DEF Known
<1> HIDE DEF object
<1>8. made.value.command = command /\ made.value.memory_object = object.value BY <1>5 DEF Ok
<1>9. QED BY <1>2, <1>7, <1>8

LEMMA OpensSegment == ASSUME Known, InitSegment PROVE SegmentInv'
<1> DEFINE opened == mk_segment_init_with_mach_load_command(lc)
           made == mk_load_command_init(mem, image.header_mapping, lc)
<1>1. /\ pc = "open" /\ UNCHANGED <<cpu, file, image>>
      /\ segment' = IF Succeeded(opened) THEN opened.value ELSE NoSegment
  BY DEF InitSegment
<1>2. CASE ~ Succeeded(opened) BY <1>1, <1>2 DEF SegmentInv
<1>3. CASE Succeeded(opened)
  <2>1. Succeeded(made) /\ opened = mk_segment_init(made.value)
    BY <1>3 DEF mk_segment_init_with_mach_load_command, Then
  <2>2. made.value.vtable \in _mk_load_command_classes BY <2>1, CommandClass
  <2>3. image.slide \in Slide BY <1>1 DEF Known, Mapped
  <2> HIDE DEF made, opened
  <2>4. IsSegmentClass(opened.value.command.vtable) /\ Backed(opened.value.memory_object)
    BY <1>3, <2>1, <2>2, <2>3, SegmentMade
  <2>5. Pages' = Pages BY <1>1 DEF Pages
  <2>6. QED BY <1>1, <1>3, <2>3, <2>4, <2>5 DEF SegmentInv, Backed
<1>4. QED BY <1>2, <1>3

----------------------------------------------------------------------------
(* Pointers into the segment.                                              *)

\* Where the segment is, and that there is one.
Opened == Known /\ SegmentInv /\ segment # NoSegment
Outer == mk_segment_get_target_range(segment)

LEMMA OuterNumbers ==
  ASSUME Opened
  PROVE  Outer.location \in Nat /\ Outer.length \in Nat /\ mk_segment_get_fileoff(segment) \in Nat
<1>1. \A f \in Extents : segment_getter(segment.command, f) \in Nat
  <2>1. \A f \in Extents : segment_getter(segment.command, f) \in Word
    BY ExtentNumbers DEF Opened, SegmentInv
  <2>2. QED BY <2>1, WordAssumption DEF Word
<1>2. /\ mk_segment_get_vmaddr(segment) \in Nat /\ mk_segment_get_vmsize(segment) \in Nat
      /\ mk_segment_get_fileoff(segment) \in Nat
  BY <1>1 DEF Extents, mk_segment_get_vmaddr, mk_segment_get_vmsize, mk_segment_get_fileoff
<1>3. image.slide \in Int BY WordAssumption DEF Opened, SegmentInv, Slide, MaxSlide
<1>4. Wrap(mk_segment_get_vmaddr(segment) + image.slide) \in Word BY <1>2, <1>3, WrapDivides
<1>5. Wrap(mk_segment_get_vmaddr(segment) + image.slide) \in Nat BY <1>4, WordAssumption DEF Word
<1>6. QED BY <1>2, <1>5 DEF Outer, mk_segment_get_target_range, mk_vm_range_make

\* A part of the target that can be read through the segment.
Reachable(p, length) ==
  /\ p >= segment.memory_object.target_address
  /\ p + length <= Wrap(segment.memory_object.target_address + segment.memory_object.length)

LEMMA WindowNumbers ==
  ASSUME Opened
  PROVE  LET mapping == segment.memory_object
             end == Wrap(mapping.target_address + mapping.length)
         IN  /\ mapping.target_address \in Nat /\ mapping.address = mapping.target_address
             /\ mapping.length \in Nat
             /\ end \in Nat /\ end <= MaxWord /\ end <= mapping.target_address + mapping.length
<1> DEFINE mapping == segment.memory_object
           end == Wrap(mapping.target_address + mapping.length)
<1>1. mapping.target_address \in Nat /\ mapping.address = mapping.target_address /\ mapping.length \in Nat
  BY DEF Opened, SegmentInv, Backed
<1>2. mapping.target_address + mapping.length \in Nat BY <1>1
<1>3. end \in Word /\ end <= mapping.target_address + mapping.length BY <1>2, WrapBelow
<1>4. end \in Nat /\ end <= MaxWord BY <1>3, WordAssumption DEF Word
<1>5. QED BY <1>1, <1>3, <1>4

LEMMA RemappedIs ==
  ASSUME Opened, NEW address \in Nat, NEW length \in Nat \ {0}, Remapped(address, length) # NULL
  PROVE  Remapped(address, length) = address /\ Reachable(address, length)
<1> DEFINE mapping == segment.memory_object
           end == Wrap(mapping.target_address + mapping.length)
           found == mk_memory_object_remap_address(mapping, 0, address, length)
           located == Locate(mapping.target_address, mapping.length, 0, address, length)
<1>1. /\ mapping.target_address \in Nat /\ mapping.address = mapping.target_address /\ mapping.length \in Nat
      /\ end \in Nat /\ end <= MaxWord /\ MaxWord \in Nat
  BY WindowNumbers, WordAssumption
<1>2. Succeeded(found) /\ Remapped(address, length) = found.value
  BY DEF Remapped, mk_segment_get_mapping
<1>3. Succeeded(located) /\ found = Ok(Wrap(mapping.address + (located.value - mapping.target_address)))
  BY <1>2 DEF mk_memory_object_remap_address
<1>4. /\ ~ (MaxWord - 0 < address) /\ ~ (address + 0 < mapping.target_address)
      /\ ~ (end < address + 0 + length)
      /\ located = Ok(address + 0)
  <2> HIDE DEF end
  <2>1. QED BY <1>3 DEF Locate, Succeeded, Ok, Fails, end
<1> HIDE DEF end, located, found
<1>5. located.value = address BY <1>4 DEF Ok
<1>6. mapping.address + (located.value - mapping.target_address) = address BY <1>1, <1>5
<1>7. Wrap(address) = address
  <2>1. address <= MaxWord BY <1>1, <1>4
  <2>2. QED BY <2>1, WrapBelow
<1>8. found.value = address BY <1>3, <1>6, <1>7 DEF Ok
<1>9. address >= mapping.target_address /\ address + length <= end BY <1>1, <1>4
<1>10. QED BY <1>2, <1>8, <1>9 DEF Reachable, end

LEMMA UnmappedIs ==
  ASSUME Opened, NEW p \in Nat, NEW length \in Nat \ {0}, Reachable(p, length)
  PROVE  mk_memory_object_unmap_address(segment.memory_object, 0, p, length) = Ok(p)
<1> DEFINE mapping == segment.memory_object
           end == Wrap(mapping.target_address + mapping.length)
           located == Locate(mapping.address, mapping.length, p, 0, length)
<1>1. /\ mapping.target_address \in Nat /\ mapping.address = mapping.target_address /\ mapping.length \in Nat
      /\ end \in Nat /\ end <= MaxWord /\ MaxWord \in Nat
  BY WindowNumbers, WordAssumption
<1>2. p >= mapping.target_address /\ p + length <= end BY DEF Reachable
<1>3. end = Wrap(mapping.address + mapping.length) BY <1>1
<1> HIDE DEF end
<1>4. /\ ~ (MaxWord - p < 0) /\ ~ (MaxWord - length < 0 + p) /\ ~ (0 + p < mapping.address)
      /\ ~ (end < 0 + p + length) /\ 0 + p = p
  BY <1>1, <1>2
<1>5. located = Ok(p) BY <1>3, <1>4 DEF Locate
<1>6. Wrap(p + 0) = p /\ Wrap(p) = p
  <2>1. p + 0 = p /\ p <= MaxWord BY <1>1, <1>2
  <2>2. QED BY <2>1, WrapBelow
<1>7. mapping.target_address + (Wrap(p + 0) - mapping.address) = p BY <1>1, <1>6
<1>8. QED
  BY <1>5, <1>6, <1>7
     DEF mk_memory_object_unmap_address, mk_memory_object_verify_local_pointer, Succeeded, Ok

LEMMA PlaceNumber ==
  ASSUME Opened, NEW table, table.range.location \in Nat, table.range.length \in Nat, NEW p \in Nat,
         Succeeded(PlaceOf(table, p))
  PROVE  PlaceOf(table, p).value \in Nat
<1> DEFINE mapping == segment.memory_object
           located == Locate(mapping.address, mapping.length, p, 0, 1)
           address == mk_memory_object_unmap_address(mapping, 0, p, 1)
           inside == mk_vm_range_contains_address(table.range, 0, address.value)
<1>1. mapping.target_address \in Nat /\ mapping.address = mapping.target_address /\ MaxWord \in Nat
  BY WindowNumbers, WordAssumption
<1>2. Succeeded(address) /\ Succeeded(inside) /\ PlaceOf(table, p) = Ok(address.value - table.range.location)
  BY DEF PlaceOf, Succeeded, Ok, Fails, mk_segment_get_mapping
<1>3. address.value \in Nat
  <2>1. address = Ok(Wrap(mapping.target_address + (Wrap(p + 0) - mapping.address)))
    BY <1>2 DEF mk_memory_object_unmap_address, mk_memory_object_verify_local_pointer
  <2>2. Wrap(p + 0) \in Int
    <3>1. Wrap(p + 0) \in Word BY WrapDivides
    <3>2. QED BY <3>1, WordAssumption DEF Word
  <2>3. Wrap(mapping.target_address + (Wrap(p + 0) - mapping.address)) \in Word BY <1>1, <2>2, WrapDivides
  <2>4. QED BY <2>1, <2>3, WordAssumption DEF Word, Ok
<1> HIDE DEF address
<1>4. address.value >= table.range.location
  BY <1>1, <1>2, <1>3
     DEF mk_vm_range_contains_address, mk_vm_address_apply_offset, Adds, Succeeded, Ok, Fails
<1>5. address.value - table.range.location \in Nat BY <1>3, <1>4
<1>6. QED BY <1>2, <1>5 DEF Ok

----------------------------------------------------------------------------
(* Parts.                                                                  *)

\* A part of the target, by its numbers, in another one.
Lies(range, outer) ==
  /\ range.location \in Nat /\ range.length \in Nat
  /\ range.location >= outer.location /\ range.location + range.length <= outer.location + outer.length
  /\ range.location + range.length <= MaxWord

LEMMA ContainedLies ==
  ASSUME NEW outer, outer.location \in Nat, outer.length \in Nat, NEW location \in Nat, NEW length \in Nat,
         Succeeded(mk_vm_range_contains_range(outer, mk_vm_range_make(location, length), FALSE))
  PROVE  Lies(mk_vm_range_make(location, length), outer)
<1> DEFINE inner == mk_vm_range_make(location, length)
<1>1. inner.location = location /\ inner.length = length BY DEF mk_vm_range_make
<1> HIDE DEF inner
<1>2. MaxWord \in Nat BY WordAssumption
<1>3. QED
  BY <1>1, <1>2 DEF mk_vm_range_contains_range, RangeOverflows, Succeeded, Ok, Fails, Lies, inner

\* The range of a table that is made lies in the segment, at its place.
TableStart(offset) == (Outer.location + offset) - mk_segment_get_fileoff(segment)

LEMMA TableLies ==
  ASSUME Opened, NEW offset \in Nat, NEW size \in Nat, Succeeded(TableRange(offset, size))
  PROVE  /\ Lies(TableRange(offset, size).value, Outer) /\ TableRange(offset, size).value.length = size
         /\ TableRange(offset, size).value.location = TableStart(offset)
<1> DEFINE fileoff == mk_segment_get_fileoff(segment)
           moved == mk_vm_address_apply_offset(Outer.location, offset)
           start == mk_vm_address_subtract(moved.value, fileoff)
           range == mk_vm_range_make(start.value, size)
           contained == mk_vm_range_contains_range(Outer, range, FALSE)
<1>1. Outer.location \in Nat /\ Outer.length \in Nat /\ fileoff \in Nat BY OuterNumbers
<1>2. TableRange(offset, size) =
        IF ~ Succeeded(moved) THEN moved ELSE IF ~ Succeeded(start) THEN start
        ELSE IF ~ Succeeded(contained) THEN contained ELSE Ok(range)
  BY DEF TableRange, Contained, Then, Outer
<1>3. /\ Succeeded(moved) /\ Succeeded(start) /\ Succeeded(contained)
      /\ TableRange(offset, size) = Ok(range)
  <2> HIDE DEF moved, start, contained, range
  <2>1. QED BY <1>2
<1>4. start.value \in Nat /\ start.value = TableStart(offset)
  <2>1. moved.value = Outer.location + offset
    BY <1>3 DEF mk_vm_address_apply_offset, Adds, Succeeded, Ok, Fails
  <2>2. ~ (fileoff > moved.value) /\ start.value = moved.value - fileoff
    BY <1>3 DEF mk_vm_address_subtract, Succeeded, Ok, Fails
  <2>3. TableStart(offset) = (Outer.location + offset) - fileoff BY DEF TableStart
  <2> HIDE DEF moved, start, fileoff
  <2>4. QED BY <1>1, <2>1, <2>2, <2>3
<1> HIDE DEF start
<1>5. Lies(range, Outer) BY <1>1, <1>3, <1>4, ContainedLies
<1>6. range.length = size /\ range.location = start.value BY DEF mk_vm_range_make
<1>7. TableRange(offset, size).value = range BY <1>3 DEF Ok
<1> HIDE DEF range
<1>8. QED BY <1>4, <1>5, <1>6, <1>7

\* A table that is made, and the entries it was made for.
IsTable(value) ==
  /\ value.command.vtable \in _mk_load_command_classes /\ Lies(value.range, Outer)
MadeFrom(value, class, id, field) ==
  /\ value.command.vtable = class
  /\ value.command.mach_load_command = mk_macho_last_command_type(image, id)
  /\ value.command.mach_load_command # NULL
  /\ value.range.location = TableStart(Value(value.command, field))
HasEntries(value, class, field, size) ==
  /\ value.command.vtable = class /\ Value(value.command, field) \in 0 .. UINT_MAX(4)
  /\ value.range.length = Value(value.command, field) * size

LEMMA TableMade ==
  ASSUME Opened, NEW command, command.vtable \in _mk_load_command_classes,
         NEW offset \in Nat, NEW size \in Nat, NEW made,
         made = TableFrom(TableRange(offset, size), command), Succeeded(made)
  PROVE  /\ IsTable(made.value) /\ made.value.range.length = size /\ made.value.command = command
         /\ made.value.range.location = TableStart(offset)
<1> DEFINE range == TableRange(offset, size)
<1>1. Succeeded(range) /\ made = Ok([range |-> range.value, command |-> command])
  BY DEF TableFrom, Then, Succeeded
<1>2. Lies(range.value, Outer) /\ range.value.length = size /\ range.value.location = TableStart(offset)
  BY <1>1, TableLies
<1> HIDE DEF range
<1>3. made.value.range = range.value /\ made.value.command = command BY <1>1 DEF Ok
<1>4. QED BY <1>2, <1>3 DEF IsTable

\* A command of the image, when there is one.
LEMMA CommandMade ==
  ASSUME NEW p, Succeeded(CommandAt(p))
  PROVE  /\ CommandAt(p).value.vtable \in _mk_load_command_classes
         /\ CommandAt(p).value.mach_load_command = p /\ p # NULL
<1>1. CommandAt(p) = mk_load_command_init(mem, image.header_mapping, p) /\ p # NULL
  BY DEF CommandAt, Succeeded, Fails
<1>2. QED BY <1>1, CommandClass

\* The number of a command that a class of tables reads.
LEMMA TableNumber ==
  ASSUME Known, NEW command, NEW f, ReadsField(command.vtable, f, 4)
  PROVE  Value(command, f) \in 0 .. UINT_MAX(4) /\ Value(command, f) \in Nat
<1>1. Value(command, f) \in 0 .. UINT_MAX(4) BY ValueIsFile DEF Known
<1>2. QED BY <1>1, WordBounds

LEMMA SymbolsMade ==
  ASSUME Opened, NEW made, made = mk_symbol_table_init_with_segment, Succeeded(made)
  PROVE  /\ IsTable(made.value)
         /\ HasEntries(made.value, mk_load_command_symtab, "nsyms", Sizeof(nlist_layout))
         /\ MadeFrom(made.value, mk_load_command_symtab, LC.SYMTAB, "symoff")
<1> DEFINE command == CommandAt(mk_macho_last_command_type(image, LC.SYMTAB))
           symtab == command.value
           count == Value(symtab, "nsyms")
           size == Sizeof(nlist_layout)
<1>1. /\ Succeeded(command) /\ IsA(symtab, mk_load_command_symtab)
      /\ made = TableFrom(TableRange(Value(symtab, "symoff"), Wrap(count * size)), symtab)
  <2> DEFINE dysymtab == mk_macho_find_command(image, LC.DYSYMTAB)
             second == CommandAt(dysymtab)
             from == IF dysymtab = NULL THEN mk_symbol_table_init(symtab, dysymtab)
                     ELSE IF Succeeded(second) THEN mk_symbol_table_init(symtab, dysymtab) ELSE second
  <2>1. made = IF Succeeded(command) THEN from ELSE command
    BY DEF mk_symbol_table_init_with_segment, Then
  <2>2. \E other : Succeeded(command) /\ made = mk_symbol_table_init(symtab, other)
    <3> HIDE DEF command, dysymtab, second, symtab
    <3>1. QED BY <2>1
  <2>3. PICK other : Succeeded(command) /\ made = mk_symbol_table_init(symtab, other) BY <2>2
  <2> DEFINE wrong == \/ ~IsA(symtab, mk_load_command_symtab)
                      \/ /\ other # NULL
                         /\ ~IsA(mk_load_command_init(mem, image.header_mapping, other).value,
                                 mk_load_command_dysymtab)
             table == TableFrom(TableRange(Value(symtab, "symoff"), Wrap(count * size)), symtab)
  <2>4. made = IF wrong THEN Fails("EINVAL")
               ELSE IF Value(symtab, "symoff") = 0 THEN Fails("ENOT_FOUND") ELSE table
    BY <2>3 DEF mk_symbol_table_init
  <2>5. wrong \/ IsA(symtab, mk_load_command_symtab) OBVIOUS
  <2> HIDE DEF command, dysymtab, second, from, symtab, wrong, table
  <2>6. ~ wrong /\ made = table BY <2>4 DEF Succeeded, Fails
  <2>7. QED BY <2>3, <2>5, <2>6 DEF table
<1> DEFINE last == mk_macho_last_command_type(image, LC.SYMTAB)
<1>2. symtab.vtable \in _mk_load_command_classes /\ symtab.mach_load_command = last /\ last # NULL
  BY <1>1, CommandMade
<1> HIDE DEF command, last
<1>3. symtab.vtable = mk_load_command_symtab BY <1>1, <1>2, ClassIs, ClassNames DEF IsA
<1>4. count \in 0 .. UINT_MAX(4) /\ Value(symtab, "symoff") \in Nat
  BY <1>3, TableFields, TableNumber DEF Opened
<1>5. size \in 0 .. 16 BY EntrySize
<1> HIDE DEF count, size, symtab
<1>6. Wrap(count * size) = count * size /\ count * size \in Nat BY <1>4, <1>5, CountsFit
<1>7. /\ IsTable(made.value) /\ made.value.range.length = count * size /\ made.value.command = symtab
      /\ made.value.range.location = TableStart(Value(symtab, "symoff"))
  BY <1>1, <1>2, <1>4, <1>6, TableMade
<1>8. QED BY <1>2, <1>3, <1>4, <1>7 DEF HasEntries, MadeFrom, count, size, last

LEMMA StringsMade ==
  ASSUME Opened, NEW made, made = mk_string_table_init_with_segment, Succeeded(made)
  PROVE  /\ IsTable(made.value)
         /\ MadeFrom(made.value, mk_load_command_symtab, LC.SYMTAB, "stroff")
         /\ made.value.range.length = Value(made.value.command, "strsize")
<1> DEFINE command == CommandAt(mk_macho_last_command_type(image, LC.SYMTAB))
           symtab == command.value
           table == TableFrom(TableRange(Value(symtab, "stroff"), Value(symtab, "strsize")), symtab)
<1>1. Succeeded(command) /\ IsA(symtab, mk_load_command_symtab) /\ made = table
  <2>1. made = IF Succeeded(command) THEN mk_string_table_init(symtab) ELSE command
    BY DEF mk_string_table_init_with_segment, Then
  <2>2. mk_string_table_init(symtab) =
          IF ~IsA(symtab, mk_load_command_symtab) THEN Fails("EINVAL")
          ELSE IF Value(symtab, "stroff") = 0 THEN Fails("ENOT_FOUND") ELSE table
    BY DEF mk_string_table_init
  <2> HIDE DEF command, symtab, table
  <2>3. QED BY <2>1, <2>2 DEF Succeeded, Fails
<1> DEFINE last == mk_macho_last_command_type(image, LC.SYMTAB)
<1>2. symtab.vtable \in _mk_load_command_classes /\ symtab.mach_load_command = last /\ last # NULL
  BY <1>1, CommandMade
<1> HIDE DEF command, last
<1>3. symtab.vtable = mk_load_command_symtab BY <1>1, <1>2, ClassIs, ClassNames DEF IsA
<1>4. Value(symtab, "stroff") \in Nat /\ Value(symtab, "strsize") \in Nat
  BY <1>3, TableFields, TableNumber DEF Opened
<1> HIDE DEF symtab
<1>5. /\ IsTable(made.value) /\ made.value.command = symtab
      /\ made.value.range.length = Value(symtab, "strsize")
      /\ made.value.range.location = TableStart(Value(symtab, "stroff"))
  BY <1>1, <1>2, <1>4, TableMade
<1>6. QED BY <1>2, <1>3, <1>5 DEF MadeFrom, last

LEMMA IndirectMade ==
  ASSUME Opened, NEW made, made = mk_indirect_symbol_table_init_with_segment, Succeeded(made)
  PROVE  /\ IsTable(made.value) /\ HasEntries(made.value, mk_load_command_dysymtab, "nindirectsyms", 4)
         /\ MadeFrom(made.value, mk_load_command_dysymtab, LC.DYSYMTAB, "indirectsymoff")
<1> DEFINE command == CommandAt(mk_macho_last_command_type(image, LC.DYSYMTAB))
           dysymtab == command.value
           count == Value(dysymtab, "nindirectsyms")
           table == TableFrom(TableRange(Value(dysymtab, "indirectsymoff"), Wrap(count * 4)), dysymtab)
<1>1. Succeeded(command) /\ IsA(dysymtab, mk_load_command_dysymtab) /\ made = table
  <2>1. made = IF Succeeded(command) THEN mk_indirect_symbol_table_init(dysymtab) ELSE command
    BY DEF mk_indirect_symbol_table_init_with_segment, Then
  <2>2. mk_indirect_symbol_table_init(dysymtab) =
          IF ~IsA(dysymtab, mk_load_command_dysymtab) THEN Fails("EINVAL")
          ELSE IF Value(dysymtab, "indirectsymoff") = 0 THEN Fails("ENOT_FOUND") ELSE table
    BY DEF mk_indirect_symbol_table_init
  <2> HIDE DEF command, dysymtab, table
  <2>3. QED BY <2>1, <2>2 DEF Succeeded, Fails
<1> DEFINE last == mk_macho_last_command_type(image, LC.DYSYMTAB)
<1>2. dysymtab.vtable \in _mk_load_command_classes /\ dysymtab.mach_load_command = last /\ last # NULL
  BY <1>1, CommandMade
<1> HIDE DEF command, last
<1>3. dysymtab.vtable = mk_load_command_dysymtab BY <1>1, <1>2, ClassIs, ClassNames DEF IsA
<1>4. count \in 0 .. UINT_MAX(4) /\ Value(dysymtab, "indirectsymoff") \in Nat
  BY <1>3, TableFields, TableNumber DEF Opened
<1> HIDE DEF count, dysymtab
<1>5. Wrap(count * 4) = count * 4 /\ count * 4 \in Nat
  <2>1. 4 \in 0 .. 16 OBVIOUS
  <2>2. QED BY <1>4, <2>1, CountsFit
<1>6. /\ IsTable(made.value) /\ made.value.range.length = count * 4 /\ made.value.command = dysymtab
      /\ made.value.range.location = TableStart(Value(dysymtab, "indirectsymoff"))
  BY <1>1, <1>2, <1>4, <1>5, TableMade
<1>7. QED BY <1>2, <1>3, <1>4, <1>6 DEF HasEntries, MadeFrom, count, last

LEMMA ExportsMade ==
  ASSUME Opened, NEW made, made = mk_exports_trie_init_with_segment, Succeeded(made)
  PROVE  IsTable(made.value)
<1>1. PICK p : made = Then(CommandAt(p), mk_exports_trie_init) BY DEF mk_exports_trie_init_with_segment
<1> DEFINE command == CommandAt(p)
           trie == command.value
           place == IF IsA(trie, mk_load_command_dyld_exports_trie)
                    THEN <<"dataoff", "datasize">> ELSE <<"export_off", "export_size">>
           table == TableFrom(TableRange(Value(trie, place[1]), Value(trie, place[2])), trie)
           names == {mk_load_command_dyld_exports_trie.name, mk_load_command_dyld_info.name,
                     mk_load_command_dyld_info_only.name}
<1>2. Succeeded(command) /\ trie.vtable.name \in names /\ made = table
  <2>1. made = IF Succeeded(command) THEN mk_exports_trie_init(trie) ELSE command
    BY <1>1 DEF Then
  <2>2. mk_exports_trie_init(trie) =
          IF trie.vtable.name \notin names THEN Fails("EINVAL")
          ELSE IF Value(trie, place[2]) = 0 THEN Fails("ENOT_FOUND") ELSE table
    BY DEF mk_exports_trie_init
  <2> HIDE DEF command, trie, place, table, names
  <2>3. QED BY <2>1, <2>2 DEF Succeeded, Fails
<1>3. trie.vtable \in _mk_load_command_classes BY <1>2, CommandMade
<1> HIDE DEF command
<1>4. Value(trie, place[1]) \in Nat /\ Value(trie, place[2]) \in Nat
  <2>1. CASE IsA(trie, mk_load_command_dyld_exports_trie)
    <3>1. trie.vtable = mk_load_command_dyld_exports_trie BY <1>3, <2>1, ClassIs, ClassNames DEF IsA
    <3>2. place[1] = "dataoff" /\ place[2] = "datasize" BY <2>1
    <3> HIDE DEF place, trie
    <3>3. QED BY <3>1, <3>2, TableFields, TableNumber DEF Opened
  <2>2. CASE ~ IsA(trie, mk_load_command_dyld_exports_trie)
    <3>1. trie.vtable \in {mk_load_command_dyld_info, mk_load_command_dyld_info_only}
      BY <1>2, <1>3, <2>2, ClassIs, ClassNames DEF IsA
    <3>2. place[1] = "export_off" /\ place[2] = "export_size" BY <2>2
    <3> HIDE DEF place, trie
    <3>3. QED BY <3>1, <3>2, TableFields, TableNumber DEF Opened
  <2>3. QED BY <2>1, <2>2
<1>5. QED BY <1>2, <1>3, <1>4, TableMade

\* A section that is set lies in what is mapped of its segment, and its numbers are the file's.
Window == mk_vm_range_make(segment.memory_object.target_address, segment.memory_object.length)
SectionSuits(value) ==
  value.set => Lies(mk_section_get_target_range(segment, value.command), Window)

LEMMA SectionNumber ==
  ASSUME Opened, NEW p, NEW f \in DOMAIN SectionClass(segment).reads
  PROVE  /\ section_getter(segment, p, f) = FileField(p, SectionClass(segment).layout, f)
         /\ section_getter(segment, p, f) \in Word
<1> DEFINE class == SectionClass(segment)
           command == [vtable |-> class, mach_load_command |-> p]
<1>1. ReadsSection(class) BY SectionFields DEF SectionClass
<1>2. command.vtable = class /\ command.mach_load_command = p OBVIOUS
<1>3. section_getter(segment, p, f) = Value(command, f) BY DEF section_getter, Value
<1> HIDE DEF class, command
<1>4. PICK width \in {4, 8} : ReadsField(class, f, width) BY <1>1 DEF ReadsSection, class
<1>5. /\ Value(command, f) = FileField(p, class.layout, f) /\ Value(command, f) \in 0 .. UINT_MAX(width)
  BY <1>2, <1>4, ValueIsFile DEF Opened, Known
<1>6. UINT_MAX(4) \in Nat /\ UINT_MAX(4) <= MaxWord /\ UINT_MAX(8) = MaxWord /\ MaxWord \in Nat
  <2>1. UINT_MAX(4) \in Nat BY WordBounds
  <2>2. UINT_MAX(4) \in 0 .. UINT_MAX(4) /\ 1 \in 0 .. 16 BY <2>1
  <2>3. UINT_MAX(4) * 1 <= MaxWord BY <2>2, WordBounds
  <2>4. QED BY <2>1, <2>3, WordBounds, WordAssumption
<1>7. QED BY <1>3, <1>4, <1>5, <1>6 DEF Word, class

LEMMA SectionMade ==
  ASSUME Opened, NEW p, NEW made, made = mk_section_init_wih_mach_section_command(segment, p),
         Succeeded(made)
  PROVE  SectionSuits(made.value)
<1>1. PICK q : made = mk_section_init(segment, q)
  BY DEF mk_section_init_wih_mach_section_command, Then, Succeeded
<1> DEFINE size == mk_section_get_size(segment, q)
           addr == mk_section_get_addr(segment, q)
           moved == mk_vm_address_apply_slide(addr, image.slide)
           within == mk_vm_range_contains_range(Window, mk_vm_range_make(moved.value, size), FALSE)
<1>2. made = IF ~Succeeded(moved) THEN moved
             ELSE IF Succeeded(within) THEN Ok([set |-> TRUE, command |-> q]) ELSE Ok(Unset)
  BY <1>1 DEF mk_section_init, mk_segment_get_mapping, Window
<1>3. addr \in Word /\ size \in Word
  <2>1. ReadsSection(SectionClass(segment)) BY SectionFields DEF SectionClass
  <2>2. "addr" \in DOMAIN SectionClass(segment).reads /\ "size" \in DOMAIN SectionClass(segment).reads
    BY <2>1 DEF ReadsSection
  <2>3. QED BY <2>2, SectionNumber DEF mk_section_get_addr, mk_section_get_size
<1>4. image.slide \in Slide BY DEF Opened, SegmentInv
<1> HIDE DEF addr, size
<1>5. SUFFICES ASSUME Succeeded(moved), Succeeded(within) PROVE SectionSuits(made.value)
  <2> HIDE DEF moved, within
  <2>1. Succeeded(moved) BY <1>2
  <2>2. ASSUME ~ Succeeded(within) PROVE SectionSuits(made.value)
    <3>1. made.value = Unset BY <1>2, <2>1, <2>2 DEF Ok
    <3>2. QED BY <3>1 DEF SectionSuits, Unset
  <2>3. QED BY <1>2, <2>1, <2>2
<1>6. moved.value = addr + image.slide /\ moved.value \in Word
      /\ Wrap(addr + image.slide) = addr + image.slide
  BY <1>3, <1>4, <1>5, MovedAddress
<1>7. Window.location \in Nat /\ Window.length \in Nat BY WindowNumbers DEF Window, mk_vm_range_make
<1>8. moved.value \in Nat /\ size \in Nat BY <1>3, <1>6, WordAssumption DEF Word
<1>9. Lies(mk_vm_range_make(moved.value, size), Window) BY <1>5, <1>7, <1>8, ContainedLies
<1>10. mk_section_get_target_range(segment, q) = mk_vm_range_make(moved.value, size)
  BY <1>6 DEF mk_section_get_target_range, addr, size
<1> HIDE DEF moved, within
<1>11. made.value = [set |-> TRUE, command |-> q] BY <1>2, <1>5 DEF Ok
<1>12. QED BY <1>9, <1>10, <1>11 DEF SectionSuits

----------------------------------------------------------------------------
(* Items.                                                                  *)

\* What a call has succeeded in making, while it is there.
PartSuits(made) ==
  /\ made.kind \in {"section", "symbols", "strings", "indirect", "exports"}
  /\ made.kind = "section" => SectionSuits(made.value)
  /\ made.kind # "section" => IsTable(made.value)
  /\ made.kind = "symbols" =>
       HasEntries(made.value, mk_load_command_symtab, "nsyms", Sizeof(nlist_layout))
  /\ made.kind = "indirect" => HasEntries(made.value, mk_load_command_dysymtab, "nindirectsyms", 4)

PartInv == part # None => segment # NoSegment /\ PartSuits(part)

\* An item is in its table, and can be read through the segment: a string up to the table's end.
RangeEnd == part.value.range.location + part.value.range.length
Reach(p) == IF part.kind = "strings" THEN RangeEnd - p ELSE ItemSize
ItemLies(p) ==
  /\ p \in Nat /\ Reachable(p, Reach(p))
  /\ p >= part.value.range.location /\ p + ItemSize <= RangeEnd

\* The items so far; the pointer to an indirect symbol is the one its number gives.
SeenInv ==
  part # None =>
    /\ part.kind \in {"section", "exports"} => seen = <<>>
    /\ seen \in Seq(Nat) /\ \A i \in DOMAIN seen : ItemLies(seen[i])
    /\ item = IF seen = <<>> THEN NULL ELSE seen[Len(seen)]
    /\ part.kind = "indirect" /\ seen # <<>> =>
         /\ Len(seen) <= mk_indirect_symbol_table_get_entry_count(part.value)
         /\ item = EntryAt(part.value, Len(seen) - 1)

LEMMA EntryFits ==
  ASSUME Opened, NEW value, IsTable(value), NEW class, NEW f, NEW size \in 1 .. 16,
         HasEntries(value, class, f, size), NEW index \in Nat, index < Value(value.command, f),
         NEW address, address = mk_vm_address_apply_offset(value.range.location, Wrap(index * size)),
         Succeeded(address), Remapped(address.value, size) # NULL
  PROVE  LET p == Remapped(address.value, size)
         IN  /\ p \in Nat /\ Reachable(p, size) /\ p >= value.range.location
             /\ p + size <= value.range.location + value.range.length
<1> DEFINE count == Value(value.command, f)
           location == value.range.location
<1>1. count \in 0 .. UINT_MAX(4) /\ count \in Nat /\ value.range.length = count * size
  BY WordBounds DEF HasEntries
<1>2. location \in Nat BY DEF IsTable, Lies
<1>3. index \in 0 .. UINT_MAX(4) /\ size \in 0 .. 16 BY <1>1, WordBounds
<1>4. Wrap(index * size) = index * size /\ index * size \in Nat BY <1>3, CountsFit
<1>5. address.value = location + index * size
  BY <1>4 DEF mk_vm_address_apply_offset, Adds, Succeeded, Ok, Fails
<1> HIDE DEF count, location
<1>6. address.value \in Nat BY <1>2, <1>4, <1>5
<1>7. Remapped(address.value, size) = address.value /\ Reachable(address.value, size)
  BY <1>6, RemappedIs
<1>8. index * size + size <= count * size
  <2>1. \A x, y, z \in Nat : x < y => x * z + z <= y * z
    <3>1. SUFFICES ASSUME NEW x \in Nat, NEW y \in Nat, NEW z \in Nat, x < y PROVE x * z + z <= y * z
      OBVIOUS
    <3>2. y - x - 1 \in Nat BY <3>1
    <3>3. (y - x - 1) * z \in Nat /\ (y - x - 1) * z = y * z - x * z - z BY <3>2
    <3>4. QED BY <3>3
  <2>2. index < count /\ size \in Nat BY DEF count
  <2>3. QED BY <1>1, <2>1, <2>2
<1>9. count * size \in Nat BY <1>1
<1>10. QED BY <1>1, <1>2, <1>4, <1>5, <1>6, <1>7, <1>8, <1>9 DEF location

\* A zero is looked for in the bytes that are there.
LEMMA ZeroFound ==
  ASSUME NEW bytes \in Seq(Nat)
  PROVE  /\ BeforeZero(bytes) \in Seq(Nat) /\ Len(BeforeZero(bytes)) \in 0 .. Len(bytes)
         /\ \A i \in 1 .. Len(BeforeZero(bytes)) : BeforeZero(bytes)[i] = bytes[i]
<1> DEFINE zero == SelectInSeq(bytes, LAMBDA byte : byte = 0)
           places == {i \in 1 .. Len(bytes) : bytes[i] = 0}
<1>1. zero = 0 \/ zero \in 1 .. Len(bytes)
  <2>1. zero = IF places = {} THEN 0 ELSE CHOOSE i \in places : \A j \in places : i <= j
    BY DEF SelectInSeq, Min
  <2>2. CASE places = {} BY <2>1, <2>2
  <2>3. CASE places # {}
    <3>1. places \in SUBSET Nat OBVIOUS
    <3> HIDE DEF places
    <3>2. \E i \in places : \A j \in places : i <= j BY <2>3, <3>1, LeastNatural
    <3>3. zero \in places BY <2>1, <2>3, <3>2
    <3>4. QED BY <3>3 DEF places
  <2>4. QED BY <2>2, <2>3
<1>2. BeforeZero(bytes) = IF zero = 0 THEN bytes ELSE SubSeq(bytes, 1, zero - 1) BY DEF BeforeZero
<1> HIDE DEF zero
<1>3. CASE zero = 0 BY <1>2, <1>3
<1>4. CASE zero \in 1 .. Len(bytes)
  <2>1. zero - 1 \in 0 .. Len(bytes) /\ zero # 0 BY <1>4
  <2>2. /\ SubSeq(bytes, 1, zero - 1) \in Seq(Nat) /\ Len(SubSeq(bytes, 1, zero - 1)) = zero - 1
        /\ \A i \in 1 .. zero - 1 : SubSeq(bytes, 1, zero - 1)[i] = bytes[i]
    BY <1>4, <2>1
  <2>3. QED BY <1>2, <2>1, <2>2
<1>5. QED BY <1>1, <1>3, <1>4

LEMMA LengthNumber ==
  ASSUME file \in Files, NEW p, NEW most \in Nat
  PROVE  strnlen(mem, p, most) \in 0 .. most
<1>1. mem.bytes \in Seq(Byte) BY ImageAssumption DEF mem
<1>2. Peek(mem, p, most) \in Seq(Nat) /\ Len(Peek(mem, p, most)) = most BY <1>1, PeekType
<1>3. QED BY <1>2, ZeroFound DEF strnlen

\* The string at an offset.
LEMMA StringFits ==
  ASSUME Opened, NEW table, IsTable(table), NEW offset \in Nat,
         NEW p, p = mk_string_table_get_string_at_offset(table, offset), p # NULL
  PROVE  /\ p = table.range.location + offset /\ offset < table.range.length
         /\ p \in Nat /\ Reachable(p, (table.range.location + table.range.length) - p)
<1> DEFINE location == table.range.location
           length == table.range.length
           address == mk_vm_address_apply_offset(location, offset)
           inside == mk_vm_range_contains_address(table.range, 0, address.value)
<1>1. location \in Nat /\ length \in Nat /\ location + length <= MaxWord /\ MaxWord \in Nat
  BY WordAssumption DEF IsTable, Lies
<1>2. /\ Succeeded(address) /\ Succeeded(inside)
      /\ mk_string_table_get_string_at_offset(table, offset) = Remapped(address.value, length - offset)
  BY DEF mk_string_table_get_string_at_offset
<1>3. address.value = location + offset
  BY <1>2 DEF mk_vm_address_apply_offset, Adds, Succeeded, Ok, Fails
<1> HIDE DEF address
<1>4. ~ (address.value + 0 >= location + length)
  BY <1>2 DEF mk_vm_range_contains_address, mk_vm_address_apply_offset, Adds, Succeeded, Ok, Fails
<1> HIDE DEF location, length
<1>5. address.value \in Nat /\ offset < length /\ length - offset \in Nat \ {0}
  BY <1>1, <1>3, <1>4
<1>6. Remapped(address.value, length - offset) = address.value /\ Reachable(address.value, length - offset)
  BY <1>2, <1>5, RemappedIs
<1>7. (location + length) - address.value = length - offset BY <1>1, <1>3
<1>8. p = location + offset /\ p = address.value BY <1>2, <1>3, <1>6
<1>9. Reachable(p, (location + length) - p) BY <1>6, <1>7, <1>8
<1>10. QED BY <1>5, <1>8, <1>9 DEF location, length

\* The place of a pointer that is in a table.
LEMMA PlaceInside ==
  ASSUME Opened, NEW table, IsTable(table), NEW p \in Nat, Succeeded(PlaceOf(table, p))
  PROVE  PlaceOf(table, p).value \in Nat /\ PlaceOf(table, p).value < table.range.length
<1> DEFINE address == mk_memory_object_unmap_address(mk_segment_get_mapping(segment), 0, p, 1)
           inside == mk_vm_range_contains_address(table.range, 0, address.value)
           location == table.range.location
<1>1. location \in Nat /\ table.range.length \in Nat BY DEF IsTable, Lies
<1>2. Succeeded(inside) /\ PlaceOf(table, p) = Ok(address.value - location)
  BY DEF PlaceOf, Succeeded, Fails
<1>3. PlaceOf(table, p).value \in Nat BY <1>1, PlaceNumber
<1>4. PlaceOf(table, p).value = address.value - location BY <1>2 DEF Ok
<1> HIDE DEF address
<1>5. ~ (address.value + 0 >= location + table.range.length)
  BY <1>2 DEF mk_vm_range_contains_address, mk_vm_address_apply_offset, Adds, Succeeded, Ok, Fails
<1> DEFINE a == address.value
           n == PlaceOf(table, p).value
<1>6. a \in Int
  <2>1. mk_memory_object_unmap_address(segment.memory_object, 0, p, 1).value \in Int
    <3> DEFINE mapping == segment.memory_object
               located == Locate(mapping.address, mapping.length, p, 0, 1)
               found == mk_memory_object_unmap_address(mapping, 0, p, 1)
    <3>1. Succeeded(found)
      BY DEF PlaceOf, Succeeded, Ok, Fails, mk_segment_get_mapping
    <3>2. found = Ok(Wrap(mapping.target_address + (Wrap(p + 0) - mapping.address)))
      BY <3>1 DEF mk_memory_object_unmap_address, mk_memory_object_verify_local_pointer
    <3>3. Wrap(p + 0) \in Int
      <4>1. Wrap(p + 0) \in Word BY WrapDivides
      <4>2. QED BY <4>1, WordAssumption DEF Word
    <3>4. mapping.target_address \in Nat /\ mapping.address = mapping.target_address BY WindowNumbers
    <3>5. Wrap(mapping.target_address + (Wrap(p + 0) - mapping.address)) \in Word BY <3>3, <3>4, WrapDivides
    <3>6. QED BY <3>2, <3>5, WordAssumption DEF Word, Ok
  <2>2. QED BY <2>1 DEF address, mk_segment_get_mapping
<1>7. n = a - location /\ ~ (a + 0 >= location + table.range.length) BY <1>4, <1>5
<1> HIDE DEF a, n
<1>8. n < table.range.length BY <1>1, <1>6, <1>7
<1>9. QED BY <1>3, <1>8 DEF n

\* What is read next fits, unless it is an indirect symbol that is not mapped.
LEMMA NextFits ==
  ASSUME Opened, PartInv, SeenInv, part # None, NextItem # NULL, ~ NextUnmapped
  PROVE  /\ part.kind \in {"symbols", "strings", "indirect"} /\ ItemLies(NextItem)
         /\ part.kind = "indirect" =>
              /\ Len(seen) < mk_indirect_symbol_table_get_entry_count(part.value)
              /\ NextItem = EntryAt(part.value, Len(seen))
<1> DEFINE value == part.value
<1>1. /\ part.kind \in {"section", "symbols", "strings", "indirect", "exports"}
      /\ part.kind # "section" => IsTable(value)
      /\ part.kind = "symbols" => HasEntries(value, mk_load_command_symtab, "nsyms", Sizeof(nlist_layout))
      /\ part.kind = "indirect" => HasEntries(value, mk_load_command_dysymtab, "nindirectsyms", 4)
  BY DEF PartInv, PartSuits
<1>2. seen \in Seq(Nat) /\ Len(seen) \in Nat /\ item \in Nat
  <2>1. seen \in Seq(Nat) /\ item = IF seen = <<>> THEN NULL ELSE seen[Len(seen)]
    BY DEF SeenInv
  <2>2. seen # <<>> => Len(seen) \in 1 .. Len(seen)
    <3>1. seen \in Seq(Nat) BY <2>1
    <3>2. seen # <<>> => Len(seen) # 0 BY <3>1, EmptySeq
    <3>3. QED BY <3>1, <3>2
  <2>3. \A i \in 1 .. Len(seen) : seen[i] \in Nat BY <2>1
  <2>4. QED BY <2>1, <2>2, <2>3 DEF NULL
<1>3. part.kind \in {"symbols", "strings", "indirect"} BY <1>1 DEF NextItem
<1>4. CASE part.kind = "symbols"
  <2> DEFINE size == Sizeof(nlist_layout)
  <2>1. NextItem = mk_symbol_table_next_mach_symbol(value, item) BY <1>4 DEF NextItem
  <2>2. PICK index \in Nat : NextItem = mk_symbol_table_get_mach_symbol_at_index(value, index)
    <3> DEFINE place == PlaceOf(value, item)
    <3>1. CASE item = NULL BY <2>1, <3>1 DEF mk_symbol_table_next_mach_symbol
    <3>2. CASE item # NULL
      <4>1. /\ Succeeded(place)
            /\ NextItem = mk_symbol_table_get_mach_symbol_at_index(value, place.value \div size + 1)
        BY <2>1, <3>2 DEF mk_symbol_table_next_mach_symbol
      <4>2. place.value \in Nat BY <1>1, <1>2, <1>4, <4>1, PlaceInside
      <4>3. size \in Nat \ {0} BY EntrySize
      <4> HIDE DEF place, size
      <4>4. place.value \div size + 1 \in Nat BY <4>2, <4>3
      <4>5. QED BY <4>1, <4>4 DEF size
    <3>3. QED BY <3>1, <3>2
  <2> DEFINE address == mk_vm_address_apply_offset(value.range.location, Wrap(index * size))
  <2>3. ~ (index >= Value(value.command, "nsyms")) /\ Succeeded(address)
        /\ NextItem = Remapped(address.value, size)
    BY <2>2 DEF mk_symbol_table_get_mach_symbol_at_index, mk_symbol_table_get_symbol_count
  <2>4. Value(value.command, "nsyms") \in Nat /\ size \in 1 .. 16
    BY <1>1, <1>4, EntrySize, WordBounds DEF HasEntries
  <2>5. index < Value(value.command, "nsyms") BY <2>3, <2>4
  <2> HIDE DEF address
  <2>6. /\ NextItem \in Nat /\ Reachable(NextItem, size) /\ NextItem >= value.range.location
        /\ NextItem + size <= value.range.location + value.range.length
    BY <1>1, <1>4, <2>3, <2>4, <2>5, EntryFits DEF address
  <2>7. QED BY <1>3, <1>4, <2>6 DEF ItemLies, Reach, ItemSize, RangeEnd
<1>5. CASE part.kind = "strings"
  <2>1. NextItem = mk_string_table_next_string(value, item) BY <1>5 DEF NextItem
  <2>2. PICK offset \in Nat : NextItem = mk_string_table_get_string_at_offset(value, offset)
    <3> DEFINE place == PlaceOf(value, item)
               most == value.range.length - place.value
               length == strnlen(mem, item, most)
               offset == (place.value + length + 1) % (UINT_MAX(4) + 1)
    <3>1. CASE item = NULL BY <2>1, <3>1 DEF mk_string_table_next_string
    <3>2. CASE item # NULL
      <4>1. Succeeded(place) /\ NextItem = mk_string_table_get_string_at_offset(value, offset)
        BY <2>1, <3>2 DEF mk_string_table_next_string
      <4>2. place.value \in Nat /\ place.value < value.range.length /\ value.range.length \in Nat
        BY <1>1, <1>2, <1>5, <4>1, PlaceInside DEF IsTable, Lies
      <4> HIDE DEF place
      <4>3. most \in Nat BY <4>2
      <4> HIDE DEF most
      <4>4. length \in Nat BY <4>3, LengthNumber DEF Opened, Known
      <4> HIDE DEF length
      <4>5. UINT_MAX(4) + 1 \in Nat \ {0} BY WordBounds
      <4>6. offset \in Nat BY <4>2, <4>4, <4>5
      <4>7. QED BY <4>1, <4>6
    <3>3. QED BY <3>1, <3>2
  <2> DEFINE p == NextItem
             end == value.range.location + value.range.length
  <2>3. IsTable(value) BY <1>1, <1>5
  <2>4. /\ p = value.range.location + offset /\ offset < value.range.length
        /\ p \in Nat /\ Reachable(p, end - p)
    <3>1. p = mk_string_table_get_string_at_offset(value, offset) /\ p # NULL BY <2>2
    <3> HIDE DEF p, value
    <3>2. offset \in Nat BY <2>2
    <3>3. QED BY <2>3, <3>1, <3>2, StringFits
  <2>5. value.range.location \in Nat /\ value.range.length \in Nat BY <2>3 DEF IsTable, Lies
  <2> HIDE DEF p
  <2>6. p >= value.range.location /\ p + 1 <= end BY <2>4, <2>5
  <2>7. QED BY <1>3, <1>5, <2>4, <2>6 DEF ItemLies, Reach, ItemSize, RangeEnd, p
<1>6. CASE part.kind = "indirect"
  <2> DEFINE count == mk_indirect_symbol_table_get_entry_count(value)
             index == Len(seen)
             address == mk_vm_address_apply_offset(value.range.location, Wrap(index * 4))
  <2>1. index < count /\ NextItem = EntryAt(value, index) BY <1>6 DEF NextItem
  <2>2. /\ Succeeded(address) /\ Remapped(address.value, 4) # NULL
        /\ NextItem = Remapped(address.value, 4)
    BY <1>6, <2>1 DEF EntryAt, NextUnmapped
  <2>3. count = Value(value.command, "nindirectsyms") BY DEF mk_indirect_symbol_table_get_entry_count
  <2>4. index \in Nat /\ 4 \in 1 .. 16 BY <1>2
  <2> HIDE DEF address, index
  <2>5. /\ NextItem \in Nat /\ Reachable(NextItem, 4) /\ NextItem >= value.range.location
        /\ NextItem + 4 <= value.range.location + value.range.length
    BY <1>1, <1>6, <2>1, <2>2, <2>3, <2>4, EntryFits DEF address
  <2>6. QED BY <1>3, <1>6, <2>1, <2>5 DEF ItemLies, Reach, ItemSize, RangeEnd, index
<1>7. QED BY <1>3, <1>4, <1>5, <1>6

----------------------------------------------------------------------------
(* The steps of the client.                                                *)

LinkInv == Known /\ SegmentInv /\ PartInv /\ SeenInv

\* What is read of the target while a segment is open.
LEMMA TargetStays ==
  ASSUME UNCHANGED <<cpu, file, image, segment>>
  PROVE  /\ mem' = mem /\ Outer' = Outer /\ Window' = Window /\ nlist_layout' = nlist_layout
         /\ \A command, f : Value(command, f)' = Value(command, f)
         /\ \A p : mk_section_get_target_range(segment, p)' = mk_section_get_target_range(segment, p)
         /\ \A address, length : Remapped(address, length)' = Remapped(address, length)
<1>1. mem' = mem BY SameMemory
<1>2. nlist_layout' = nlist_layout
  BY <1>1 DEF nlist_layout, mk_macho_is_64_bit, HeaderField
<1>3. \A command, f : Value(command, f)' = Value(command, f) BY <1>1 DEF Value
<1>4. Outer' = Outer
  BY <1>1 DEF Outer, mk_segment_get_target_range, mk_segment_get_vmaddr, mk_segment_get_vmsize,
              segment_getter
<1>5. Window' = Window BY DEF Window
<1>6. \A p : mk_section_get_target_range(segment, p)' = mk_section_get_target_range(segment, p)
  BY <1>1 DEF mk_section_get_target_range, mk_section_get_addr, mk_section_get_size, section_getter
<1>7. \A address, length : Remapped(address, length)' = Remapped(address, length)
  BY DEF Remapped, mk_segment_get_mapping
<1>8. QED BY <1>1, <1>2, <1>3, <1>4, <1>5, <1>6, <1>7

LEMMA PartKept ==
  ASSUME UNCHANGED <<cpu, file, image, segment>>, segment # NoSegment,
         part' # None => PartSuits(part')
  PROVE  PartInv'
<1>1. SUFFICES ASSUME part' # None PROVE PartSuits(part)' BY DEF PartInv
<1>2. PartSuits(part') BY <1>1
<1>3. SectionSuits(part'.value) => SectionSuits(part.value)' BY TargetStays DEF SectionSuits
<1>4. IsTable(part'.value) => IsTable(part.value)' BY TargetStays DEF IsTable
<1>5. HasEntries(part'.value, mk_load_command_symtab, "nsyms", Sizeof(nlist_layout)) =>
        HasEntries(part.value, mk_load_command_symtab, "nsyms", Sizeof(nlist_layout))'
  BY TargetStays DEF HasEntries
<1>6. HasEntries(part'.value, mk_load_command_dysymtab, "nindirectsyms", 4) =>
        HasEntries(part.value, mk_load_command_dysymtab, "nindirectsyms", 4)'
  BY TargetStays DEF HasEntries
<1>7. QED BY <1>2, <1>3, <1>4, <1>5, <1>6 DEF PartSuits

LEMMA KnownStays == ASSUME Known, UNCHANGED <<cpu, file, pc, call, image, low>> PROVE Known'
BY DEF Known, Mapped

LEMMA SegmentStays == ASSUME SegmentInv, UNCHANGED <<file, image, segment>> PROVE SegmentInv'
<1>1. Pages' = Pages BY DEF Pages
<1>2. QED BY <1>1 DEF SegmentInv, Backed

\* A part that is made, or not.
LEMMA PartInitialised ==
  ASSUME LinkInv, NEW kind, NEW made, InitPart(kind, made),
         Succeeded(made) => PartSuits([kind |-> kind, value |-> made.value])
  PROVE  LinkInv'
<1>1. /\ segment # NoSegment
      /\ part' = IF Succeeded(made) THEN [kind |-> kind, value |-> made.value] ELSE None
      /\ item' = NULL /\ seen' = <<>>
      /\ UNCHANGED <<cpu, file, pc, call, image, low, segment>>
  BY DEF InitPart
<1>2. Known' /\ SegmentInv' BY <1>1, KnownStays, SegmentStays DEF LinkInv
<1>3. PartInv' BY <1>1, PartKept
<1>4. SeenInv' BY <1>1 DEF SeenInv
<1>5. QED BY <1>2, <1>3, <1>4 DEF LinkInv

LEMMA ItemRead == ASSUME LinkInv, ReadItem PROVE LinkInv'
<1> DEFINE next == NextItem
<1>1. /\ part # None /\ next # NULL /\ ~ NextUnmapped /\ item' = next /\ seen' = Append(seen, next)
      /\ UNCHANGED <<cpu, file, pc, call, image, low, segment, part>>
  BY DEF ReadItem, vars
<1>2. Opened /\ PartInv /\ SeenInv BY <1>1 DEF LinkInv, Opened, PartInv
<1>3. Known' /\ SegmentInv' /\ PartInv'
  <2>1. Known' /\ SegmentInv' BY <1>1, KnownStays, SegmentStays DEF LinkInv
  <2>2. segment # NoSegment /\ PartSuits(part') BY <1>1, <1>2 DEF PartInv
  <2>3. QED BY <1>1, <2>1, <2>2, PartKept
<1>4. /\ part.kind \in {"symbols", "strings", "indirect"} /\ ItemLies(next)
      /\ part.kind = "indirect" =>
           /\ Len(seen) < mk_indirect_symbol_table_get_entry_count(part.value)
           /\ next = EntryAt(part.value, Len(seen))
  BY <1>1, <1>2, NextFits
<1>5. seen \in Seq(Nat) /\ \A i \in DOMAIN seen : ItemLies(seen[i]) BY <1>1, <1>2 DEF SeenInv
<1> HIDE DEF next
<1>6. \A p : ItemLies(p) => p \in Nat /\ ItemLies(p)'
  <2>1. RangeEnd' = RangeEnd BY <1>1 DEF RangeEnd
  <2>2. ItemSize' = ItemSize BY <1>1, TargetStays DEF ItemSize
  <2>3. \A p : Reach(p)' = Reach(p) BY <1>1, <2>1, <2>2 DEF Reach
  <2>4. \A p, n : Reachable(p, n)' <=> Reachable(p, n) BY <1>1 DEF Reachable
  <2>5. QED BY <1>1, <2>1, <2>2, <2>3, <2>4 DEF ItemLies
<1>7. next \in Nat BY <1>4, <1>6
<1>8. /\ seen' \in Seq(Nat) /\ Len(seen') = Len(seen) + 1 /\ Len(seen) \in Nat
      /\ seen'[Len(seen')] = next /\ seen' # <<>>
      /\ \A i \in DOMAIN seen' : (i \in DOMAIN seen /\ seen'[i] = seen[i]) \/ seen'[i] = next
  BY <1>1, <1>5, <1>7
<1>9. \A i \in DOMAIN seen' : ItemLies(seen'[i]) BY <1>4, <1>5, <1>8
<1>10. \A p : mk_indirect_symbol_table_get_entry_count(p)' = mk_indirect_symbol_table_get_entry_count(p)
  BY <1>1, TargetStays DEF mk_indirect_symbol_table_get_entry_count
<1>11. \A p, i : EntryAt(p, i)' = EntryAt(p, i) BY <1>1, TargetStays DEF EntryAt
<1>12. Len(seen') - 1 = Len(seen) /\ (part.kind = "indirect" =>
         Len(seen') <= mk_indirect_symbol_table_get_entry_count(part.value))
  <2>1. SUFFICES ASSUME part.kind = "indirect"
                 PROVE  Len(seen') <= mk_indirect_symbol_table_get_entry_count(part.value)
    BY <1>8
  <2>2. HasEntries(part.value, mk_load_command_dysymtab, "nindirectsyms", 4)
    BY <1>1, <1>2, <2>1 DEF PartInv, PartSuits
  <2>3. mk_indirect_symbol_table_get_entry_count(part.value) \in Nat
    BY <2>2, WordBounds DEF HasEntries, mk_indirect_symbol_table_get_entry_count
  <2>4. QED BY <1>4, <1>8, <2>1, <2>3
<1>13. SeenInv'
  <2>1. part' = part BY <1>1
  <2>2. \A i \in DOMAIN seen' : ItemLies(seen[i])' BY <1>6, <1>9
  <2>3. ~ (part.kind \in {"section", "exports"}) BY <1>4
  <2>4. (\A i \in DOMAIN seen : ItemLies(seen[i]))' BY <2>2
  <2>5. item' = seen'[Len(seen')] BY <1>1, <1>8
  <2>6. (part.kind = "indirect" =>
           /\ Len(seen) <= mk_indirect_symbol_table_get_entry_count(part.value)
           /\ item = EntryAt(part.value, Len(seen) - 1))'
    BY <1>1, <1>4, <1>10, <1>11, <1>12
  <2>7. QED BY <1>8, <2>1, <2>3, <2>4, <2>5, <2>6 DEF SeenInv
<1>14. QED BY <1>3, <1>13 DEF LinkInv

LEMMA LinkInit == LinkEditInit => LinkInv
<1> SUFFICES ASSUME LinkEditInit PROVE LinkInv OBVIOUS
<1>1. Init /\ segment = NoSegment /\ part = None BY DEF LinkEditInit
<1>2. QED BY <1>1, KnownInit DEF LinkInv, SegmentInv, PartInv, SeenInv

LEMMA LinkStep == LinkInv /\ [LinkEditNext]_allVars => LinkInv'
<1>1. SUFFICES ASSUME LinkInv, [LinkEditNext]_allVars PROVE LinkInv' OBVIOUS
<1>2. Known /\ SegmentInv /\ PartInv /\ SeenInv BY <1>1 DEF LinkInv
<1>3. ASSUME part' = None PROVE PartInv' /\ SeenInv' BY <1>3 DEF PartInv, SeenInv
<1>4. segment = NoSegment => part = None BY <1>2 DEF PartInv
<1>5. CASE ImageNext
  <2>1. segment = NoSegment /\ Next /\ UNCHANGED segmentVars BY <1>5 DEF ImageNext
  <2>2. segment' = NoSegment /\ part' = None BY <1>4, <2>1 DEF segmentVars
  <2>3. Known' BY <1>2, <2>1, KnownStep
  <2>4. SegmentInv' BY <2>2 DEF SegmentInv
  <2>5. QED BY <1>3, <2>2, <2>3, <2>4 DEF LinkInv
<1>6. CASE InitSegment
  <2>1. segment = NoSegment /\ UNCHANGED <<cpu, file, pc, call, image, low, part>> BY <1>6 DEF InitSegment
  <2>2. part' = None BY <1>4, <2>1
  <2>3. Known' /\ SegmentInv' BY <1>2, <1>6, <2>1, KnownStays, OpensSegment
  <2>4. QED BY <1>3, <2>2, <2>3 DEF LinkInv
<1>7. CASE mk_segment_free
  <2>1. part = None /\ segment' = NoSegment /\ UNCHANGED <<cpu, file, pc, call, image, low, part>>
    BY <1>7 DEF mk_segment_free, vars
  <2>2. part' = None BY <2>1
  <2>3. Known' /\ SegmentInv' BY <1>2, <2>1, KnownStays DEF SegmentInv
  <2>4. QED BY <1>3, <2>2, <2>3 DEF LinkInv
<1>8. ASSUME NEW kind, NEW value, kind \in {"section", "symbols", "strings", "indirect", "exports"},
             kind = "section" => SectionSuits(value), kind # "section" => IsTable(value),
             kind = "symbols" => HasEntries(value, mk_load_command_symtab, "nsyms", Sizeof(nlist_layout)),
             kind = "indirect" => HasEntries(value, mk_load_command_dysymtab, "nindirectsyms", 4)
      PROVE  PartSuits([kind |-> kind, value |-> value])
  BY <1>8 DEF PartSuits
<1>9. ASSUME segment # NoSegment PROVE Opened BY <1>2, <1>9 DEF Opened
<1>10. CASE InitSection
  <2>1. PICK p \in SectionPointers :
          InitPart("section", mk_section_init_wih_mach_section_command(segment, p))
    BY <1>10 DEF InitSection
  <2> DEFINE made == mk_section_init_wih_mach_section_command(segment, p)
  <2>2. Opened BY <1>9, <1>10 DEF InitSection
  <2>3. Succeeded(made) => SectionSuits(made.value) BY <2>2, SectionMade
  <2> HIDE DEF made
  <2>4. Succeeded(made) => PartSuits([kind |-> "section", value |-> made.value]) BY <1>8, <2>3
  <2>5. InitPart("section", made) BY <2>1 DEF made
  <2>6. QED BY <1>1, <2>4, <2>5, PartInitialised
<1>11. CASE InitSymbols
  <2> DEFINE made == mk_symbol_table_init_with_segment
  <2>1. InitPart("symbols", made) BY <1>11 DEF InitSymbols
  <2>2. Opened BY <1>9, <2>1 DEF InitPart
  <2>3. Succeeded(made) =>
          /\ IsTable(made.value)
          /\ HasEntries(made.value, mk_load_command_symtab, "nsyms", Sizeof(nlist_layout))
    BY <2>2, SymbolsMade
  <2> HIDE DEF made
  <2>4. Succeeded(made) => PartSuits([kind |-> "symbols", value |-> made.value]) BY <1>8, <2>3
  <2>5. QED BY <1>1, <2>1, <2>4, PartInitialised
<1>12. CASE InitStrings
  <2> DEFINE made == mk_string_table_init_with_segment
  <2>1. InitPart("strings", made) BY <1>12 DEF InitStrings
  <2>2. Opened BY <1>9, <2>1 DEF InitPart
  <2>3. Succeeded(made) => IsTable(made.value) BY <2>2, StringsMade
  <2> HIDE DEF made
  <2>4. Succeeded(made) => PartSuits([kind |-> "strings", value |-> made.value]) BY <1>8, <2>3
  <2>5. QED BY <1>1, <2>1, <2>4, PartInitialised
<1>13. CASE InitIndirect
  <2> DEFINE made == mk_indirect_symbol_table_init_with_segment
  <2>1. InitPart("indirect", made) BY <1>13 DEF InitIndirect
  <2>2. Opened BY <1>9, <2>1 DEF InitPart
  <2>3. Succeeded(made) =>
          IsTable(made.value) /\ HasEntries(made.value, mk_load_command_dysymtab, "nindirectsyms", 4)
    BY <2>2, IndirectMade
  <2> HIDE DEF made
  <2>4. Succeeded(made) => PartSuits([kind |-> "indirect", value |-> made.value]) BY <1>8, <2>3
  <2>5. QED BY <1>1, <2>1, <2>4, PartInitialised
<1>14. CASE InitExports
  <2> DEFINE made == mk_exports_trie_init_with_segment
  <2>1. InitPart("exports", made) BY <1>14 DEF InitExports
  <2>2. Opened BY <1>9, <2>1 DEF InitPart
  <2>3. Succeeded(made) => IsTable(made.value) BY <2>2, ExportsMade
  <2> HIDE DEF made
  <2>4. Succeeded(made) => PartSuits([kind |-> "exports", value |-> made.value]) BY <1>8, <2>3
  <2>5. QED BY <1>1, <2>1, <2>4, PartInitialised
<1>15. CASE FreePart
  <2>1. part' = None /\ UNCHANGED <<cpu, file, pc, call, image, low, segment>>
    BY <1>15 DEF FreePart, vars
  <2>2. Known' /\ SegmentInv' BY <1>2, <2>1, KnownStays, SegmentStays
  <2>3. QED BY <1>3, <2>1, <2>2 DEF LinkInv
<1>16. CASE ReadItem BY <1>1, <1>16, ItemRead
<1>17. CASE ReadUnmapped \/ UNCHANGED allVars
  <2>1. UNCHANGED <<cpu, file, pc, call, image, low, segment, part, item, seen>>
    BY <1>17 DEF ReadUnmapped, allVars, vars, segmentVars
  <2>2. Known' /\ SegmentInv' BY <1>2, <2>1, KnownStays, SegmentStays
  <2>3. CASE part = None BY <1>3, <2>1, <2>2, <2>3 DEF LinkInv
  <2>4. CASE part # None
    <3>1. segment # NoSegment /\ PartSuits(part') BY <1>2, <2>1, <2>4 DEF PartInv
    <3>2. PartInv' BY <2>1, <3>1, PartKept
    <3>3. SeenInv'
      <4>1. RangeEnd' = RangeEnd BY <2>1 DEF RangeEnd
      <4>2. ItemSize' = ItemSize BY <2>1, TargetStays DEF ItemSize
      <4>3. \A p : Reach(p)' = Reach(p) BY <2>1, <4>1, <4>2 DEF Reach
      <4>4. \A p, n : Reachable(p, n)' <=> Reachable(p, n) BY <2>1 DEF Reachable
      <4>5. \A p : ItemLies(p)' <=> ItemLies(p) BY <2>1, <4>1, <4>2, <4>3, <4>4 DEF ItemLies
      <4>6. \A p : mk_indirect_symbol_table_get_entry_count(p)' = mk_indirect_symbol_table_get_entry_count(p)
        BY <2>1, TargetStays DEF mk_indirect_symbol_table_get_entry_count
      <4>7. \A p, i : EntryAt(p, i)' = EntryAt(p, i) BY <2>1, TargetStays DEF EntryAt
      <4>8. QED BY <1>2, <2>1, <4>5, <4>6, <4>7 DEF SeenInv
    <3>4. QED BY <2>2, <3>2, <3>3 DEF LinkInv
  <2>5. QED BY <2>3, <2>4
<1>18. QED
  BY <1>1, <1>5, <1>6, <1>7, <1>10, <1>11, <1>12, <1>13, <1>14, <1>15, <1>16, <1>17 DEF LinkEditNext

LEMMA AlwaysLinked == LinkEditSpec => []LinkInv
<1>1. LinkEditInit => LinkInv BY LinkInit
<1>2. LinkInv /\ [LinkEditNext]_allVars => LinkInv' BY LinkStep
<1>3. QED BY <1>1, <1>2, PTL DEF LinkEditSpec

----------------------------------------------------------------------------
(* What follows.                                                           *)

LEMMA FitsInMapping ==
  ASSUME Opened, NEW p \in Nat, NEW length \in Nat, Reachable(p, length)
  PROVE  InMapping(p, length)
<1>1. LET mapping == segment.memory_object
          end == Wrap(mapping.target_address + mapping.length)
      IN  /\ mapping.target_address \in Nat /\ mapping.address = mapping.target_address
          /\ mapping.length \in Nat /\ end \in Nat /\ end <= mapping.target_address + mapping.length
  BY WindowNumbers
<1>2. QED BY <1>1 DEF InMapping, Reachable, mk_segment_get_mapping

\* Every item lies in its table and in what is mapped of the segment.
LEMMA ItemFits ==
  ASSUME Opened, PartInv, SeenInv, part # None, NEW i \in DOMAIN seen
  PROVE  /\ InMapping(seen[i], ItemSize)
         /\ seen[i] >= part.value.range.location /\ seen[i] + ItemSize <= RangeEnd
<1>1. ItemLies(seen[i]) BY DEF SeenInv
<1>2. part.kind \in {"symbols", "strings", "indirect"}
  <2>1. seen # <<>> OBVIOUS
  <2>2. QED BY <2>1 DEF PartInv, PartSuits, SeenInv
<1>3. IsTable(part.value) BY <1>2 DEF PartInv, PartSuits
<1>4. ItemSize \in Nat \ {0} /\ (part.kind = "strings" => ItemSize = 1) BY EntrySize DEF ItemSize
<1> DEFINE p == seen[i]
           size == ItemSize
           end == Wrap(segment.memory_object.target_address + segment.memory_object.length)
<1>5. p \in Nat /\ Reachable(p, Reach(p)) /\ p >= part.value.range.location /\ p + size <= RangeEnd
  BY <1>1 DEF ItemLies
<1>6. RangeEnd \in Nat BY <1>3 DEF RangeEnd, IsTable, Lies
<1> HIDE DEF p
<1>7. Reachable(p, size)
  <2>1. Reach(p) = IF part.kind = "strings" THEN RangeEnd - p ELSE size BY DEF Reach
  <2> HIDE DEF size
  <2>2. Reach(p) \in Nat /\ Reach(p) >= size BY <1>4, <1>5, <1>6, <2>1 DEF size
  <2>3. end \in Nat BY WindowNumbers
  <2> HIDE DEF end
  <2>4. p >= segment.memory_object.target_address /\ p + Reach(p) <= end BY <1>5 DEF Reachable, end
  <2>5. p + size <= end BY <1>4, <1>5, <2>2, <2>3, <2>4 DEF size
  <2>6. QED BY <2>4, <2>5 DEF Reachable, end
<1>8. QED BY <1>4, <1>5, <1>7, FitsInMapping DEF p

----------------------------------------------------------------------------
(* What is read of an item.                                                *)

LEMMA ReachableIsRemapped ==
  ASSUME Opened, NEW p \in Nat, NEW length \in Nat \ {0}, Reachable(p, length)
  PROVE  Remapped(p, length) = p
<1> DEFINE mapping == segment.memory_object
           end == Wrap(mapping.target_address + mapping.length)
           located == Locate(mapping.target_address, mapping.length, 0, p, length)
<1>1. /\ mapping.target_address \in Nat /\ mapping.address = mapping.target_address /\ mapping.length \in Nat
      /\ end \in Nat /\ end <= MaxWord /\ MaxWord \in Nat
  BY WindowNumbers, WordAssumption
<1>2. p >= mapping.target_address /\ p + length <= end BY DEF Reachable
<1> HIDE DEF end
<1>3. /\ ~ (MaxWord - 0 < p) /\ ~ (MaxWord - length < p + 0) /\ ~ (p + 0 < mapping.target_address)
      /\ ~ (end < p + 0 + length) /\ p + 0 = p
  BY <1>1, <1>2
<1>4. located = Ok(p) BY <1>3 DEF Locate, end
<1>5. mapping.address + (p - mapping.target_address) = p /\ p <= MaxWord BY <1>1, <1>2
<1>6. Wrap(mapping.address + (p - mapping.target_address)) = p BY <1>5, WrapBelow
<1> DEFINE found == mk_memory_object_remap_address(mapping, 0, p, length)
<1>7. found = Ok(p) BY <1>4, <1>6 DEF mk_memory_object_remap_address, Succeeded, Ok
<1> HIDE DEF found
<1>8. Succeeded(found) /\ found.value = p BY <1>7 DEF Succeeded, Ok
<1>9. QED BY <1>8 DEF Remapped, mk_segment_get_mapping, found

\* The fields of an entry have different names.
LEMMA EntryFields ==
  \A i \in DOMAIN nlist_layout :
    /\ nlist_layout[i][2] \in 0 .. 8 /\ HasField(nlist_layout, nlist_layout[i][1])
    /\ Wide(nlist_layout, nlist_layout[i][1], nlist_layout[i][2])
<1> DEFINE layout == nlist_layout
<1>1. PICK width \in {4, 8} : IsEntry(layout, width) BY EntryLayout
<1> HIDE DEF layout
<1>2. DOMAIN layout = 1 .. 5 BY <1>1 DEF IsEntry
<1>3. \A i, j \in 1 .. 5 : layout[i][1] = layout[j][1] => i = j BY <1>1 DEF IsEntry
<1>4. \A i \in 1 .. 5 : layout[i][2] \in 0 .. 8 BY <1>1 DEF IsEntry
<1>5. QED BY <1>2, <1>3, <1>4 DEF HasField, Wide, layout

\* The item a reading has come to is the last one.
LEMMA LastItem ==
  ASSUME PartInv, SeenInv, part # None, item # NULL
  PROVE  ItemLies(item) /\ seen # <<>>
<1>1. /\ seen \in Seq(Nat) /\ \A i \in DOMAIN seen : ItemLies(seen[i])
      /\ item = IF seen = <<>> THEN NULL ELSE seen[Len(seen)]
  BY DEF SeenInv
<1>2. seen # <<>> BY <1>1
<1>3. Len(seen) \in DOMAIN seen
  <2>1. seen \in Seq(Nat) BY <1>1
  <2>2. Len(seen) # 0 BY <1>2, <2>1, EmptySeq
  <2>3. QED BY <2>1, <2>2
<1>4. QED BY <1>1, <1>2, <1>3

\* A symbol is read as the file has it.
LEMMA SymbolAgrees ==
  ASSUME Opened, NEW table, IsTable(table), NEW p \in Nat, Reachable(p, Sizeof(nlist_layout)),
         p >= table.range.location,
         p + Sizeof(nlist_layout) <= table.range.location + table.range.length
  PROVE  LET symbol == mk_symbol_init(table, p)
         IN  /\ Succeeded(symbol) /\ mk_symbol_get_target_range(symbol.value).location = p
             /\ \A i \in DOMAIN nlist_layout :
                  mk_symbol_value(symbol.value, nlist_layout[i][1]) =
                    FileField(p, nlist_layout, nlist_layout[i][1])
<1> DEFINE size == Sizeof(nlist_layout)
           address == mk_memory_object_unmap_address(mk_segment_get_mapping(segment), 0, p, size)
           inner == mk_vm_range_make(p, size)
           contained == mk_vm_range_contains_range(table.range, inner, FALSE)
           symbol == mk_symbol_init(table, p)
<1>1. size \in Nat \ {0} BY EntrySize
<1>2. address = Ok(p) BY <1>1, UnmappedIs DEF mk_segment_get_mapping
<1>3. Succeeded(contained)
  <2>1. /\ table.range.location \in Nat /\ table.range.length \in Nat /\ MaxWord \in Nat
        /\ table.range.location + table.range.length <= MaxWord
    BY WordAssumption DEF IsTable, Lies
  <2>2. inner.location = p /\ inner.length = size BY DEF mk_vm_range_make
  <2> HIDE DEF inner, size
  <2>3. p + size <= table.range.location + table.range.length BY DEF size
  <2>4. ~ RangeOverflows(table.range) /\ ~ RangeOverflows(inner)
    BY <1>1, <2>1, <2>2, <2>3 DEF RangeOverflows
  <2>5. ~ (inner.location < table.range.location)
        /\ ~ (inner.location + inner.length > table.range.location + table.range.length)
    BY <1>1, <2>1, <2>2, <2>3
  <2>6. contained = Ok(inner.location) BY <2>4, <2>5 DEF mk_vm_range_contains_range
  <2> HIDE DEF contained
  <2>7. QED BY <2>6 DEF Succeeded, Ok
<1>4. Succeeded(address) /\ address.value = p BY <1>2 DEF Succeeded, Ok
<1>5. symbol = Ok([nlist |-> p]) BY <1>3, <1>4 DEF mk_symbol_init
<1> DEFINE value == symbol.value
<1>6. Succeeded(symbol) /\ value.nlist = p BY <1>5 DEF Succeeded, Ok
<1> HIDE DEF symbol
<1>7. mk_symbol_get_target_range(value).location = p
  BY <1>4, <1>6 DEF mk_symbol_get_target_range, mk_vm_range_make
<1>8. ASSUME NEW i \in DOMAIN nlist_layout
      PROVE  mk_symbol_value(value, nlist_layout[i][1]) = FileField(p, nlist_layout, nlist_layout[i][1])
  <2> DEFINE layout == nlist_layout
             f == layout[i][1]
             width == layout[i][2]
  <2>1. width \in 0 .. 8 /\ HasField(layout, f) /\ Wide(layout, f, width) BY EntryFields
  <2> HIDE DEF layout, f, width
  <2>2. WidthOf(layout, f) = width BY <2>1, WidthIs
  <2>3. Read(mem, p, layout, f, width) = FileField(p, layout, f)
    BY <2>1, ReadIsFile DEF Opened, Known
  <2>4. mk_symbol_value(value, f) = Read(mem, p, layout, f, WidthOf(layout, f))
    BY <1>6 DEF mk_symbol_value, layout
  <2>5. QED BY <2>2, <2>3, <2>4 DEF layout, f
<1>9. QED BY <1>6, <1>7, <1>8 DEF symbol

\* The string at a place of a table, when what is behind it is mapped.
LEMMA StringPointer ==
  ASSUME Opened, NEW table, IsTable(table), NEW p \in Nat,
         NEW end, end = table.range.location + table.range.length,
         Reachable(p, end - p), p >= table.range.location, p < end
  PROVE  mk_string_table_get_string_at_offset(table, p - table.range.location) = p
<1> DEFINE location == table.range.location
           length == table.range.length
           offset == p - location
           address == mk_vm_address_apply_offset(location, offset)
           inside == mk_vm_range_contains_address(table.range, 0, address.value)
           most == end - p
<1>1. location \in Nat /\ length \in Nat /\ end <= MaxWord /\ MaxWord \in Nat
  BY WordAssumption DEF IsTable, Lies
<1> HIDE DEF location, length
<1>2. end = location + length BY DEF location, length
<1>3. /\ offset \in Nat /\ location + offset = p /\ length - offset = most /\ most \in Nat \ {0}
  BY <1>1, <1>2 DEF location
<1>4. Succeeded(address) /\ address.value = p
  <2>1. ~ (MaxWord - offset < location) BY <1>1, <1>3
  <2>2. address = Ok(location + offset) BY <2>1 DEF mk_vm_address_apply_offset, Adds
  <2>3. QED BY <1>3, <2>2 DEF Succeeded, Ok
<1> HIDE DEF address, offset, most
<1>5. Succeeded(inside)
  <2>1. /\ ~ (MaxWord - 0 < p) /\ p + 0 = p /\ ~ (MaxWord - length < location)
        /\ ~ (p < location) /\ ~ (p >= location + length)
    BY <1>1, <1>2 DEF location
  <2>2. mk_vm_address_apply_offset(p, 0) = Ok(p) BY <2>1 DEF mk_vm_address_apply_offset, Adds
  <2>3. ~ RangeOverflows(table.range) BY <2>1 DEF RangeOverflows, location, length
  <2>4. inside = Ok(p)
    BY <1>4, <2>1, <2>2, <2>3 DEF mk_vm_range_contains_address, Succeeded, Ok, location, length
  <2>5. QED BY <2>4 DEF Succeeded, Ok
<1>6. Remapped(p, most) = p BY <1>3, ReachableIsRemapped DEF most
<1>7. mk_string_table_get_string_at_offset(table, offset) = Remapped(address.value, length - offset)
  BY <1>4, <1>5 DEF mk_string_table_get_string_at_offset, location, length, address
<1>8. mk_string_table_get_string_at_offset(table, offset) = p
  <2>1. address.value = p /\ length - offset = most BY <1>3, <1>4
  <2>2. QED BY <1>6, <1>7, <2>1, Zenon
<1>9. QED BY <1>8, Zenon DEF offset, location

\* A string is read up to its zero or the end of its table.
LEMMA StringAgrees ==
  ASSUME Opened, NEW table, IsTable(table), NEW p \in Nat, p # NULL,
         NEW end, end = table.range.location + table.range.length,
         Reachable(p, end - p), p >= table.range.location, p < end, NEW n \in Nat
  PROVE  LET string == BeforeZero(Peek(mem, p, end - p))
         IN  mk_string_table_copy_string_at_offset(table, p - table.range.location, n) =
               SubSeq(string, 1, Smaller(n, Len(string)))
<1> DEFINE location == table.range.location
           length == table.range.length
           offset == p - location
           most == end - p
           bytes == Peek(mem, p, most)
           string == BeforeZero(bytes)
           k == Smaller(n, Len(string))
<1>1. location \in Nat /\ length \in Nat /\ end <= MaxWord /\ MaxWord \in Nat
  BY WordAssumption DEF IsTable, Lies
<1> HIDE DEF location, length
<1>2. end = location + length BY DEF location, length
<1>3. /\ offset \in Nat /\ location + offset = p /\ length - offset = most /\ most \in Nat \ {0}
  BY <1>1, <1>2 DEF location
<1>6. mk_string_table_get_string_at_offset(table, offset) = p
  <2>1. mk_string_table_get_string_at_offset(table, p - table.range.location) = p BY StringPointer
  <2>2. QED BY <2>1, Zenon DEF offset, location
<1> HIDE DEF offset, most
<1>7. mk_string_table_copy_string_at_offset(table, offset, n) =
        Peek(mem, p, Smaller(strnlen(mem, p, most), n))
  BY <1>3, <1>6 DEF mk_string_table_copy_string_at_offset, length
<1>8. bytes \in Seq(Nat) /\ Len(bytes) = most
  <2>1. mem.bytes \in Seq(Byte) BY ImageAssumption DEF mem, Opened, Known
  <2>2. QED BY <1>3, <2>1, PeekType
<1> DEFINE byte(i) == IF p - mem.at + i \in DOMAIN mem.bytes THEN mem.bytes[p - mem.at + i] ELSE 0
<1>9. bytes = [i \in 1 .. most |-> byte(i)]
  BY DEF Peek
<1> HIDE DEF bytes
<1>10. /\ string \in Seq(Nat) /\ Len(string) \in 0 .. most
       /\ \A i \in 1 .. Len(string) : string[i] = bytes[i]
  BY <1>8, ZeroFound
<1>11. strnlen(mem, p, most) = Len(string) BY DEF strnlen, bytes
<1> HIDE DEF string
<1>12. k \in 0 .. Len(string) /\ Smaller(Len(string), n) = k BY <1>3, <1>10 DEF Smaller
<1> HIDE DEF k
<1>13. Peek(mem, p, k) = [i \in 1 .. k |-> string[i]]
  <2>1. Peek(mem, p, k) = [i \in 1 .. k |-> byte(i)] BY DEF Peek
  <2>2. \A i \in 1 .. k : i \in 1 .. most /\ i \in 1 .. Len(string) BY <1>3, <1>10, <1>12
  <2> HIDE DEF byte
  <2>3. \A i \in 1 .. k : string[i] = byte(i) BY <1>9, <1>10, <2>2
  <2>4. QED BY <2>1, <2>3
<1>14. SubSeq(string, 1, k) = [i \in 1 .. k |-> string[i]]
  BY <1>10, <1>12
<1>15. QED BY <1>7, <1>11, <1>12, <1>13, <1>14 DEF string, bytes, k, offset, location, most

\* What the client reads of an item is what the file has there.
THEOREM ItemsAreRead == LinkEditSpec => []ItemsAgree
<1>1. LinkInv => ItemsAgree
  <2>1. SUFFICES ASSUME LinkInv PROVE ItemsAgree OBVIOUS
  <2>2. part = None => part.kind = "none" BY DEF None
  <2>3. ASSUME part # None PROVE Opened /\ PartInv /\ SeenInv /\ PartSuits(part)
    BY <2>1, <2>3 DEF LinkInv, Opened, PartInv
  <2>4. ASSUME part.kind = "section"
        PROVE  \A f \in DOMAIN SectionClass(segment).reads :
                 section_getter(segment, part.value.command, f) =
                   FileField(part.value.command, SectionClass(segment).layout, f)
    BY <2>2, <2>3, <2>4, SectionNumber
  <2>5. ASSUME item # NULL, part # None PROVE item \in Nat /\ ItemLies(item) /\ seen # <<>>
    BY <2>3, <2>5, LastItem DEF ItemLies
  <2>6. ASSUME part.kind \in {"symbols", "strings", "indirect"} PROVE part # None /\ IsTable(part.value)
    BY <2>2, <2>3, <2>6 DEF PartSuits
  <2>7. ASSUME part.kind = "symbols", item # NULL
        PROVE  LET symbol == mk_symbol_init(part.value, item)
               IN  /\ Succeeded(symbol)
                   /\ mk_symbol_get_target_range(symbol.value).location = item
                   /\ \A i \in DOMAIN nlist_layout :
                        mk_symbol_value(symbol.value, nlist_layout[i][1]) =
                          FileField(item, nlist_layout, nlist_layout[i][1])
    <3>1. part # None /\ IsTable(part.value) BY <2>6, <2>7
    <3>2. Opened /\ item \in Nat /\ ItemLies(item) BY <2>3, <2>5, <2>7, <3>1
    <3>3. /\ Reachable(item, Sizeof(nlist_layout)) /\ item >= part.value.range.location
          /\ item + Sizeof(nlist_layout) <= part.value.range.location + part.value.range.length
      BY <2>7, <3>2 DEF ItemLies, Reach, ItemSize, RangeEnd
    <3>4. QED BY <3>1, <3>2, <3>3, SymbolAgrees
  <2>8. ASSUME part.kind = "strings", item # NULL, NEW n \in 0 .. MaxOutput
        PROVE  LET end == part.value.range.location + part.value.range.length
                   string == BeforeZero(Peek(mem, item, end - item))
               IN  mk_string_table_copy_string_at_offset(part.value, item - part.value.range.location, n) =
                     SubSeq(string, 1, Smaller(n, Len(string)))
    <3>1. part # None /\ IsTable(part.value) BY <2>6, <2>8
    <3>2. Opened /\ item \in Nat /\ ItemLies(item) BY <2>3, <2>5, <2>8, <3>1
    <3>3. /\ Reachable(item, RangeEnd - item) /\ item >= part.value.range.location /\ item + 1 <= RangeEnd
      BY <2>8, <3>2 DEF ItemLies, Reach, ItemSize
    <3>4. RangeEnd \in Nat /\ RangeEnd = part.value.range.location + part.value.range.length
      BY <3>1 DEF IsTable, Lies, RangeEnd
    <3>5. item < RangeEnd /\ n \in Nat BY <3>2, <3>3, <3>4, ImageAssumption
    <3>6. QED BY <2>8, <3>1, <3>2, <3>3, <3>4, <3>5, StringAgrees DEF RangeEnd
  <2>9. ASSUME part.kind = "indirect", item # NULL, cpu = "little"
        PROVE  mk_indirect_symbol_table_get_entry_at_index(part.value, Len(seen) - 1) = Ok(FileWord(item, 4))
    <3> DEFINE count == mk_indirect_symbol_table_get_entry_count(part.value)
               index == Len(seen) - 1
    <3>1. part # None BY <2>6, <2>9
    <3>2. seen # <<>> /\ seen \in Seq(Nat) /\ Len(seen) <= count /\ item = EntryAt(part.value, index)
      BY <2>3, <2>5, <2>9, <3>1 DEF SeenInv
    <3>3. count \in Nat
      <4>1. HasEntries(part.value, mk_load_command_dysymtab, "nindirectsyms", 4)
        BY <2>3, <2>9, <3>1 DEF PartSuits
      <4>2. QED BY <4>1, WordBounds DEF HasEntries, mk_indirect_symbol_table_get_entry_count
    <3> HIDE DEF count
    <3>4. ~ (index >= count) BY <3>2, <3>3
    <3> HIDE DEF index
    <3> DEFINE address == mk_vm_address_apply_offset(part.value.range.location, Wrap(index * 4))
    <3>5. item \in Nat /\ Reachable(item, 4) BY <2>5, <2>9, <3>1 DEF ItemLies, Reach, ItemSize
    <3>6. item # UINTPTR_MAX /\ MaxWord \in Nat
      <4> DEFINE end == Wrap(segment.memory_object.target_address + segment.memory_object.length)
      <4>1. end \in Nat /\ end <= MaxWord BY <2>3, <3>1, WindowNumbers
      <4>2. item + 4 <= end BY <3>5 DEF Reachable
      <4> HIDE DEF end
      <4>3. QED BY <3>5, <4>1, <4>2, WordAssumption DEF UINTPTR_MAX
    <3>7. /\ Succeeded(address) /\ Remapped(address.value, 4) # NULL
          /\ item = Remapped(address.value, 4)
      BY <3>2, <3>6 DEF EntryAt
    <3>8. address.value = item
      <4>1. IsTable(part.value) BY <2>6, <2>9
      <4>2. Wrap(index * 4) \in Nat /\ part.value.range.location \in Nat
        <5>1. index \in Int BY <3>2, <3>3 DEF index
        <5>2. index * 4 \in Int BY <5>1
        <5>3. Wrap(index * 4) \in Word BY <5>2, WrapDivides
        <5>4. QED BY <4>1, <5>3, WordAssumption DEF Word, IsTable, Lies
      <4>3. address.value = part.value.range.location + Wrap(index * 4)
        BY <3>7 DEF mk_vm_address_apply_offset, Adds, Succeeded, Ok, Fails
      <4> HIDE DEF address
      <4>4. address.value \in Nat BY <4>2, <4>3
      <4>5. 4 \in Nat \ {0} OBVIOUS
      <4>6. QED BY <2>3, <3>1, <3>7, <4>4, <4>5, RemappedIs
    <3>9. mk_indirect_symbol_table_get_entry_at_index(part.value, index) =
            Ok(Load(mem.cpu, Peek(mem, item, 4)))
      BY <3>2, <3>4, <3>6, <3>7, <3>8 DEF mk_indirect_symbol_table_get_entry_at_index, count
    <3>10. mem.cpu = "little" BY <2>9 DEF mem
    <3>11. QED BY <3>9, <3>10 DEF Load, FileWord, index
  <2>10. QED BY <2>4, <2>7, <2>8, <2>9, Zenon DEF ItemsAgree
<1>2. QED BY <1>1, AlwaysLinked, PTL

----------------------------------------------------------------------------
(* The commands of a type.                                                 *)

\* A recursion that ends at a place of `stop', or goes on from the next one: it climbs, and a
\* function obeys it.
TailFrom(step, stop, out, f, p) == IF p \in stop THEN out[p] ELSE f[step[p]]
Climbs(step, stop, null, D, begin, end) ==
  /\ D = {null} \union (begin .. end)
  /\ \A p \in D : p \in stop \/ (step[p] \in begin .. end /\ (p \in begin .. end => step[p] > p))
ObeysTail(f, step, stop, out, D) == f = [p \in D |-> TailFrom(step, stop, out, f, p)]
HasTail(step, stop, out, D) == \E f : ObeysTail(f, step, stop, out, D)

\* What it returns is what it returns at a place of `stop' it comes to.
EndsFrom(f, stop, out, begin, end, p) ==
  \E q \in stop : f[p] = out[q] /\ (q = p \/ q \in begin .. end) /\ (p \in begin .. end => q >= p)

\* Such a function exists: the places it asks for lie ahead.
LEMMA TailExists ==
  ASSUME NEW low0 \in Nat, NEW high \in Nat, low0 <= high, NEW null, null \notin low0 .. high,
         NEW D, NEW step, NEW stop, NEW out, Climbs(step, stop, null, D, low0, high)
  PROVE  HasTail(step, stop, out, D)
<1> USE DEF Climbs, TailFrom
<1> DEFINE body(f, p) == TailFrom(step, stop, out, f, p)
           n == high - low0
           T == {k \in 0 .. n : \E f : \A p \in (high - k) .. high : f[p] = body(f, p)}
<1>1. n \in Nat OBVIOUS
<1>2. 0 \in T
  <2> DEFINE f == [p \in {high} |-> out[high]]
  <2>1. high \in stop
    <3>1. high \in low0 .. high /\ high \in D OBVIOUS
    <3>2. high \in stop \/ (step[high] \in low0 .. high /\ step[high] > high) BY <3>1
    <3>3. \A q \in low0 .. high : ~ (q > high) OBVIOUS
    <3>4. QED BY <3>2, <3>3
  <2>2. \A p \in (high - 0) .. high : p = high OBVIOUS
  <2>3. f[high] = body(f, high) BY <2>1
  <2> HIDE DEF f, body
  <2>4. \A p \in (high - 0) .. high : f[p] = body(f, p) BY <2>2, <2>3
  <2>5. 0 \in 0 .. n BY <1>1
  <2> HIDE DEF n
  <2>6. QED BY <2>4, <2>5
<1>3. ASSUME NEW k \in 1 .. n, k - 1 \in T PROVE k \in T
  <2>1. PICK f : \A p \in (high - (k - 1)) .. high : f[p] = body(f, p) BY <1>3
  <2> DEFINE q == high - k
             g == [p \in q .. high |-> IF p = q THEN body(f, q) ELSE f[p]]
  <2>2. /\ q \in low0 .. high /\ (high - (k - 1)) .. high = (q .. high) \ {q}
        /\ \A p \in q .. high : p \in low0 .. high /\ p \in D
    BY <1>1
  <2>3. ASSUME NEW p \in q .. high PROVE g[p] = body(g, p)
    <3>1. p \in low0 .. high /\ p \in D BY <2>2
    <3>2. p \in stop \/ (step[p] \in low0 .. high /\ step[p] > p) BY <3>1
    <3>3. p \notin stop => step[p] \in q .. high /\ step[p] # q
      <4>1. \A x \in low0 .. high : \A y \in q .. high : x > y => x \in q .. high /\ x # q
        BY <1>1, <2>2
      <4>2. QED BY <3>2, <4>1
    <3> HIDE DEF q
    <3>4. p \notin stop => g[step[p]] = f[step[p]] BY <3>3
    <3>5. body(g, p) = body(f, p) BY <3>4
    <3>6. CASE p = q BY <3>5, <3>6
    <3>7. CASE p # q
      <4>1. g[p] = f[p] BY <3>7
      <4>2. p \in (high - (k - 1)) .. high BY <2>2, <3>7 DEF q
      <4>3. f[p] = body(f, p) BY <2>1, <4>2
      <4> HIDE DEF g, body
      <4>4. QED BY <3>5, <4>1, <4>3
    <3>8. QED BY <3>6, <3>7
  <2>4. k \in 0 .. n BY <1>1
  <2> HIDE DEF g, body, n
  <2>5. QED BY <2>3, <2>4
<1>4. PICK f : \A p \in low0 .. high : f[p] = body(f, p)
  <2> HIDE DEF T
  <2>1. \A k \in 0 .. n : k \in T BY <1>1, <1>2, <1>3, UpTo
  <2>2. n \in T BY <1>1, <2>1
  <2>3. high - n = low0 OBVIOUS
  <2> HIDE DEF n, body
  <2>4. QED BY <2>2, <2>3 DEF T
<1> DEFINE g == [p \in D |-> IF p = null THEN body(f, null) ELSE f[p]]
<1>5. ASSUME NEW p \in D PROVE g[p] = body(g, p)
  <2>1. p \notin stop => step[p] \in D /\ step[p] # null OBVIOUS
  <2>2. p \notin stop => g[step[p]] = f[step[p]] BY <2>1
  <2>3. body(g, p) = body(f, p) BY <2>2
  <2>4. g[p] = body(f, p)
    <3> HIDE DEF body
    <3>1. CASE p = null BY <3>1
    <3>2. CASE p # null BY <1>4, <3>2
    <3>3. QED BY <3>1, <3>2
  <2>5. QED BY <2>3, <2>4
<1>6. g = [p \in D |-> body(g, p)]
  <2> HIDE DEF body
  <2>1. \A p \in D : g[p] = body(g, p) BY <1>5
  <2>2. g = [p \in D |-> g[p]] OBVIOUS
  <2> HIDE DEF g
  <2>3. QED BY <2>1, <2>2
<1>7. QED
  <2> HIDE DEF g, body
  <2>1. QED BY <1>6, Zenon DEF HasTail, ObeysTail, body

\* It ends at a place of `stop' it comes to, or at once.
LEMMA TailEnds ==
  ASSUME NEW low0 \in Nat, NEW high \in Nat, low0 <= high, NEW null, null \notin low0 .. high,
         NEW D, NEW step, NEW stop, NEW out, Climbs(step, stop, null, D, low0, high),
         NEW f, ObeysTail(f, step, stop, out, D), NEW p \in D
  PROVE  EndsFrom(f, stop, out, low0, high, p)
<1> USE DEF Climbs, TailFrom
<1> DEFINE n == high - low0
           ends(x) == EndsFrom(f, stop, out, low0, high, x)
           T == {k \in 0 .. n : \A x \in (high - k) .. high : ends(x)}
<1>1. n \in Nat OBVIOUS
<1>2. \A x \in D : f[x] = IF x \in stop THEN out[x] ELSE f[step[x]]
  <2> DEFINE body(x) == TailFrom(step, stop, out, f, x)
  <2>1. f = [x \in D |-> body(x)] BY Zenon DEF ObeysTail
  <2> HIDE DEF body
  <2>2. \A x \in D : f[x] = body(x) BY <2>1
  <2>3. QED BY <2>2 DEF body
<1>3. \A x \in D : x \in stop => ends(x)
  <2>1. \A x \in D : x \in low0 .. high => x >= x OBVIOUS
  <2>2. QED BY <1>2, <2>1 DEF EndsFrom
<1>4. ASSUME NEW x \in D, x \notin stop, ends(step[x]) PROVE ends(x)
  <2>1. step[x] \in low0 .. high /\ (x \in low0 .. high => step[x] > x) /\ f[x] = f[step[x]]
    BY <1>2, <1>4
  <2>2. PICK q \in stop : f[step[x]] = out[q] /\ (q = step[x] \/ q \in low0 .. high) /\ q >= step[x]
    BY <1>4, <2>1 DEF EndsFrom
  <2>3. q \in low0 .. high BY <2>1, <2>2
  <2>4. x \in low0 .. high => q >= x BY <2>1, <2>2, <2>3
  <2>5. QED BY <2>1, <2>2, <2>3, <2>4 DEF EndsFrom
<1> HIDE DEF ends
<1>5. 0 \in T
  <2>1. high \in stop
    <3>1. high \in low0 .. high /\ high \in D OBVIOUS
    <3>2. high \in stop \/ (step[high] \in low0 .. high /\ step[high] > high) BY <3>1
    <3>3. \A q \in low0 .. high : ~ (q > high) OBVIOUS
    <3>4. QED BY <3>2, <3>3
  <2>2. \A x \in (high - 0) .. high : x = high OBVIOUS
  <2>3. high \in D /\ 0 \in 0 .. n OBVIOUS
  <2>4. QED BY <1>3, <2>1, <2>2, <2>3
<1>6. ASSUME NEW k \in 1 .. n, k - 1 \in T PROVE k \in T
  <2>1. \A x \in (high - (k - 1)) .. high : ends(x) BY <1>6
  <2>2. SUFFICES ASSUME NEW x \in (high - k) .. high PROVE ends(x)
    <3>1. k \in 0 .. n BY <1>1
    <3>2. QED BY <3>1
  <2>3. x \in low0 .. high /\ x \in D BY <1>1
  <2>4. CASE x \in stop BY <1>3, <2>3, <2>4
  <2>5. CASE x \notin stop
    <3>1. step[x] \in low0 .. high /\ step[x] > x BY <2>3, <2>5
    <3>2. step[x] \in (high - (k - 1)) .. high BY <1>1, <2>3, <3>1
    <3>3. ends(step[x]) BY <2>1, <3>2
    <3>4. QED BY <1>4, <2>3, <2>5, <3>3
  <2>6. QED BY <2>4, <2>5
<1>7. \A x \in low0 .. high : ends(x)
  <2> HIDE DEF T
  <2>1. \A k \in 0 .. n : k \in T BY <1>1, <1>5, <1>6, UpTo
  <2>2. n \in T BY <1>1, <2>1
  <2>3. high - n = low0 OBVIOUS
  <2> HIDE DEF n
  <2>4. QED BY <2>2, <2>3 DEF T
<1>8. CASE p \in low0 .. high BY <1>7, <1>8 DEF ends
<1>9. CASE p = null
  <2>1. CASE p \in stop BY <1>3, <2>1 DEF ends
  <2>2. CASE p \notin stop BY <1>4, <1>7, <2>2 DEF ends
  <2>3. QED BY <2>1, <2>2
<1>10. QED BY <1>8, <1>9

\* An image whose header is mapped.
Held == ImageInv /\ cpu \in Cpus /\ Mapped /\ HeaderAddress + image.header_mapping.length <= MaxWord
NextFrom(p) == mk_macho_next_command(image, p, FALSE)
TypeOf(p) == FileField(p, struct_load_command, "cmd")

\* The numbers of such an image.
LEMMA HeldNumbers ==
  ASSUME Held
  PROVE  /\ HeaderAddress \in Nat \ {0} /\ image.header_mapping.length \in Nat /\ MaxWord \in Nat
         /\ image.header_mapping.address = HeaderAddress
         /\ \A p : cmdsize(mem, p) \in Nat
         /\ \A p : Read(mem, p, struct_load_command, "cmd", 4) = TypeOf(p)
<1>1. HeaderAddress \in Nat \ {0} /\ MaxWord \in Nat BY ImageAssumption, WordAssumption DEF Word, NULL
<1>2. image.header_mapping.length \in Nat /\ image.header_mapping.address = HeaderAddress
      /\ file \in Files /\ cpu \in Cpus
  BY DEF Held, ImageInv, MappingInv
<1>3. \A p : cmdsize(mem, p) \in Nat BY <1>2, SizesAreNumbers
<1>4. \A p : Read(mem, p, struct_load_command, "cmd", 4) = TypeOf(p) BY <1>2, HeaderIsFile DEF TypeOf
<1>5. QED BY <1>1, <1>2, <1>3, <1>4

\* The walk goes on to a place behind the one it is at, or stays there.
LEMMA NextClimbs ==
  ASSUME Held, NEW p \in Places(image), NextFrom(p) # NULL
  PROVE  /\ NextFrom(p) \in HeaderAddress .. HeaderAddress + image.header_mapping.length
         /\ p # NULL => NextFrom(p) >= p
<1> DEFINE mapping == image.header_mapping
           next == NextFrom(p)
           limit == HeaderAddress + mapping.length
           width == WidthOfCommand
<1>1. /\ HeaderAddress \in Nat \ {0} /\ mapping.length \in Nat /\ MaxWord \in Nat
      /\ mapping.address = HeaderAddress /\ cmdsize(mem, p) \in Nat /\ limit <= MaxWord
  BY HeldNumbers DEF Held
<1>2. width \in Nat \ {0} BY CommandWidth
<1>3. /\ next = IF p = NULL THEN mapping.address + image.header_size ELSE p + cmdsize(mem, p)
      /\ Within(mapping, next, width)
  BY DEF mk_macho_next_command, mk_macho_get_header_mapping, NextFrom, Fits, WidthOfCommand
<1>4. Succeeded(Locate(mapping.address, mapping.length, 0, next, width))
  BY <1>3 DEF Within, mk_memory_object_verify_local_pointer
<1> HIDE DEF width, mapping
<1>5. Wrap(limit) = limit /\ limit \in Nat
  <2>1. limit \in Nat BY <1>1
  <2>2. QED BY <1>1, <2>1, WrapBelow
<1>6. next \in Int
  <2>1. image.header_size \in Nat
    BY SizesAreNumbers DEF Held, ImageInv, MappingInv
  <2>2. p \in Int BY <1>1 DEF Places, NULL, mapping
  <2> HIDE DEF next
  <2>3. QED BY <1>1, <1>3, <2>1, <2>2
<1>7. p # NULL => next >= p
  <2>1. p # NULL => p \in Nat BY <1>1 DEF Places, mapping
  <2> HIDE DEF next
  <2>2. QED BY <1>1, <1>3, <2>1
<1> HIDE DEF next
<1>8. ~ (next + 0 < HeaderAddress) /\ ~ (limit < next + 0 + width)
  BY <1>1, <1>4, <1>5 DEF Locate, Succeeded, Fails, Ok
<1>9. next >= HeaderAddress /\ next <= limit BY <1>1, <1>2, <1>5, <1>6, <1>8
<1>10. QED BY <1>1, <1>5, <1>6, <1>7, <1>9 DEF next, mapping

\* The function a client asks for the next command of a type, and where it can lead.
TypeUnfolds(p, id) ==
  mk_macho_next_command_type(image, p, id) =
    IF NextFrom(p) \in {NULL, p} THEN NULL
    ELSE IF TypeOf(NextFrom(p)) = id THEN NextFrom(p)
    ELSE mk_macho_next_command_type(image, NextFrom(p), id)
TypeClimbs(p, id) ==
  LET found == mk_macho_next_command_type(image, p, id)
  IN  found # NULL =>
        found \in HeaderAddress .. HeaderAddress + image.header_mapping.length /\ (p # NULL => found > p)

\* The search for the next command of a type unfolds, and finds one further on.
LEMMA TypesFollow ==
  ASSUME Held, NEW id
  PROVE  \A p \in Places(image) : TypeUnfolds(p, id) /\ TypeClimbs(p, id)
<1> DEFINE high == HeaderAddress + image.header_mapping.length
           D == Places(image)
           Body(f, p) == IF NextFrom(p) \in {NULL, p} THEN NULL
                         ELSE IF Read(mem, NextFrom(p), struct_load_command, "cmd", 4) = id
                              THEN NextFrom(p)
                         ELSE f[NextFrom(p)]
           first == CHOOSE f : f = [p \in D |-> Body(f, p)]
           step == [p \in D |-> NextFrom(p)]
           stop == {p \in D : NextFrom(p) \in {NULL, p} \/ TypeOf(NextFrom(p)) = id}
           out == [p \in D |-> IF NextFrom(p) \in {NULL, p} THEN NULL ELSE NextFrom(p)]
<1>1. /\ HeaderAddress \in Nat \ {0} /\ image.header_mapping.length \in Nat
      /\ \A p : Read(mem, p, struct_load_command, "cmd", 4) = TypeOf(p)
  BY HeldNumbers
<1>2. D = {NULL} \union (HeaderAddress .. high) BY DEF Places
<1>3. high \in Nat /\ HeaderAddress <= high /\ NULL \notin HeaderAddress .. high /\ HeaderAddress \in Nat
  BY <1>1 DEF NULL
<1>4. \A p \in D : mk_macho_next_command_type(image, p, id) = first[p]
  BY Zenon DEF mk_macho_next_command_type, NextFrom
<1>5. \A p \in D : NextFrom(p) # NULL =>
        NextFrom(p) \in HeaderAddress .. high /\ (p # NULL => NextFrom(p) >= p)
  BY NextClimbs
<1> HIDE DEF D, high
<1>6. Climbs(step, stop, NULL, D, HeaderAddress, high)
  <2>1. SUFFICES ASSUME NEW p \in D, p \notin stop
                 PROVE  step[p] \in HeaderAddress .. high /\ (p \in HeaderAddress .. high => step[p] > p)
    BY <1>2 DEF Climbs
  <2>2. step[p] = NextFrom(p) /\ NextFrom(p) \notin {NULL, p} BY <2>1
  <2>3. step[p] \in HeaderAddress .. high /\ (p # NULL => step[p] >= p) /\ step[p] # p BY <1>5, <2>2
  <2>4. p \in HeaderAddress .. high => p # NULL /\ p \in Int BY <1>3
  <2> HIDE DEF step, stop
  <2>5. QED BY <1>3, <2>3, <2>4
<1>7. \A f, p : p \in D => Body(f, p) = TailFrom(step, stop, out, f, p)
  <2> SUFFICES ASSUME NEW f, NEW p \in D PROVE Body(f, p) = TailFrom(step, stop, out, f, p) OBVIOUS
  <2>1. CASE NextFrom(p) \in {NULL, p}
    <3>1. p \in stop /\ out[p] = NULL BY <2>1
    <3>2. QED BY <2>1, <3>1 DEF TailFrom
  <2>2. CASE NextFrom(p) \notin {NULL, p} /\ TypeOf(NextFrom(p)) = id
    <3>1. p \in stop /\ out[p] = NextFrom(p) BY <2>2
    <3>2. QED BY <1>1, <2>2, <3>1 DEF TailFrom
  <2>3. CASE NextFrom(p) \notin {NULL, p} /\ TypeOf(NextFrom(p)) # id
    <3>1. p \notin stop /\ step[p] = NextFrom(p) BY <2>3
    <3>2. QED BY <1>1, <2>3, <3>1 DEF TailFrom
  <2>4. QED BY <2>1, <2>2, <2>3
<1>8. \A f : ObeysTail(f, step, stop, out, D) <=> f = [p \in D |-> Body(f, p)]
  <2> SUFFICES ASSUME NEW f PROVE ObeysTail(f, step, stop, out, D) <=> f = [p \in D |-> Body(f, p)]
    OBVIOUS
  <2>1. \A p \in D : Body(f, p) = TailFrom(step, stop, out, f, p) BY <1>7
  <2> HIDE DEF Body, step, stop, out
  <2>2. [p \in D |-> Body(f, p)] = [p \in D |-> TailFrom(step, stop, out, f, p)] BY <2>1
  <2>3. QED BY <2>2 DEF ObeysTail
<1>9. ObeysTail(first, step, stop, out, D)
  <2> HIDE DEF step, stop, out
  <2>1. HasTail(step, stop, out, D) BY <1>3, <1>6, TailExists
  <2>2. \E f : f = [p \in D |-> Body(f, p)] BY <1>8, <2>1 DEF HasTail
  <2> HIDE DEF Body
  <2>3. first = [p \in D |-> Body(first, p)] BY <2>2, Zenon
  <2> HIDE DEF first
  <2>4. QED BY <1>8, <2>3
<1>10. \A p \in D : first[p] = Body(first, p)
  <2>1. first = [p \in D |-> Body(first, p)] BY <1>8, <1>9
  <2> HIDE DEF first, Body
  <2>2. QED BY <2>1
<1> HIDE DEF first
<1>11. ASSUME NEW p \in D PROVE TypeUnfolds(p, id)
  <2>1. mk_macho_next_command_type(image, p, id) = Body(first, p) BY <1>4, <1>10
  <2>2. NextFrom(p) # NULL => NextFrom(p) \in D BY <1>2, <1>5
  <2>3. NextFrom(p) # NULL => mk_macho_next_command_type(image, NextFrom(p), id) = first[NextFrom(p)]
    BY <1>4, <2>2
  <2>4. QED BY <1>1, <2>1, <2>3 DEF TypeUnfolds
<1>12. ASSUME NEW p \in D PROVE TypeClimbs(p, id)
  <2> HIDE DEF Body
  <2>1. EndsFrom(first, stop, out, HeaderAddress, high, p)
    <3> HIDE DEF step, stop, out
    <3>1. QED BY <1>3, <1>6, <1>9, TailEnds
  <2>2. PICK q \in stop : /\ first[p] = out[q] /\ (q = p \/ q \in HeaderAddress .. high)
                          /\ (p \in HeaderAddress .. high => q >= p)
    BY <2>1 DEF EndsFrom
  <2>3. q \in D BY <2>2
  <2>4. first[p] # NULL => first[p] = NextFrom(q) /\ NextFrom(q) \notin {NULL, q} BY <2>2, <2>3
  <2>5. first[p] # NULL => first[p] \in HeaderAddress .. high /\ (q # NULL => first[p] >= q)
                           /\ first[p] # q
    BY <1>5, <2>3, <2>4
  <2>6. first[p] # NULL /\ p # NULL => first[p] > p
    <3>1. SUFFICES ASSUME first[p] # NULL, p # NULL PROVE first[p] > p OBVIOUS
    <3>2. p \in HeaderAddress .. high BY <1>2, <3>1
    <3>3. q \in HeaderAddress .. high /\ q >= p BY <2>2, <3>2
    <3>4. q # NULL BY <1>3, <3>3
    <3>5. first[p] \in HeaderAddress .. high /\ first[p] >= q /\ first[p] # q BY <2>5, <3>1, <3>4
    <3>6. QED BY <1>3, <3>2, <3>3, <3>5
  <2>7. mk_macho_next_command_type(image, p, id) = first[p] BY <1>4
  <2>8. QED BY <2>5, <2>6, <2>7 DEF TypeClimbs, high
<1>13. QED BY <1>11, <1>12 DEF D

\* The function a client asks for the last command of a type, by the function it goes on with.
LastUnfolds(last, id) ==
  /\ mk_macho_last_command_type(image, id) = last[NULL]
  /\ \A p \in Places(image) :
       last[p] = IF mk_macho_next_command_type(image, p, id) = NULL THEN p
                 ELSE last[mk_macho_next_command_type(image, p, id)]

\* So does the search for the last one, which goes from one of the type to the next.
LEMMA LastFollows == ASSUME Held, NEW id PROVE \E last : LastUnfolds(last, id)
<1> DEFINE high == HeaderAddress + image.header_mapping.length
           D == Places(image)
           next(p) == mk_macho_next_command_type(image, p, id)
           Body(f, p) == IF next(p) = NULL THEN p ELSE f[next(p)]
           last == CHOOSE f : f = [p \in D |-> Body(f, p)]
           step == [p \in D |-> next(p)]
           stop == {p \in D : next(p) = NULL}
           out == [p \in D |-> p]
<1>1. HeaderAddress \in Nat \ {0} /\ image.header_mapping.length \in Nat BY HeldNumbers
<1>2. D = {NULL} \union (HeaderAddress .. high) BY DEF Places
<1>3. high \in Nat /\ HeaderAddress <= high /\ NULL \notin HeaderAddress .. high /\ HeaderAddress \in Nat
  BY <1>1 DEF NULL
<1>4. mk_macho_last_command_type(image, id) = last[NULL]
  BY Zenon DEF mk_macho_last_command_type
<1>5. \A p \in D : next(p) # NULL => next(p) \in HeaderAddress .. high /\ (p # NULL => next(p) > p)
  BY TypesFollow DEF TypeClimbs
<1> HIDE DEF D, high, next
<1>6. Climbs(step, stop, NULL, D, HeaderAddress, high)
  <2>1. SUFFICES ASSUME NEW p \in D, p \notin stop
                 PROVE  step[p] \in HeaderAddress .. high /\ (p \in HeaderAddress .. high => step[p] > p)
    BY <1>2 DEF Climbs
  <2>2. step[p] = next(p) /\ next(p) # NULL BY <2>1
  <2>3. p \in HeaderAddress .. high => p # NULL BY <1>3
  <2> HIDE DEF step, stop
  <2>4. QED BY <1>5, <2>2, <2>3
<1>7. \A f : ObeysTail(f, step, stop, out, D) <=> f = [p \in D |-> Body(f, p)]
  <2> SUFFICES ASSUME NEW f PROVE ObeysTail(f, step, stop, out, D) <=> f = [p \in D |-> Body(f, p)]
    OBVIOUS
  <2>1. \A p \in D : Body(f, p) = TailFrom(step, stop, out, f, p) BY DEF TailFrom
  <2> HIDE DEF Body, step, stop, out
  <2>2. [p \in D |-> Body(f, p)] = [p \in D |-> TailFrom(step, stop, out, f, p)] BY <2>1
  <2>3. QED BY <2>2 DEF ObeysTail
<1>8. last = [p \in D |-> Body(last, p)]
  <2> HIDE DEF step, stop, out
  <2>1. HasTail(step, stop, out, D) BY <1>3, <1>6, TailExists
  <2>2. \E f : f = [p \in D |-> Body(f, p)] BY <1>7, <2>1 DEF HasTail
  <2> HIDE DEF Body
  <2>3. QED BY <2>2, Zenon
<1> HIDE DEF last
<1>9. \A p \in D : last[p] = Body(last, p)
  <2> HIDE DEF Body
  <2>1. QED BY <1>8
<1>10. QED BY <1>4, <1>9 DEF LastUnfolds, D, next

\* In a file whose header adds up, the places of the walk are the commands.
LEMMA PositionsFollow ==
  ASSUME Held, Whole, NEW n \in 0 .. Count
  PROVE  /\ Count \in Nat /\ Position(n) \in Places(image)
         /\ n < Count => /\ NextFrom(Position(n)) = Position(n + 1) /\ Position(n + 1) = Listed[n]
                         /\ Position(n + 1) \notin {NULL, Position(n)}
         /\ n = Count => NextFrom(Position(n)) = NULL
         /\ n # 0 => Position(n) # NULL
<1> DEFINE mapping == image.header_mapping
<1>1. file \in Files /\ cpu \in Cpus /\ HeaderAddress + mapping.length <= MaxWord
      /\ image.header_size = ModelOf(Magic).value.header_size
  BY DEF Held, ImageInv, MappingInv
<1>2. /\ HeaderAddress \in Nat \ {0} /\ mapping.length \in Nat /\ mapping.address = HeaderAddress
  BY HeldNumbers
<1>3. WellFormed /\ mapping.length >= image.header_size + FileHeader("sizeofcmds") BY DEF Whole
<1>4. image.header_size = FileHeaderSize
  <2>1. FileHeader("magic") \in {MH_MAGIC, MH_MAGIC_64} BY <1>3 DEF WellFormed
  <2>2. QED BY <1>1, <2>1, MagicIsFile
<1>5. /\ Count \in Nat /\ FileHeaderSize \in Nat /\ FileHeader("sizeofcmds") \in Nat
      /\ Listed[0] = HeaderAddress + FileHeaderSize
      /\ Listed[Count] = Listed[0] + FileHeader("sizeofcmds")
      /\ \A k \in 0 .. Count : Listed[k] \in Nat /\ Listed[0] <= Listed[k]
      /\ \A k \in 0 .. Count - 1 :
           /\ FileSize(Listed[k]) \in Nat /\ FileSize(Listed[k]) >= WidthOfCommand
           /\ Listed[k + 1] = Listed[k] + FileSize(Listed[k])
           /\ Listed[k + 1] <= Listed[Count]
  BY <1>1, <1>3, CommandsFollow
<1>6. WidthOfCommand \in Nat \ {0} BY CommandWidth
<1>7. n < Count => NextFrom(Position(n)) = Listed[n] /\ Listed[n] # NULL
  BY <1>1, <1>2, <1>4, NextIsListed DEF NextFrom
<1>8. n = Count => NextFrom(Position(n)) = NULL
  BY <1>1, <1>2, <1>4, NextIsListed DEF NextFrom
<1>9. Position(n + 1) = Listed[n]
  <2>1. n + 1 # 0 /\ n + 1 - 1 = n BY <1>5
  <2>2. QED BY <2>1 DEF Position
<1>10. n # 0 => /\ Position(n) = Listed[n - 1] /\ Position(n) >= HeaderAddress
                /\ Position(n) <= HeaderAddress + mapping.length /\ Position(n) \in Nat
                /\ Listed[n] > Position(n)
  <2>1. SUFFICES ASSUME n # 0
                 PROVE  /\ Position(n) = Listed[n - 1] /\ Position(n) >= HeaderAddress
                        /\ Position(n) <= HeaderAddress + mapping.length /\ Position(n) \in Nat
                        /\ Listed[n] > Position(n)
    OBVIOUS
  <2> DEFINE k == n - 1
  <2>2. k \in 0 .. Count - 1 /\ k \in 0 .. Count /\ k + 1 = n /\ 0 \in 0 .. Count /\ Count \in 0 .. Count
    BY <1>5, <2>1
  <2>3. Position(n) = Listed[k] BY <2>1 DEF Position
  <2>4. /\ Listed[k] \in Nat /\ Listed[0] <= Listed[k] /\ Listed[0] \in Nat /\ Listed[Count] \in Nat
    BY <1>5, <2>2
  <2>5. /\ FileSize(Listed[k]) \in Nat /\ FileSize(Listed[k]) >= WidthOfCommand
        /\ Listed[n] = Listed[k] + FileSize(Listed[k]) /\ Listed[n] <= Listed[Count]
    BY <1>5, <2>2
  <2>6. Listed[n] > Listed[k] BY <1>6, <2>4, <2>5
  <2>7. Listed[Count] <= HeaderAddress + mapping.length BY <1>2, <1>3, <1>4, <1>5
  <2>8. Listed[k] >= HeaderAddress /\ Listed[k] <= HeaderAddress + mapping.length
    <3>1. Listed[n] \in Nat BY <1>5
    <3> HIDE DEF k
    <3>2. Listed[k] <= Listed[Count] BY <2>4, <2>5, <2>6, <3>1
    <3>3. QED BY <1>2, <1>5, <2>4, <2>7, <3>2
  <2>9. QED BY <2>3, <2>4, <2>6, <2>8
<1>11. Position(n) \in Places(image) /\ (n # 0 => Position(n) # NULL)
  <2>1. CASE n = 0 BY <2>1 DEF Position, Places
  <2>2. CASE n # 0
    <3>1. Position(n) \in HeaderAddress .. HeaderAddress + mapping.length BY <1>2, <1>10, <2>2
    <3>2. QED BY <1>2, <1>10, <2>2, <3>1 DEF Places, NULL
  <2>3. QED BY <2>1, <2>2
<1>12. Listed[n] # Position(n)
  <2>1. CASE n = 0
    <3>1. Position(n) = 0 /\ Listed[0] # 0 BY <1>2, <1>5, <2>1 DEF Position, NULL
    <3>2. QED BY <2>1, <3>1
  <2>2. CASE n # 0
    <3>1. Listed[n] > Position(n) /\ Position(n) \in Nat /\ Listed[n] \in Nat BY <1>5, <1>10, <2>2
    <3>2. QED BY <3>1
  <2>3. QED BY <2>1, <2>2
<1>13. QED BY <1>5, <1>7, <1>8, <1>9, <1>11, <1>12

\* The commands of a type, from a place of the walk on.
IsOfType(n, id) == TypeOf(Listed[n]) = id
NoneFrom(n, id) == \A m \in n .. Count - 1 : ~ IsOfType(m, id)
FoundFrom(n, id) ==
  LET found == mk_macho_next_command_type(image, Position(n), id)
  IN  \/ found = NULL /\ NoneFrom(n, id)
      \/ \E m \in n .. Count - 1 : found = Position(m + 1) /\ IsOfType(m, id) /\ found # NULL

\* What the search for the next finds is a command of the file.
LEMMA TypeIsListed ==
  ASSUME Held, Whole, NEW id
  PROVE  \A n \in 0 .. Count : FoundFrom(n, id)
<1> DEFINE T == {k \in 0 .. Count : FoundFrom(Count - k, id)}
<1>1. Count \in Nat
  <2>1. file \in Files /\ cpu \in Cpus /\ WellFormed BY DEF Held, ImageInv, Whole
  <2>2. QED BY <2>1, CommandsFollow
<1>2. ASSUME NEW n \in 0 .. Count
      PROVE  /\ n = Count => mk_macho_next_command_type(image, Position(n), id) = NULL
             /\ n < Count => mk_macho_next_command_type(image, Position(n), id) =
                               IF IsOfType(n, id) THEN Position(n + 1)
                               ELSE mk_macho_next_command_type(image, Position(n + 1), id)
  <2>1. /\ Position(n) \in Places(image)
        /\ n < Count => /\ NextFrom(Position(n)) = Position(n + 1) /\ Position(n + 1) = Listed[n]
                        /\ Position(n + 1) \notin {NULL, Position(n)}
        /\ n = Count => NextFrom(Position(n)) = NULL
    BY PositionsFollow
  <2>2. TypeUnfolds(Position(n), id) BY <2>1, TypesFollow
  <2>3. QED BY <2>1, <2>2 DEF TypeUnfolds, IsOfType
<1>3. 0 \in T
  <2>1. Count - 0 = Count /\ Count \in 0 .. Count /\ 0 \in 0 .. Count BY <1>1
  <2>2. mk_macho_next_command_type(image, Position(Count), id) = NULL BY <1>2, <2>1
  <2>3. NoneFrom(Count, id) BY <1>1 DEF NoneFrom
  <2>4. QED BY <2>1, <2>2, <2>3 DEF FoundFrom
<1>4. ASSUME NEW k \in 1 .. Count, k - 1 \in T PROVE k \in T
  <2> DEFINE n == Count - k
  <2>1. /\ n \in 0 .. Count /\ n < Count /\ Count - (k - 1) = n + 1 /\ k \in 0 .. Count
        /\ n \in n .. Count - 1
        /\ n + 1 \in 0 .. Count
    BY <1>1
  <2>2. FoundFrom(n + 1, id) BY <1>4, <2>1
  <2>3. mk_macho_next_command_type(image, Position(n), id) =
          IF IsOfType(n, id) THEN Position(n + 1)
          ELSE mk_macho_next_command_type(image, Position(n + 1), id)
    BY <1>2, <2>1
  <2> HIDE DEF n
  <2>4. CASE IsOfType(n, id)
    <3>1. Position(n + 1) # NULL BY <2>1, PositionsFollow
    <3>2. QED BY <2>1, <2>3, <2>4, <3>1 DEF FoundFrom, n
  <2>5. CASE ~ IsOfType(n, id)
    <3> DEFINE found == mk_macho_next_command_type(image, Position(n), id)
    <3>1. \/ found = NULL /\ NoneFrom(n + 1, id)
          \/ \E m \in n + 1 .. Count - 1 : found = Position(m + 1) /\ IsOfType(m, id) /\ found # NULL
      BY <2>2, <2>3, <2>5 DEF FoundFrom
    <3>2. \A m \in n .. Count - 1 : m = n \/ m \in n + 1 .. Count - 1 BY <1>1, <2>1
    <3>3. \A m \in n + 1 .. Count - 1 : m \in n .. Count - 1 BY <1>1, <2>1
    <3>4. NoneFrom(n + 1, id) => NoneFrom(n, id) BY <2>5, <3>2 DEF NoneFrom
    <3>5. FoundFrom(n, id)
      <4> HIDE DEF found
      <4>1. \/ found = NULL /\ NoneFrom(n, id)
            \/ \E m \in n .. Count - 1 : found = Position(m + 1) /\ IsOfType(m, id) /\ found # NULL
        BY <3>1, <3>3, <3>4
      <4>2. QED BY <4>1 DEF FoundFrom, found
    <3>6. QED BY <2>1, <3>5 DEF n
  <2>6. QED BY <2>4, <2>5
<1> HIDE DEF T
<1>5. \A k \in 0 .. Count : k \in T BY <1>1, <1>3, <1>4, UpTo
<1>6. SUFFICES ASSUME NEW n \in 0 .. Count PROVE FoundFrom(n, id) OBVIOUS
<1>7. Count - n \in 0 .. Count /\ Count - (Count - n) = n BY <1>1
<1>8. FoundFrom(Count - (Count - n), id) BY <1>5, <1>7 DEF T
<1>9. QED BY <1>7, <1>8

\* What the search for the last finds is the last command of the type.
LEMMA LastIsListed ==
  ASSUME Held, Whole, NEW id
  PROVE  \E k \in 0 .. Count : /\ mk_macho_last_command_type(image, id) = Position(k)
                               /\ k # 0 => IsOfType(k - 1, id)
                               /\ NoneFrom(k, id)
<1>1. PICK last : LastUnfolds(last, id) BY LastFollows
<1> DEFINE EndsAt(j, k) == /\ last[Position(j)] = Position(k) /\ k \in j .. Count
                           /\ k # j => IsOfType(k - 1, id)
                           /\ NoneFrom(k, id)
           T == {k \in 0 .. Count : \A j \in Count - k .. Count : \E i \in 0 .. Count : EndsAt(j, i)}
<1>2. Count \in Nat
  <2>1. file \in Files /\ cpu \in Cpus /\ WellFormed BY DEF Held, ImageInv, Whole
  <2>2. QED BY <2>1, CommandsFollow
<1>3. ASSUME NEW j \in 0 .. Count
      PROVE  \/ NoneFrom(j, id) /\ last[Position(j)] = Position(j)
             \/ \E m \in j .. Count - 1 : last[Position(j)] = last[Position(m + 1)] /\ IsOfType(m, id)
  <2> DEFINE found == mk_macho_next_command_type(image, Position(j), id)
  <2>1. Position(j) \in Places(image) BY PositionsFollow
  <2>2. last[Position(j)] = IF found = NULL THEN Position(j) ELSE last[found] BY <1>1, <2>1 DEF LastUnfolds
  <2>3. FoundFrom(j, id) BY TypeIsListed
  <2>4. \/ found = NULL /\ NoneFrom(j, id)
        \/ \E m \in j .. Count - 1 : found = Position(m + 1) /\ IsOfType(m, id) /\ found # NULL
    BY <2>3 DEF FoundFrom
  <2> HIDE DEF found
  <2>5. QED BY <2>2, <2>4
<1>4. 0 \in T
  <2>1. Count \in 0 .. Count /\ 0 \in 0 .. Count /\ \A j \in Count - 0 .. Count : j = Count BY <1>2
  <2>2. \A m \in Count .. Count - 1 : FALSE BY <1>2
  <2>3. NoneFrom(Count, id) /\ last[Position(Count)] = Position(Count) BY <1>3, <2>1, <2>2
  <2>4. EndsAt(Count, Count) BY <1>2, <2>3
  <2> HIDE DEF EndsAt
  <2>5. QED BY <2>1, <2>4
<1>5. ASSUME NEW k \in 1 .. Count, k - 1 \in T PROVE k \in T
  <2> DEFINE n == Count - k
  <2>1. /\ n \in 0 .. Count /\ k \in 0 .. Count /\ Count - (k - 1) = n + 1
        /\ \A j \in n .. Count : j = n \/ j \in n + 1 .. Count
    BY <1>2
  <2>2. \A j \in n + 1 .. Count : \E i \in 0 .. Count : EndsAt(j, i) BY <1>5, <2>1
  <2> HIDE DEF n
  <2>3. \E i \in 0 .. Count : EndsAt(n, i)
    <3>1. CASE NoneFrom(n, id) /\ last[Position(n)] = Position(n)
      <4>1. n \in n .. Count BY <1>2, <2>1
      <4>2. EndsAt(n, n) BY <3>1, <4>1
      <4> HIDE DEF EndsAt
      <4>3. QED BY <2>1, <4>2
    <3>2. ASSUME NEW m \in n .. Count - 1, last[Position(n)] = last[Position(m + 1)], IsOfType(m, id)
          PROVE  \E i \in 0 .. Count : EndsAt(n, i)
      <4>1. m + 1 \in n + 1 .. Count /\ m \in Nat BY <1>2, <2>1
      <4>2. PICK i \in 0 .. Count : EndsAt(m + 1, i) BY <2>2, <4>1
      <4>3. i \in n .. Count /\ NoneFrom(i, id) /\ last[Position(n)] = Position(i)
        BY <1>2, <2>1, <3>2, <4>1, <4>2
      <4>4. i = m + 1 => i - 1 = m BY <4>1
      <4>5. i # n => IsOfType(i - 1, id) BY <3>2, <4>2, <4>4
      <4>6. EndsAt(n, i) BY <4>3, <4>5
      <4> HIDE DEF EndsAt
      <4>7. QED BY <4>6
    <3>3. QED BY <1>3, <2>1, <3>1, <3>2
  <2> HIDE DEF EndsAt
  <2>4. \A j \in n .. Count : \E i \in 0 .. Count : EndsAt(j, i) BY <2>1, <2>2, <2>3
  <2>5. QED BY <2>1, <2>4 DEF n
<1>6. \E i \in 0 .. Count : EndsAt(0, i)
  <2> HIDE DEF T, EndsAt
  <2>1. \A k \in 0 .. Count : k \in T BY <1>2, <1>4, <1>5, UpTo
  <2>2. Count \in T /\ 0 \in Count - Count .. Count BY <1>2, <2>1
  <2>3. QED BY <2>2 DEF T
<1>7. PICK k \in 0 .. Count : EndsAt(0, k) BY <1>6
<1>8. mk_macho_last_command_type(image, id) = last[NULL] /\ Position(0) = NULL
  BY <1>1 DEF LastUnfolds, Position
<1>9. QED BY <1>7, <1>8

\* The last command of a type is the file's.
LEMMA LastIsFiles ==
  ASSUME Held, Whole, NEW id, mk_macho_last_command_type(image, id) # NULL
  PROVE  mk_macho_last_command_type(image, id) = LastCommand({id})
<1> DEFINE found == {n \in DOMAIN FileCommands :
                       FileField(FileCommands[n], struct_load_command, "cmd") \in {id}}
<1>1. PICK k \in 0 .. Count : /\ mk_macho_last_command_type(image, id) = Position(k)
                              /\ k # 0 => IsOfType(k - 1, id)
                              /\ NoneFrom(k, id)
  BY LastIsListed
<1>2. Count \in Nat /\ k # 0
  <2>1. file \in Files /\ cpu \in Cpus /\ WellFormed BY DEF Held, ImageInv, Whole
  <2>2. Count \in Nat BY <2>1, CommandsFollow
  <2>3. QED BY <1>1, <2>2 DEF Position
<1>3. DOMAIN FileCommands = 1 .. Count /\ \A n \in 1 .. Count : FileCommands[n] = Listed[n - 1]
  BY DEF FileCommands, Count
<1>4. found = {n \in 1 .. Count : IsOfType(n - 1, id)} BY <1>3 DEF IsOfType, TypeOf
<1>5. k \in found BY <1>1, <1>2, <1>4
<1>6. \A n \in found : k >= n
  <2>1. SUFFICES ASSUME NEW n \in 1 .. Count, IsOfType(n - 1, id) PROVE k >= n BY <1>4
  <2>2. n - 1 \notin k .. Count - 1 BY <1>1, <2>1 DEF NoneFrom
  <2>3. QED BY <1>2, <2>2
<1>7. found \subseteq Nat BY <1>4
<1> HIDE DEF found
<1>8. Max(found) = k
  <2>1. Max(found) = CHOOSE x \in found : \A y \in found : x >= y BY DEF Max
  <2>2. \A x \in found : (\A y \in found : x >= y) => x = k BY <1>5, <1>6, <1>7
  <2> DEFINE x0 == CHOOSE x \in found : \A y \in found : x >= y
  <2>3. x0 \in found /\ \A y \in found : x0 >= y BY <1>5, <1>6
  <2>4. QED BY <2>1, <2>2, <2>3
<1>9. LastCommand({id}) = Listed[k - 1]
  <2>1. LastCommand({id}) = FileCommands[Max(found)] BY DEF LastCommand, found
  <2>2. QED BY <1>2, <1>3, <1>8, <2>1
<1>10. QED BY <1>1, <1>2, <1>9 DEF Position

----------------------------------------------------------------------------
(* The open image and its segment.                                         *)

\* The mapping of the header ends in this process.
WindowFits == Mapped => HeaderAddress + image.header_mapping.length <= MaxWord

\* No step maps the header past the last address.
LEMMA WindowStep == ASSUME ImageInv, WindowFits, [Next]_vars PROVE WindowFits'
<1>1. CASE ~ Mapped' BY <1>1 DEF WindowFits
<1>2. CASE Mapped /\ image'.header_mapping = image.header_mapping BY <1>2 DEF WindowFits
<1>3. CASE MapHeader
  <2>1. pc = "copied" /\ TargetHas(call.length) BY <1>3 DEF MapHeader
  <2>2. \/ ~ Mapped'
        \/ \E slack \in Slacks :
             image' = [open |-> TRUE, slide |-> call.slide, header_size |-> call.header_size,
                       header_mapping |-> [target_address |-> LoadAddress, address |-> HeaderAddress,
                                           length |-> call.length + slack]]
    BY <1>3 DEF MapHeader, Mapped
  <2>3. ASSUME NEW slack \in Slacks,
               image' = [open |-> TRUE, slide |-> call.slide, header_size |-> call.header_size,
                         header_mapping |-> [target_address |-> LoadAddress, address |-> HeaderAddress,
                                             length |-> call.length + slack]]
        PROVE  HeaderAddress + image'.header_mapping.length <= MaxWord
    <3>1. slack \in Nat /\ HeaderAddress \in Nat /\ LoadAddress \in Nat /\ MaxWord \in Nat
      BY ImageAssumption, WordAssumption DEF Word
    <3>2. call.length \in Nat /\ file \in Files BY <2>1 DEF ImageInv, CopyInv
    <3>3. call.length <= Len(Contents[file]) BY <2>1 DEF TargetHas
    <3>4. Len(Contents[file]) \in Nat /\ HeaderAddress + Len(Contents[file]) + slack <= MaxWord
      BY <3>2, ImageAssumption
    <3>5. image'.header_mapping.length = call.length + slack BY <2>3
    <3>6. HeaderAddress + (call.length + slack) <= MaxWord BY <3>1, <3>2, <3>3, <3>4
    <3>7. QED BY <3>5, <3>6
  <2>4. QED BY <2>2, <2>3 DEF WindowFits
<1>4. ASSUME NEW err, Frees(err) PROVE ~ Mapped' BY <1>4 DEF Frees, Mapped
<1>5. CASE Open
  <2>1. ASSUME NEW derives, NEW slide, mk_macho_init_with_slide(derives, slide) PROVE ~ Mapped'
    <3>1. pc' \in {"closed", "copied"} BY <2>1 DEF mk_macho_init_with_slide, Returns
    <3>2. QED BY <3>1 DEF Mapped
  <2>2. QED BY <1>1, <1>5, <2>1 DEF Open
<1>6. CASE TargetChanges \/ MapFails \/ DropWild
  <2>1. pc' \in {"copied", "wild", "closed"} BY <1>6 DEF TargetChanges, MapFails, DropWild
  <2>2. QED BY <1>1, <2>1 DEF Mapped
<1>7. CASE SlideStep
  <2>1. pc = "slide" /\ \E next : \/ Skip(next)
                                  \/ Frees("EDERIVED")
                                  \/ UNCHANGED <<cpu, file, pc, call, image>>
    BY <1>7 DEF SlideStep
  <2>2. Frees("EDERIVED") \/ (Mapped /\ image' = image) BY <2>1 DEF Skip, Mapped
  <2>3. QED BY <1>1, <1>2, <1>4, <2>2
<1>8. CASE SlideEnds
  <2>1. pc = "slide" /\ (Frees("EDERIVED") \/ image' = [image EXCEPT !.slide = SlideFrom(low).value])
    BY <1>8 DEF SlideEnds
  <2>2. "header_mapping" \in DOMAIN image BY <2>1 DEF ImageInv, MappingInv, Mapped
  <2>3. Frees("EDERIVED") \/ (Mapped /\ image'.header_mapping = image.header_mapping)
    BY <2>1, <2>2 DEF Mapped
  <2>4. QED BY <1>1, <1>2, <1>4, <2>3
<1>9. CASE mk_macho_free BY <1>1, <1>4, <1>9 DEF mk_macho_free
<1>10. CASE NextCommand BY <1>2, <1>10 DEF NextCommand, Mapped
<1>11. CASE UNCHANGED vars BY <1>11 DEF vars, WindowFits, Mapped
<1>12. QED BY <1>3, <1>5, <1>6, <1>7, <1>8, <1>9, <1>10, <1>11 DEF Next

\* An open segment is the command the walk has come to, and mapped where it says, moved by the slide.
SegmentFrom ==
  segment # NoSegment =>
    /\ pc = "open" /\ segment.command.mach_load_command = lc
    /\ mk_segment_get_vmaddr(segment) + image.slide \in Word
    /\ segment.memory_object.target_address = mk_segment_get_vmaddr(segment) + image.slide

\* A segment that is opened is the one of the current command.
LEMMA OpensFrom == ASSUME Known, InitSegment PROVE SegmentFrom'
<1> DEFINE opened == mk_segment_init_with_mach_load_command(lc)
           made == mk_load_command_init(mem, image.header_mapping, lc)
           command == made.value
           moved == mk_vm_address_apply_slide(segment_getter(command, "vmaddr"), image.slide)
           size == segment_getter(command, "vmsize")
           full == ~ AllowShortMappings(command)
           object == mk_memory_map_init_object(0, moved.value, size, full)
<1>1. /\ pc = "open" /\ UNCHANGED <<cpu, file, pc, image, lc>>
      /\ segment' = IF Succeeded(opened) THEN opened.value ELSE NoSegment
  BY DEF InitSegment
<1>2. CASE ~ Succeeded(opened) BY <1>1, <1>2 DEF SegmentFrom
<1>3. CASE Succeeded(opened)
  <2>1. Succeeded(made) /\ opened = mk_segment_init(command)
    BY <1>3 DEF mk_segment_init_with_mach_load_command, Then
  <2>2. command.vtable \in _mk_load_command_classes /\ command.mach_load_command = lc
    BY <2>1, CommandClass
  <2>3. image.slide \in Slide BY <1>1 DEF Known, Mapped
  <2>4. command.vtable.name \in SegmentClasses
    <3> HIDE DEF command, opened
    <3>1. QED BY <1>3, <2>1 DEF mk_segment_init, Succeeded, Fails
  <2>5. IsSegmentClass(command.vtable)
    BY <2>2, <2>4, ClassIs, ClassNames DEF SegmentClasses, IsSegmentClass
  <2>6. segment_getter(command, "vmaddr") \in Word /\ size \in Nat
    <3>1. segment_getter(command, "vmaddr") \in Word /\ size \in Word BY <2>5, ExtentNumbers DEF Extents
    <3>2. QED BY <3>1, WordAssumption DEF Word
  <2>7. full \in BOOLEAN OBVIOUS
  <2>8. /\ Succeeded(moved) /\ Succeeded(object)
        /\ opened = Ok([command |-> command, memory_object |-> object.value])
    BY <1>3, <2>1, <2>4, Zenon DEF mk_segment_init, Then, Succeeded, Fails
  <2>9. moved.value = segment_getter(command, "vmaddr") + image.slide /\ moved.value \in Word
    BY <2>3, <2>6, <2>8, MovedAddress
  <2> HIDE DEF moved, size, full
  <2>10. object.value.target_address = moved.value BY <2>6, <2>7, <2>8, <2>9, ObjectIsBacked DEF Known
  <2> HIDE DEF object, command
  <2>11. segment'.command = command /\ segment'.memory_object = object.value
    <3>1. opened.value.command = command /\ opened.value.memory_object = object.value BY <2>8 DEF Ok
    <3> HIDE DEF opened
    <3>2. QED BY <1>1, <1>3, <3>1
  <2>12. mem' = mem BY <1>1, SameMemory
  <2>13. mk_segment_get_vmaddr(segment)' = segment_getter(command, "vmaddr")
    BY <2>11, <2>12 DEF mk_segment_get_vmaddr, segment_getter
  <2>14. QED BY <1>1, <2>2, <2>9, <2>10, <2>11, <2>13 DEF SegmentFrom
<1>4. QED BY <1>2, <1>3

\* It stays so while the image and the command do.
LEMMA SegmentFromStays ==
  ASSUME SegmentFrom, UNCHANGED <<cpu, file, pc, image, lc, segment>>
  PROVE  SegmentFrom'
<1>1. mem' = mem BY SameMemory
<1>2. mk_segment_get_vmaddr(segment)' = mk_segment_get_vmaddr(segment)
  BY <1>1 DEF mk_segment_get_vmaddr, segment_getter
<1>3. QED BY <1>2 DEF SegmentFrom

\* What is mapped of a segment begins where the file says, behind the first page, and ends before
\* the last.
LEMMA SegmentPlace ==
  ASSUME Opened, SegmentFrom
  PROVE  LET layout == segment.command.vtable.layout
             object == segment.memory_object
         IN  /\ Outer.location = object.target_address /\ Outer.location \in Nat \ {0}
             /\ Outer.location = FileField(lc, layout, "vmaddr") + image.slide
             /\ FileField(lc, layout, "vmaddr") = mk_segment_get_vmaddr(segment)
             /\ mk_segment_get_fileoff(segment) = FileField(lc, layout, "fileoff")
             /\ object.length \in Nat /\ object.target_address + object.length <= MaxWord
<1> DEFINE command == segment.command
           object == segment.memory_object
           vmaddr == mk_segment_get_vmaddr(segment)
<1>1. /\ file \in Files /\ cpu \in Cpus /\ IsSegmentClass(command.vtable) /\ Backed(object)
      /\ command.mach_load_command = lc /\ vmaddr + image.slide \in Word
      /\ object.target_address = vmaddr + image.slide
  BY DEF Opened, Known, SegmentInv, SegmentFrom
<1>2. ASSUME NEW f \in Extents PROVE segment_getter(command, f) = FileField(lc, command.vtable.layout, f)
  <2>1. PICK width \in {4, 8} : ReadsField(command.vtable, f, width)
    BY <1>1, ExtentsRead DEF IsSegmentClass, ReadsExtent, ReadsField
  <2>2. Value(command, f) = FileField(lc, command.vtable.layout, f) BY <1>1, <2>1, ValueIsFile
  <2>3. QED BY <2>2 DEF segment_getter, Value
<1>3. /\ vmaddr = FileField(lc, command.vtable.layout, "vmaddr")
      /\ mk_segment_get_fileoff(segment) = FileField(lc, command.vtable.layout, "fileoff")
  BY <1>2 DEF Extents, mk_segment_get_vmaddr, mk_segment_get_fileoff
<1>4. Outer.location = Wrap(vmaddr + image.slide) BY DEF Outer, mk_segment_get_target_range, mk_vm_range_make
<1> HIDE DEF command, vmaddr
<1>5. Outer.location = object.target_address
  <2>1. vmaddr + image.slide \in Nat /\ vmaddr + image.slide <= MaxWord
    BY <1>1, WordAssumption DEF Word
  <2>2. QED BY <1>1, <1>4, <2>1, WrapBelow
<1>6. PICK first \in Nat, count \in Nat \ {0} :
        /\ first * PageSize <= object.address /\ object.address < (first + 1) * PageSize
        /\ object.address + object.length = (first + count) * PageSize
        /\ \A i \in first .. first + count - 1 : i \in Pages
  BY <1>1 DEF Backed
<1>7. object.target_address \in Nat /\ object.address = object.target_address /\ object.length \in Nat
  BY <1>1 DEF Backed
<1>8. PageSize \in Nat \ {0} /\ MaxWord \in Nat /\ LoadAddress \in Nat /\ Len(Contents[file]) \in Nat
  BY <1>1, PageAssumption, WordAssumption, ImageAssumption DEF Word
<1>9. LoadAddress >= PageSize /\ LoadAddress + Len(Contents[file]) + PageSize <= MaxWord + 1
  BY <1>1, SegmentAssumption
<1> DEFINE a == LoadAddress \div PageSize
           last == LoadAddress + Len(Contents[file]) - 1
           b == last \div PageSize
<1>10. Pages = a .. b BY DEF Pages
<1> HIDE DEF object, a, b
<1>0. \A x \in Nat, y \in Nat \ {0} :
        x \div y \in Nat /\ x = y * (x \div y) + (x % y) /\ x % y \in 0 .. y - 1
  <2>1. SUFFICES ASSUME NEW x \in Nat, NEW y \in Nat \ {0}
                 PROVE  x \div y \in Nat /\ x = y * (x \div y) + (x % y) /\ x % y \in 0 .. y - 1
    OBVIOUS
  <2> DEFINE q == x \div y
             r == x % y
  <2>2. q \in Int /\ r \in Int /\ 0 <= r /\ r < y /\ x = y * q + r OBVIOUS
  <2> HIDE DEF q, r
  <2>3. q >= 0
    <3>1. CASE q < 0
      <4>1. q + 1 <= 0 /\ q + 1 \in Int BY <2>2, <3>1
      <4>2. y * (q + 1) <= 0 BY <4>1
      <4>3. y * (q + 1) = y * q + y BY <2>2
      <4>4. QED BY <2>2, <4>2, <4>3
    <3>2. QED BY <2>2, <3>1
  <2>4. q \in Nat /\ x = y * q + r /\ r \in 0 .. y - 1 BY <2>2, <2>3
  <2>5. QED BY <2>4 DEF q, r
<1>11. a \in Nat /\ a >= 1
  <2>1. a \in Nat /\ LoadAddress = PageSize * a + (LoadAddress % PageSize)
        /\ LoadAddress % PageSize \in 0 .. PageSize - 1
    BY <1>0, <1>8 DEF a
  <2>2. PageSize * 0 = 0 BY <1>8
  <2>3. a # 0 BY <1>8, <1>9, <2>1, <2>2
  <2>4. QED BY <2>1, <2>3
<1>12. last \in Nat BY <1>8, <1>9
<1> HIDE DEF last
<1>13. b \in Nat /\ PageSize * b <= last
  <2>1. b \in Nat /\ last = PageSize * b + (last % PageSize) /\ last % PageSize \in 0 .. PageSize - 1
    BY <1>0, <1>8, <1>12 DEF b
  <2> DEFINE s == last % PageSize
             t == PageSize * b
  <2>2. s \in Nat BY <1>8, <2>1
  <2>3. t \in Nat BY <1>8, <2>1
  <2>4. last = t + s BY <2>1
  <2> HIDE DEF s, t
  <2>5. t <= last BY <1>12, <2>2, <2>3, <2>4
  <2>6. QED BY <2>1, <2>5 DEF t
<1>14. first >= 1 /\ first + count - 1 <= b
  <2>1. first \in first .. first + count - 1 /\ first + count - 1 \in first .. first + count - 1
    BY <1>6
  <2>2. first \in a .. b /\ first + count - 1 \in a .. b BY <1>6, <1>10, <2>1
  <2>3. QED BY <1>11, <1>13, <2>2
<1>15. first * PageSize >= PageSize
  <2>1. \A x, y \in Nat : x >= 1 => x * y >= y
    <3>1. SUFFICES ASSUME NEW x \in Nat, NEW y \in Nat, x >= 1 PROVE x * y >= y OBVIOUS
    <3>2. x - 1 \in Nat /\ (x - 1) * y = x * y - y BY <3>1
    <3>3. (x - 1) * y \in Nat BY <3>2
    <3>4. QED BY <3>2, <3>3
  <2>2. QED BY <1>8, <1>14, <2>1
<1>16. (first + count) * PageSize <= PageSize * b + PageSize
  <2>1. \A x, y, z \in Nat : x <= y + 1 => x * z <= z * y + z
    <3>1. SUFFICES ASSUME NEW x \in Nat, NEW y \in Nat, NEW z \in Nat, x <= y + 1 PROVE x * z <= z * y + z
      OBVIOUS
    <3>2. y + 1 - x \in Nat /\ (y + 1 - x) * z = z * y + z - x * z BY <3>1
    <3>3. (y + 1 - x) * z \in Nat BY <3>2
    <3>4. QED BY <3>2, <3>3
  <2>2. first + count \in Nat /\ first + count <= b + 1 BY <1>13, <1>14
  <2>3. QED BY <1>8, <1>13, <2>1, <2>2
<1>17. object.target_address # 0 /\ object.target_address + object.length <= MaxWord
  <2>1. first * PageSize \in Nat /\ (first + count) * PageSize \in Nat /\ PageSize * b \in Nat
    BY <1>8, <1>13
  <2>2. object.target_address # 0 BY <1>6, <1>7, <1>8, <1>15, <2>1
  <2>3. (first + count) * PageSize <= MaxWord
    BY <1>8, <1>9, <1>12, <1>13, <1>16, <2>1 DEF last
  <2>4. QED BY <1>6, <1>7, <2>2, <2>3
<1>18. QED BY <1>1, <1>3, <1>5, <1>7, <1>17 DEF command, object, vmaddr

----------------------------------------------------------------------------
(* The table a part is.                                                    *)

\* A table is where its command says, and its command, in a file whose header adds up, the last of
\* its kind.
Derived(value, class, id, field) ==
  /\ value.command.vtable = class
  /\ value.range.location = TableStart(Value(value.command, field))
  /\ Whole => value.command.mach_load_command = LastCommand({id})
PartDerived(made) ==
  /\ made.kind = "symbols" => Derived(made.value, mk_load_command_symtab, LC.SYMTAB, "symoff")
  /\ made.kind = "strings" =>
       /\ Derived(made.value, mk_load_command_symtab, LC.SYMTAB, "stroff")
       /\ made.value.range.length = Value(made.value.command, "strsize")
  /\ made.kind = "indirect" => Derived(made.value, mk_load_command_dysymtab, LC.DYSYMTAB, "indirectsymoff")
PartFrom == part # None => PartDerived(part)

\* What an initialiser makes is derived.
LEMMA MadeIsDerived ==
  ASSUME Held, NEW value, NEW class, NEW id, NEW field, MadeFrom(value, class, id, field)
  PROVE  Derived(value, class, id, field)
BY LastIsFiles DEF MadeFrom, Derived

\* What the file holds is the same while the image and the segment are.
LEMMA FileStays ==
  ASSUME UNCHANGED <<cpu, file, image, segment>>
  PROVE  /\ \A p, layout, f : FileField(p, layout, f)' = FileField(p, layout, f)
         /\ \A p, width : FileWord(p, width)' = FileWord(p, width)
         /\ \A ids : LastCommand(ids)' = LastCommand(ids)
         /\ Whole' <=> Whole
         /\ \A offset : TableStart(offset)' = TableStart(offset)
<1>1. mem' = mem /\ file' = file BY SameMemory
<1>2. \A p, width : FileWord(p, width)' = FileWord(p, width) BY <1>1 DEF FileWord
<1>3. \A p, layout, f : FileField(p, layout, f)' = FileField(p, layout, f) BY <1>2 DEF FileField
<1>4. FileCommands' = FileCommands
  <2>1. Listed' = Listed /\ Count' = Count BY SameFile
  <2>2. QED BY <2>1 DEF FileCommands, Count
<1>5. \A ids : LastCommand(ids)' = LastCommand(ids) BY <1>3, <1>4 DEF LastCommand
<1>6. Whole' <=> Whole BY SameWhole
<1>7. Outer' = Outer BY TargetStays
<1>8. mk_segment_get_fileoff(segment)' = mk_segment_get_fileoff(segment)
  BY <1>1 DEF mk_segment_get_fileoff, segment_getter
<1>9. \A offset : TableStart(offset)' = TableStart(offset) BY <1>7, <1>8 DEF TableStart
<1>10. QED BY <1>2, <1>3, <1>5, <1>6, <1>9

\* A part that is kept, or made anew, is derived in the next state too.
LEMMA PartFromKept ==
  ASSUME UNCHANGED <<cpu, file, image, segment>>, part' # None => PartDerived(part')
  PROVE  PartFrom'
<1>1. SUFFICES ASSUME part' # None PROVE PartDerived(part)' BY DEF PartFrom
<1>2. PartDerived(part') BY <1>1
<1>3. /\ \A ids : LastCommand(ids)' = LastCommand(ids)
      /\ Whole' <=> Whole
      /\ \A offset : TableStart(offset)' = TableStart(offset)
  BY FileStays
<1>4. \A command, f : Value(command, f)' = Value(command, f) BY TargetStays
<1>5. Derived(part'.value, mk_load_command_symtab, LC.SYMTAB, "symoff") =>
        Derived(part.value, mk_load_command_symtab, LC.SYMTAB, "symoff")'
  BY <1>3, <1>4 DEF Derived
<1>6. Derived(part'.value, mk_load_command_symtab, LC.SYMTAB, "stroff") =>
        Derived(part.value, mk_load_command_symtab, LC.SYMTAB, "stroff")'
  BY <1>3, <1>4 DEF Derived
<1>7. Derived(part'.value, mk_load_command_dysymtab, LC.DYSYMTAB, "indirectsymoff") =>
        Derived(part.value, mk_load_command_dysymtab, LC.DYSYMTAB, "indirectsymoff")'
  BY <1>3, <1>4 DEF Derived
<1>8. QED BY <1>2, <1>4, <1>5, <1>6, <1>7 DEF PartDerived

\* All that is known of an open image, its segment and the part of it.
ReadInv == LinkInv /\ ImageInv /\ WindowFits /\ SegmentFrom /\ PartFrom

\* While a segment is open its image is mapped.
LEMMA HeldOpen == ASSUME ReadInv, segment # NoSegment PROVE Opened /\ Held
<1>1. Known /\ SegmentInv /\ ImageInv /\ WindowFits /\ pc = "open" BY DEF ReadInv, LinkInv, SegmentFrom
<1>2. Mapped BY <1>1 DEF Mapped
<1>3. QED BY <1>1, <1>2 DEF Opened, Held, Known, WindowFits

\* A part that is made is derived.
LEMMA MakesPart ==
  ASSUME ReadInv, NEW kind, NEW made, InitPart(kind, made),
         Succeeded(made) => PartDerived([kind |-> kind, value |-> made.value])
  PROVE  PartFrom'
<1>1. /\ part' = IF Succeeded(made) THEN [kind |-> kind, value |-> made.value] ELSE None
      /\ UNCHANGED <<cpu, file, image, segment>>
  BY DEF InitPart
<1>2. QED BY <1>1, PartFromKept

\* Every step keeps the part derived.
LEMMA PartStep == ASSUME ReadInv, [LinkEditNext]_allVars PROVE PartFrom'
<1>1. ASSUME part' = None PROVE PartFrom' BY <1>1 DEF PartFrom
<1>2. segment = NoSegment => part = None BY DEF ReadInv, LinkInv, PartInv
<1>3. ASSUME part' = part, UNCHANGED <<cpu, file, image, segment>> PROVE PartFrom'
  <2>1. part' # None => PartDerived(part') BY <1>3 DEF ReadInv, PartFrom
  <2>2. QED BY <1>3, <2>1, PartFromKept
<1>4. ASSUME NEW kind, NEW made, InitPart(kind, made) PROVE Opened /\ Held
  BY <1>4, HeldOpen DEF InitPart
<1>5. CASE ImageNext
  <2>1. segment = NoSegment /\ part' = part BY <1>5 DEF ImageNext, segmentVars
  <2>2. QED BY <1>1, <1>2, <2>1
<1>6. CASE InitSegment
  <2>1. segment = NoSegment /\ part' = part BY <1>6 DEF InitSegment
  <2>2. QED BY <1>1, <1>2, <2>1
<1>7. CASE mk_segment_free BY <1>1, <1>7 DEF mk_segment_free
<1>8. CASE InitSection
  <2>1. PICK p \in SectionPointers :
          InitPart("section", mk_section_init_wih_mach_section_command(segment, p))
    BY <1>8 DEF InitSection
  <2> DEFINE made == mk_section_init_wih_mach_section_command(segment, p)
  <2>2. InitPart("section", made) BY <2>1
  <2> HIDE DEF made
  <2>3. PartDerived([kind |-> "section", value |-> made.value]) BY DEF PartDerived
  <2>4. QED BY <2>2, <2>3, MakesPart
<1>9. CASE InitSymbols
  <2> DEFINE made == mk_symbol_table_init_with_segment
  <2>1. InitPart("symbols", made) BY <1>9 DEF InitSymbols
  <2>2. Succeeded(made) => Derived(made.value, mk_load_command_symtab, LC.SYMTAB, "symoff")
    BY <1>4, <2>1, SymbolsMade, MadeIsDerived
  <2> HIDE DEF made
  <2>3. Succeeded(made) => PartDerived([kind |-> "symbols", value |-> made.value]) BY <2>2 DEF PartDerived
  <2>4. QED BY <2>1, <2>3, MakesPart
<1>10. CASE InitStrings
  <2> DEFINE made == mk_string_table_init_with_segment
  <2>1. InitPart("strings", made) BY <1>10 DEF InitStrings
  <2>2. Succeeded(made) => /\ Derived(made.value, mk_load_command_symtab, LC.SYMTAB, "stroff")
                           /\ made.value.range.length = Value(made.value.command, "strsize")
    BY <1>4, <2>1, StringsMade, MadeIsDerived
  <2> HIDE DEF made
  <2>3. Succeeded(made) => PartDerived([kind |-> "strings", value |-> made.value]) BY <2>2 DEF PartDerived
  <2>4. QED BY <2>1, <2>3, MakesPart
<1>11. CASE InitIndirect
  <2> DEFINE made == mk_indirect_symbol_table_init_with_segment
  <2>1. InitPart("indirect", made) BY <1>11 DEF InitIndirect
  <2>2. Succeeded(made) => Derived(made.value, mk_load_command_dysymtab, LC.DYSYMTAB, "indirectsymoff")
    BY <1>4, <2>1, IndirectMade, MadeIsDerived
  <2> HIDE DEF made
  <2>3. Succeeded(made) => PartDerived([kind |-> "indirect", value |-> made.value]) BY <2>2 DEF PartDerived
  <2>4. QED BY <2>1, <2>3, MakesPart
<1>12. CASE InitExports
  <2> DEFINE made == mk_exports_trie_init_with_segment
  <2>1. InitPart("exports", made) BY <1>12 DEF InitExports
  <2> HIDE DEF made
  <2>2. PartDerived([kind |-> "exports", value |-> made.value]) BY DEF PartDerived
  <2>3. QED BY <2>1, <2>2, MakesPart
<1>13. CASE FreePart BY <1>1, <1>13 DEF FreePart
<1>14. CASE ReadItem
  <2>1. part' = part /\ UNCHANGED <<cpu, file, image, segment>> BY <1>14 DEF ReadItem, vars
  <2>2. QED BY <1>3, <2>1
<1>15. CASE ReadUnmapped \/ UNCHANGED allVars
  <2>1. part' = part /\ UNCHANGED <<cpu, file, image, segment>>
    BY <1>15 DEF ReadUnmapped, allVars, vars, segmentVars
  <2>2. QED BY <1>3, <2>1
<1>16. QED
  BY <1>5, <1>6, <1>7, <1>8, <1>9, <1>10, <1>11, <1>12, <1>13, <1>14, <1>15 DEF LinkEditNext

\* It holds at first, and every step keeps it.
LEMMA ReadInit == LinkEditInit => ReadInv
<1> SUFFICES ASSUME LinkEditInit PROVE ReadInv OBVIOUS
<1>1. Init /\ segment = NoSegment /\ part = None BY DEF LinkEditInit
<1>2. ImageInv BY <1>1, ImageInit
<1>3. WindowFits BY <1>1 DEF Init, WindowFits, Mapped
<1>4. QED BY <1>1, <1>2, <1>3, LinkInit DEF ReadInv, SegmentFrom, PartFrom

LEMMA ReadStep == ReadInv /\ [LinkEditNext]_allVars => ReadInv'
<1> SUFFICES ASSUME ReadInv, [LinkEditNext]_allVars PROVE ReadInv' OBVIOUS
<1>1. LinkInv' BY LinkStep DEF ReadInv
<1>2. PartFrom' BY PartStep
<1>3. [Next]_vars \/ UNCHANGED <<cpu, file, pc, call, image, low, lc, walked, mappings>>
  BY DEF LinkEditNext, ImageNext, InitSegment, mk_segment_free, InitSection, InitSymbols, InitStrings,
         InitIndirect, InitExports, InitPart, FreePart, ReadItem, ReadUnmapped, allVars, vars
<1>4. ImageInv' /\ WindowFits'
  <2>1. CASE [Next]_vars BY <2>1, ImageStep, WindowStep DEF ReadInv
  <2>2. CASE UNCHANGED <<cpu, file, pc, call, image, low, lc, walked, mappings>>
    <3>1. mem' = mem /\ mk_macho_get_sizeofcmds' = mk_macho_get_sizeofcmds /\ Magic' = Magic
      BY <2>2, SameMemory DEF mk_macho_get_sizeofcmds, HeaderField, Magic
    <3>2. WindowFits' BY <2>2 DEF ReadInv, WindowFits, Mapped
    <3>3. (CopyInv /\ MappingInv /\ WalkInv)'
      BY <2>2, <3>1 DEF ReadInv, ImageInv, CopyInv, MappingInv, WalkInv, Mapped
    <3>4. CommandsAreMapped' BY <2>2, <3>1 DEF ReadInv, ImageInv, CommandsAreMapped
    <3>5. QED BY <2>2, <3>2, <3>3, <3>4 DEF ReadInv, ImageInv
  <2>3. QED BY <1>3, <2>1, <2>2
<1>5. SegmentFrom'
  <2>1. ASSUME segment' = NoSegment PROVE SegmentFrom' BY <2>1 DEF SegmentFrom
  <2>2. CASE ImageNext BY <2>1, <2>2 DEF ImageNext, segmentVars
  <2>3. CASE InitSegment BY <2>3, OpensFrom DEF ReadInv, LinkInv
  <2>4. CASE mk_segment_free BY <2>1, <2>4 DEF mk_segment_free
  <2>5. ASSUME UNCHANGED <<cpu, file, pc, image, lc, segment>> PROVE SegmentFrom'
    BY <2>5, SegmentFromStays DEF ReadInv
  <2>6. CASE InitSection \/ InitSymbols \/ InitStrings \/ InitIndirect \/ InitExports
    BY <2>5, <2>6 DEF InitSection, InitSymbols, InitStrings, InitIndirect, InitExports, InitPart
  <2>7. CASE FreePart \/ ReadItem \/ ReadUnmapped \/ UNCHANGED allVars
    BY <2>5, <2>7 DEF FreePart, ReadItem, ReadUnmapped, allVars, vars, segmentVars
  <2>8. QED BY <2>2, <2>3, <2>4, <2>6, <2>7 DEF LinkEditNext
<1>6. QED BY <1>1, <1>2, <1>4, <1>5 DEF ReadInv

----------------------------------------------------------------------------
(* A table in the file, and in what is mapped.                             *)

FullyMapped == mk_segment_get_mapping(segment).length >= mk_segment_get_vmsize(segment)

\* The numbers of a table are the file's.
LEMMA NumbersAreFiles ==
  ASSUME ReadInv, segment # NoSegment, Whole, NEW value, NEW class, NEW id, NEW field,
         Derived(value, class, id, field), ReadsField(class, field, 4), NEW f, ReadsField(class, f, 4)
  PROVE  /\ value.range.location =
              FileField(lc, segment.command.vtable.layout, "vmaddr") + image.slide
                + FileField(LastCommand({id}), class.layout, field)
                - FileField(lc, segment.command.vtable.layout, "fileoff")
         /\ Value(value.command, f) = FileField(LastCommand({id}), class.layout, f)
<1>1. Opened /\ SegmentFrom /\ file \in Files /\ cpu \in Cpus
  BY HeldOpen DEF ReadInv, Opened, Known
<1>2. /\ value.command.vtable = class /\ value.command.mach_load_command = LastCommand({id})
      /\ value.range.location = TableStart(Value(value.command, field))
  BY DEF Derived
<1>3. 4 \in 0 .. 8 OBVIOUS
<1>4. /\ Value(value.command, field) = FileField(LastCommand({id}), class.layout, field)
      /\ Value(value.command, f) = FileField(LastCommand({id}), class.layout, f)
  BY <1>1, <1>2, <1>3, ValueIsFile
<1>5. /\ Outer.location = FileField(lc, segment.command.vtable.layout, "vmaddr") + image.slide
      /\ mk_segment_get_fileoff(segment) = FileField(lc, segment.command.vtable.layout, "fileoff")
  BY <1>1, SegmentPlace
<1>6. value.range.location = (Outer.location + Value(value.command, field)) - mk_segment_get_fileoff(segment)
  BY <1>2, Zenon DEF TableStart
<1> DEFINE a == FileField(lc, segment.command.vtable.layout, "vmaddr")
           b == FileField(LastCommand({id}), class.layout, field)
           c == FileField(lc, segment.command.vtable.layout, "fileoff")
<1>7. a \in Int /\ b \in Int /\ c \in Int /\ image.slide \in Int
  <2>1. b \in 0 .. UINT_MAX(4) BY <1>1, <1>2, <1>3, <1>4, ValueIsFile
  <2>2. c \in Nat BY <1>1, <1>5, OuterNumbers
  <2>3. \A f1 \in Extents : segment_getter(segment.command, f1) \in Word
    BY <1>1, ExtentNumbers DEF Opened, SegmentInv
  <2>4. mk_segment_get_vmaddr(segment) \in Nat
    BY <2>3, WordAssumption DEF Extents, mk_segment_get_vmaddr, Word
  <2>5. image.slide \in Int BY <1>1, WordAssumption DEF Opened, SegmentInv, Slide, MaxSlide
  <2>6. a = mk_segment_get_vmaddr(segment) BY <1>1, SegmentPlace
  <2> HIDE DEF a, b, c
  <2>7. QED BY <2>1, <2>2, <2>4, <2>5, <2>6, WordBounds
<1>8. value.range.location = ((a + image.slide) + b) - c BY <1>4, <1>5, <1>6, Zenon
<1> HIDE DEF a, b, c
<1>9. value.range.location = a + image.slide + b - c BY <1>7, <1>8
<1>10. QED BY <1>4, <1>9, Zenon DEF a, b, c

\* What lies in a table of a segment that is mapped as a whole can be read.
LEMMA TableReached ==
  ASSUME ReadInv, segment # NoSegment, FullyMapped, NEW value, IsTable(value),
         NEW p \in Nat, NEW length \in Nat, p >= value.range.location,
         p + length <= value.range.location + value.range.length
  PROVE  Reachable(p, length) /\ p # NULL
<1> DEFINE object == segment.memory_object
           location == value.range.location
           n == value.range.length
           start == Outer.location
           size == Outer.length
           last == object.target_address + object.length
<1>1. Opened /\ SegmentFrom BY HeldOpen DEF ReadInv
<1>2. /\ start = object.target_address /\ start \in Nat \ {0} /\ object.length \in Nat
      /\ object.target_address + object.length <= MaxWord
  BY <1>1, SegmentPlace
<1>3. size \in Nat /\ MaxWord \in Nat BY <1>1, OuterNumbers, WordAssumption
<1>4. object.length >= size
  BY DEF FullyMapped, mk_segment_get_mapping, Outer, mk_segment_get_target_range, mk_vm_range_make
<1>5. location \in Nat /\ n \in Nat /\ location >= start /\ location + n <= start + size
  BY DEF IsTable, Lies
<1>6. Wrap(last) = last
  <2>1. last \in Nat BY <1>2
  <2>2. QED BY <1>2, <2>1, WrapBelow
<1> HIDE DEF start, size, location, n
<1>7. p >= location /\ p + length <= location + n BY DEF location, n
<1>8. p >= object.target_address /\ p # 0 BY <1>2, <1>5, <1>7
<1>9. p + length <= last BY <1>2, <1>3, <1>4, <1>5, <1>7
<1>10. QED BY <1>6, <1>8, <1>9 DEF Reachable, NULL

----------------------------------------------------------------------------
(* Entries.                                                                *)

\* Where an entry is.
EntryPlace(value, index, size) == value.range.location + index * size
EntryAddress(value, index, size) ==
  mk_vm_address_apply_offset(value.range.location, Wrap(index * size))

\* The place of an entry is in the table, and does not wrap.
LEMMA EntryNumbers ==
  ASSUME Opened, NEW value, IsTable(value), NEW class, NEW f, NEW size \in 1 .. 16,
         HasEntries(value, class, f, size), NEW index \in Nat, index <= Value(value.command, f)
  PROVE  /\ Wrap(index * size) = index * size /\ index * size \in Nat
         /\ EntryPlace(value, index, size) \in Nat /\ value.range.location \in Nat
         /\ EntryPlace(value, index, size) >= value.range.location
         /\ EntryPlace(value, index, size) <= value.range.location + value.range.length
         /\ index < Value(value.command, f) =>
              EntryPlace(value, index, size) + size <= value.range.location + value.range.length
         /\ EntryAddress(value, index, size) = Ok(EntryPlace(value, index, size))
         /\ Value(value.command, f) \in Nat /\ value.range.length = Value(value.command, f) * size
         /\ value.range.length - index * size = (Value(value.command, f) - index) * size
<1> DEFINE count == Value(value.command, f)
           location == value.range.location
<1>1. count \in 0 .. UINT_MAX(4) /\ count \in Nat /\ value.range.length = count * size
  BY WordBounds DEF HasEntries
<1>2. location \in Nat /\ location + value.range.length <= MaxWord /\ MaxWord \in Nat
  BY WordAssumption DEF IsTable, Lies
<1>3. index \in 0 .. UINT_MAX(4) /\ size \in 0 .. 16 /\ size \in Nat BY <1>1, WordBounds
<1>4. Wrap(index * size) = index * size /\ index * size \in Nat BY <1>3, CountsFit
<1> DEFINE m == index * size
           n == count * size
<1>5. n \in Nat /\ m <= n /\ (index < count => m + size <= n) /\ n - m = (count - index) * size
  <2>1. \A x, y, z \in Nat : x <= y => /\ x * z <= y * z /\ y * z - x * z = (y - x) * z
                                       /\ x < y => x * z + z <= y * z
    <3>1. SUFFICES ASSUME NEW x \in Nat, NEW y \in Nat, NEW z \in Nat, x <= y
                   PROVE  /\ x * z <= y * z /\ y * z - x * z = (y - x) * z
                          /\ x < y => x * z + z <= y * z
      OBVIOUS
    <3>2. y - x \in Nat /\ (y - x) * z = y * z - x * z BY <3>1
    <3>3. (y - x) * z \in Nat BY <3>2
    <3>4. x < y => x * z + z <= y * z
      <4>1. SUFFICES ASSUME x < y PROVE x * z + z <= y * z OBVIOUS
      <4>2. y - x - 1 \in Nat BY <4>1
      <4>3. (y - x - 1) * z \in Nat /\ (y - x - 1) * z = y * z - x * z - z BY <4>2
      <4>4. QED BY <4>3
    <3>5. QED BY <3>2, <3>3, <3>4
  <2>2. index <= count BY DEF count
  <2>3. count * size \in Nat BY <1>1, <1>3
  <2> HIDE DEF count
  <2>4. QED BY <1>1, <1>3, <2>1, <2>2, <2>3
<1>6. EntryPlace(value, index, size) = location + m BY DEF EntryPlace
<1>7. mk_vm_address_apply_offset(location, Wrap(m)) = Ok(location + m)
  <2>1. Wrap(m) = m /\ m \in Nat /\ value.range.length = n BY <1>1, <1>4
  <2> HIDE DEF m, n, location
  <2>2. ~ (MaxWord - m < location) BY <1>2, <1>5, <2>1
  <2>3. QED BY <2>1, <2>2 DEF mk_vm_address_apply_offset, Adds
<1>8. m \in Nat /\ value.range.length = n BY <1>1, <1>4
<1>12. EntryAddress(value, index, size) = Ok(location + m) BY <1>7, Zenon DEF EntryAddress
<1> HIDE DEF m, n, location, count
<1>9. location + m \in Nat /\ location + m >= location /\ location + m <= location + n BY <1>2, <1>5, <1>8
<1>10. index < count => location + m + size <= location + n BY <1>2, <1>3, <1>5, <1>8
<1>11. QED BY <1>1, <1>2, <1>4, <1>5, <1>6, <1>12, <1>8, <1>9, <1>10 DEF m, n, location, count

\* What can be read as a whole can be read in part.
LEMMA ReachesLess ==
  ASSUME Opened, NEW p \in Nat, NEW length \in Nat, Reachable(p, length), NEW less \in 0 .. length
  PROVE  Reachable(p, less)
<1> DEFINE end == Wrap(segment.memory_object.target_address + segment.memory_object.length)
<1>1. end \in Nat BY WindowNumbers
<1>2. p >= segment.memory_object.target_address /\ p + length <= end BY DEF Reachable
<1> HIDE DEF end
<1>3. p + less <= end BY <1>1, <1>2
<1>4. QED BY <1>2, <1>3 DEF Reachable, end

\* The place in a table of a pointer into it.
LEMMA PlaceIs ==
  ASSUME Opened, NEW table, IsTable(table), NEW p \in Nat, Reachable(p, 1),
         p >= table.range.location, p < table.range.location + table.range.length
  PROVE  PlaceOf(table, p) = Ok(p - table.range.location)
<1> DEFINE location == table.range.location
           length == table.range.length
           address == mk_memory_object_unmap_address(mk_segment_get_mapping(segment), 0, p, 1)
           inside == mk_vm_range_contains_address(table.range, 0, address.value)
<1>1. location \in Nat /\ length \in Nat /\ location + length <= MaxWord /\ MaxWord \in Nat
  BY WordAssumption DEF IsTable, Lies
<1>2. address = Ok(p)
  <2>1. 1 \in Nat \ {0} OBVIOUS
  <2>2. QED BY <2>1, UnmappedIs DEF mk_segment_get_mapping
<1>3. Succeeded(address) /\ address.value = p BY <1>2 DEF Succeeded, Ok
<1> HIDE DEF address, location, length
<1>4. Succeeded(inside)
  <2>1. /\ ~ (MaxWord - 0 < p) /\ p + 0 = p /\ ~ (MaxWord - length < location)
        /\ ~ (p < location) /\ ~ (p >= location + length)
    BY <1>1 DEF location, length
  <2>2. mk_vm_address_apply_offset(p, 0) = Ok(p) BY <2>1 DEF mk_vm_address_apply_offset, Adds
  <2>3. ~ RangeOverflows(table.range) BY <2>1 DEF RangeOverflows, location, length
  <2>4. inside = Ok(p)
    BY <1>3, <2>1, <2>2, <2>3 DEF mk_vm_range_contains_address, Succeeded, Ok, location, length
  <2>5. QED BY <2>4 DEF Succeeded, Ok
<1>5. QED BY <1>3, <1>4 DEF PlaceOf, address, location

\* A part that is a list of entries, and what it was made from.
IsEntries == part # None /\ part.kind \in {"symbols", "indirect"}
EntryClass == IF part.kind = "symbols" THEN mk_load_command_symtab ELSE mk_load_command_dysymtab
CountField == IF part.kind = "symbols" THEN "nsyms" ELSE "nindirectsyms"
EntryCount == Value(part.value.command, CountField)

\* A list of entries, and the items read of it.
LEMMA EntriesOf ==
  ASSUME LinkInv, IsEntries
  PROVE  /\ Opened /\ PartInv /\ SeenInv /\ IsTable(part.value) /\ ItemSize \in 1 .. 16
         /\ HasEntries(part.value, EntryClass, CountField, ItemSize)
         /\ EntryCount \in Nat /\ seen \in Seq(Nat) /\ Len(seen) \in Nat
<1>1. Opened /\ PartInv /\ SeenInv /\ PartSuits(part) /\ seen \in Seq(Nat)
  BY DEF LinkInv, IsEntries, PartInv, Opened, SeenInv
<1>2. IsTable(part.value) BY <1>1 DEF PartSuits, IsEntries
<1>3. ItemSize \in 1 .. 16 BY EntrySize DEF ItemSize, IsEntries
<1>4. HasEntries(part.value, EntryClass, CountField, ItemSize)
  BY <1>1 DEF PartSuits, IsEntries, EntryClass, CountField, ItemSize
<1>5. EntryCount \in Nat BY <1>4, WordBounds DEF HasEntries, EntryCount
<1>6. QED BY <1>1, <1>2, <1>3, <1>4, <1>5

\* The items so far are the first entries.
EntriesFrom ==
  IsEntries =>
    /\ Len(seen) <= EntryCount
    /\ \A i \in DOMAIN seen : seen[i] = EntryPlace(part.value, i - 1, ItemSize)

\* The item that follows is the entry at the number of those read, if it is mapped.
NextPointer ==
  IF Len(seen) < EntryCount THEN Remapped(EntryPlace(part.value, Len(seen), ItemSize), ItemSize) ELSE NULL

LEMMA NextEntry ==
  ASSUME ReadInv, IsEntries, EntriesFrom
  PROVE  /\ NextItem = NextPointer \/ (NextUnmapped /\ NextPointer = NULL)
         /\ NextUnmapped => Len(seen) < EntryCount
<1> DEFINE value == part.value
           n == Len(seen)
           size == ItemSize
           place == EntryPlace(value, n, size)
           address == mk_vm_address_apply_offset(value.range.location, Wrap(n * size))
<1>1. /\ Opened /\ PartInv /\ SeenInv /\ IsTable(value) /\ size \in 1 .. 16
      /\ HasEntries(value, EntryClass, CountField, size)
      /\ EntryCount \in Nat /\ seen \in Seq(Nat) /\ n \in Nat /\ n <= EntryCount
  BY EntriesOf DEF EntriesFrom, ReadInv
<1>2. address = Ok(place)
  <2>1. EntryCount = Value(value.command, CountField) BY DEF EntryCount
  <2> DEFINE count == EntryCount
             class == EntryClass
             field == CountField
  <2> HIDE DEF n, size, value, count, class, field
  <2>2. /\ IsTable(value) /\ size \in 1 .. 16 /\ HasEntries(value, class, field, size)
        /\ n \in Nat /\ n <= Value(value.command, field) /\ Opened
    BY <1>1, <2>1 DEF count, class, field
  <2>3. EntryAddress(value, n, size) = Ok(EntryPlace(value, n, size)) BY <2>2, EntryNumbers
  <2>4. QED BY <2>3, Zenon DEF place, address, EntryAddress
<1>3. Succeeded(address) /\ address.value = place BY <1>2 DEF Succeeded, Ok
<1> HIDE DEF address, place
<1>4. CASE part.kind = "indirect"
  <2>1. /\ mk_indirect_symbol_table_get_entry_count(value) = EntryCount /\ size = 4
    BY <1>4 DEF mk_indirect_symbol_table_get_entry_count, EntryCount, CountField, ItemSize
  <2>2. EntryAt(value, n) = IF Remapped(place, size) = NULL THEN UINTPTR_MAX ELSE Remapped(place, size)
    BY <1>3, <2>1 DEF EntryAt, address
  <2>3. NextItem = IF n < EntryCount THEN EntryAt(value, n) ELSE NULL BY <1>4, <2>1 DEF NextItem
  <2>4. NextPointer = IF n < EntryCount THEN Remapped(place, size) ELSE NULL BY DEF NextPointer, place
  <2>5. MaxWord # NULL BY WordAssumption DEF NULL
  <2>6. QED BY <1>4, <2>2, <2>3, <2>4, <2>5 DEF NextUnmapped, UINTPTR_MAX
<1>5. CASE part.kind = "symbols"
  <2>1. /\ mk_symbol_table_get_symbol_count(value) = EntryCount /\ size = Sizeof(nlist_layout)
    BY <1>5 DEF mk_symbol_table_get_symbol_count, EntryCount, CountField, ItemSize
  <2>2. mk_symbol_table_get_mach_symbol_at_index(value, n) =
          IF n < EntryCount THEN Remapped(place, size) ELSE NULL
    <3>1. n >= EntryCount <=> ~ (n < EntryCount) BY <1>1
    <3>2. QED BY <1>3, <2>1, <3>1 DEF mk_symbol_table_get_mach_symbol_at_index, address
  <2>0. NextPointer = (IF n < EntryCount THEN Remapped(place, size) ELSE NULL) /\ ~ NextUnmapped
    BY <1>5 DEF NextPointer, NextUnmapped, place
  <2>3. NextItem = mk_symbol_table_next_mach_symbol(value, item) BY <1>5 DEF NextItem
  <2>4. CASE seen = <<>>
    <3>1. item = NULL /\ n = 0 BY <1>1, <2>4 DEF SeenInv, IsEntries
    <3>2. NextItem = mk_symbol_table_get_mach_symbol_at_index(value, n)
      BY <2>3, <3>1 DEF mk_symbol_table_next_mach_symbol
    <3>3. QED BY <2>0, <2>2, <3>2
  <2>5. CASE seen # <<>>
    <3>1. n \in 1 .. n /\ n - 1 \in Nat /\ n - 1 <= EntryCount
      <4>1. n # 0 BY <1>1, <2>5, EmptySeq
      <4>2. QED BY <1>1, <4>1
    <3>2. item = seen[n] /\ item = EntryPlace(value, n - 1, size) /\ ItemLies(item)
      BY <1>1, <2>5, <3>1 DEF SeenInv, IsEntries, EntriesFrom
    <3> DEFINE k == n - 1
               m == k * size
               location == value.range.location
    <3>3. m \in Nat /\ location \in Nat /\ item = location + m
      <4>1. m \in Nat /\ location \in Nat BY <1>1, <3>1, EntryNumbers DEF EntryCount
      <4>2. QED BY <3>2, <4>1 DEF EntryPlace
    <3>4. /\ item \in Nat /\ Reachable(item, size) /\ item >= location
          /\ item + size <= location + value.range.length /\ value.range.length \in Nat
      BY <1>1, <1>5, <3>2 DEF ItemLies, Reach, RangeEnd, IsTable, Lies
    <3>5. PlaceOf(value, item) = Ok(item - location)
      <4>1. 1 \in 0 .. size /\ size \in Nat BY <1>1
      <4>2. Reachable(item, 1) BY <1>1, <3>4, <4>1, ReachesLess
      <4> HIDE DEF size, location
      <4>3. item < value.range.location + value.range.length BY <3>3, <3>4, <4>1 DEF location
      <4>4. item >= value.range.location BY <3>4 DEF location
      <4>5. PlaceOf(value, item) = Ok(item - value.range.location) BY <1>1, <3>4, <4>2, <4>3, <4>4, PlaceIs
      <4>6. QED BY <4>5 DEF location
    <3>6. Succeeded(PlaceOf(value, item)) /\ PlaceOf(value, item).value = m
      <4>1. item - location = m BY <3>3
      <4>2. PlaceOf(value, item) = Ok(m) BY <3>5, <4>1, Zenon
      <4> HIDE DEF m
      <4>3. QED BY <4>2 DEF Succeeded, Ok
    <3>7. m \div size + 1 = n
      <4>1. size \in Nat \ {0} /\ 0 \in 0 .. size - 1 /\ k \in Nat BY <1>1, <3>1
      <4>2. (size * k + 0) \div size = k BY <4>1, Division
      <4>3. size * k + 0 = m BY <4>1
      <4>4. k + 1 = n BY <1>1
      <4> HIDE DEF m, k
      <4>5. QED BY <4>2, <4>3, <4>4
    <3>8. item # NULL
      <4>1. Outer.location \in Nat \ {0} BY <1>1, SegmentPlace DEF ReadInv
      <4>2. location >= Outer.location BY <1>1 DEF IsTable, Lies
      <4>3. QED BY <3>3, <3>4, <4>1, <4>2 DEF NULL
    <3>9. NextItem = mk_symbol_table_get_mach_symbol_at_index(value, n)
      BY <2>1, <2>3, <3>6, <3>7, <3>8 DEF mk_symbol_table_next_mach_symbol
    <3>10. QED BY <2>0, <2>2, <3>9
  <2>6. QED BY <2>4, <2>5
<1>6. QED BY <1>4, <1>5 DEF IsEntries

\* Reading goes on with the next entry.
LEMMA EntryRead == ASSUME ReadInv, EntriesFrom, IsEntries, ReadItem PROVE EntriesFrom'
<1> DEFINE value == part.value
           n == Len(seen)
           size == ItemSize
           next == NextItem
<1>1. /\ Opened /\ IsTable(value) /\ size \in 1 .. 16 /\ HasEntries(value, EntryClass, CountField, size)
      /\ EntryCount \in Nat /\ seen \in Seq(Nat) /\ n \in Nat /\ n <= EntryCount
      /\ \A i \in DOMAIN seen : seen[i] = EntryPlace(value, i - 1, size)
  BY EntriesOf DEF EntriesFrom, ReadInv
<1>2. /\ next # NULL /\ ~ NextUnmapped /\ seen' = Append(seen, next)
      /\ UNCHANGED <<cpu, file, image, segment, part>>
  BY DEF ReadItem, vars
<1>3. n < EntryCount /\ next = Remapped(EntryPlace(value, n, size), size)
  <2>1. next = IF n < EntryCount THEN Remapped(EntryPlace(value, n, size), size) ELSE NULL
    BY <1>2, NextEntry DEF NextPointer
  <2> HIDE DEF next, value, n, size
  <2>2. QED BY <1>2, <2>1
<1>4. EntryPlace(value, n, size) \in Nat
  <2> DEFINE class == EntryClass
             field == CountField
  <2>1. EntryCount = Value(value.command, field) BY DEF EntryCount
  <2> HIDE DEF n, size, value, class, field
  <2>2. /\ IsTable(value) /\ size \in 1 .. 16 /\ HasEntries(value, class, field, size)
        /\ n \in Nat /\ n <= Value(value.command, field) /\ Opened
    BY <1>1, <2>1 DEF class, field
  <2>3. QED BY <2>2, EntryNumbers
<1>5. next = EntryPlace(value, n, size)
  <2>1. size \in Nat \ {0} BY <1>1
  <2> HIDE DEF size, next, n, value
  <2>2. QED BY <1>1, <1>2, <1>3, <1>4, <2>1, RemappedIs
<1> HIDE DEF next
<1>6. /\ seen' \in Seq(Nat) /\ Len(seen') = n + 1 /\ DOMAIN seen' = 1 .. n + 1
      /\ seen'[n + 1] = next /\ \A i \in 1 .. n : seen'[i] = seen[i]
  BY <1>1, <1>2, <1>4, <1>5
<1>7. \A i \in DOMAIN seen' : seen'[i] = EntryPlace(value, i - 1, size)
  <2>1. DOMAIN seen = 1 .. n /\ (n + 1) - 1 = n BY <1>1
  <2> HIDE DEF n, size, value
  <2>2. \A i \in 1 .. n + 1 : i \in 1 .. n \/ i = n + 1 BY <1>1
  <2>3. QED BY <1>1, <1>5, <1>6, <2>1, <2>2
<1>8. EntryCount' = EntryCount /\ ItemSize' = ItemSize
  <2>1. nlist_layout' = nlist_layout /\ \A command, f : Value(command, f)' = Value(command, f)
    BY <1>2, TargetStays
  <2>2. QED BY <1>2, <2>1 DEF EntryCount, CountField, ItemSize
<1>9. \A index : EntryPlace(part.value, index, ItemSize)' = EntryPlace(value, index, size)
  BY <1>2, <1>8 DEF EntryPlace
<1>10. Len(seen)' <= EntryCount' BY <1>1, <1>3, <1>6, <1>8
<1>11. \A i \in DOMAIN seen' : seen'[i] = EntryPlace(part.value, i - 1, ItemSize)'
  <2> HIDE DEF size, value
  <2>1. QED BY <1>7, <1>9
<1>12. QED BY <1>10, <1>11 DEF EntriesFrom

\* When the segment is mapped as a whole, every entry can be read.
LEMMA EntryReached ==
  ASSUME ReadInv, IsEntries, FullyMapped, NEW index \in Nat, index < EntryCount
  PROVE  Remapped(EntryPlace(part.value, index, ItemSize), ItemSize) # NULL
<1> DEFINE value == part.value
           size == ItemSize
           class == EntryClass
           field == CountField
           p == EntryPlace(value, index, size)
<1>1. /\ Opened /\ IsTable(value) /\ size \in 1 .. 16 /\ HasEntries(value, class, field, size)
      /\ EntryCount \in Nat /\ segment # NoSegment
  BY EntriesOf DEF ReadInv, Opened
<1>2. EntryCount = Value(value.command, field) BY DEF EntryCount
<1> HIDE DEF value, size, class, field
<1>3. index <= Value(value.command, field) /\ index < Value(value.command, field) BY <1>1, <1>2
<1>4. /\ p \in Nat /\ p >= value.range.location /\ p + size <= value.range.location + value.range.length
  BY <1>1, <1>3, EntryNumbers
<1> HIDE DEF p
<1>5. size \in Nat \ {0} BY <1>1
<1>6. Reachable(p, size) /\ p # NULL BY <1>1, <1>4, <1>5, TableReached
<1>7. Remapped(p, size) = p BY <1>1, <1>4, <1>5, <1>6, ReachableIsRemapped
<1>8. QED BY <1>6, <1>7 DEF p, value, size

\* An indirect symbol that is not mapped lies behind what is mapped of the segment.
LEMMA UnmappedIsBehind ==
  ASSUME ReadInv, part # None, NextUnmapped
  PROVE  ~ FullyMapped
<1> DEFINE value == part.value
           n == Len(seen)
           place == EntryPlace(value, n, 4)
<1>1. IsEntries /\ part.kind = "indirect" /\ ItemSize = 4 /\ CountField = "nindirectsyms"
  BY DEF NextUnmapped, IsEntries, ItemSize, CountField
<1>2. /\ Opened /\ IsTable(value) /\ HasEntries(value, EntryClass, CountField, 4)
      /\ EntryCount \in Nat /\ n \in Nat
  BY <1>1, EntriesOf DEF ReadInv
<1>3. MaxWord # NULL /\ MaxWord \in Nat BY WordAssumption DEF NULL
<1>4. n < EntryCount /\ EntryAt(value, n) = MaxWord
  BY <1>1, <1>3 DEF NextUnmapped, NextItem, UINTPTR_MAX, EntryCount, mk_indirect_symbol_table_get_entry_count
<1>5. EntryAddress(value, n, 4) = Ok(place) /\ place \in Nat /\ place >= value.range.location
      /\ place + 4 <= value.range.location + value.range.length
  <2> DEFINE class == EntryClass
             field == CountField
  <2>1. EntryCount = Value(value.command, field) /\ 4 \in 1 .. 16 BY DEF EntryCount
  <2> HIDE DEF n, value, class, field
  <2>2. /\ IsTable(value) /\ HasEntries(value, class, field, 4) /\ n \in Nat /\ Opened
        /\ n <= Value(value.command, field) /\ n < Value(value.command, field)
    BY <1>2, <1>4, <2>1 DEF class, field
  <2>3. QED BY <2>1, <2>2, EntryNumbers
<1>6. SUFFICES ASSUME FullyMapped PROVE FALSE OBVIOUS
<1>7. Remapped(place, 4) # NULL /\ Remapped(place, 4) = place
  <2> HIDE DEF place
  <2>1. segment # NoSegment /\ 4 \in Nat \ {0} BY <1>2 DEF Opened
  <2>2. Reachable(place, 4) /\ place # NULL BY <1>2, <1>5, <1>6, <2>1, TableReached
  <2>3. Remapped(place, 4) = place BY <1>2, <1>5, <2>1, <2>2, ReachableIsRemapped
  <2>4. QED BY <2>2, <2>3
<1> HIDE DEF place
<1>8. EntryAt(value, n) = place BY <1>5, <1>7 DEF EntryAt, EntryAddress, Succeeded, Ok
<1>9. place + 4 <= MaxWord
  <2>1. value.range.location + value.range.length <= MaxWord /\ value.range.location \in Nat
        /\ value.range.length \in Nat
    BY <1>2 DEF IsTable, Lies
  <2>2. QED BY <1>3, <1>5, <2>1
<1>10. QED BY <1>3, <1>4, <1>5, <1>8, <1>9

\* The pointers of the entries from an index on.
PlacesFrom(index) == [i \in 1 .. EntryCount - index |-> EntryPlace(part.value, index + (i - 1), ItemSize)]

\* The enumerator is called with the entries from its index on.
LEMMA EnumerateIs ==
  ASSUME ReadInv, IsEntries, FullyMapped, NEW index \in Nat, index <= EntryCount
  PROVE  EnumerateFrom(part.value, index, EntryCount, ItemSize) = PlacesFrom(index)
<1> DEFINE value == part.value
           size == ItemSize
           class == EntryClass
           field == CountField
           count == EntryCount
           m == index * size
           p == EntryPlace(value, index, size)
           address == mk_vm_address_add(value.range.location, Wrap(index * size))
           length == mk_vm_address_subtract(value.range.length, Wrap(index * size))
           start == Remapped(address.value, length.value)
           list == [i \in 1 .. count - index |-> start + (i - 1) * size]
<1>1. /\ Opened /\ IsTable(value) /\ size \in 1 .. 16 /\ HasEntries(value, class, field, size)
      /\ count \in Nat /\ segment # NoSegment
  BY EntriesOf DEF ReadInv, Opened
<1>2. count = Value(value.command, field) BY DEF EntryCount
<1> HIDE DEF value, size, class, field, count
<1>3. index <= Value(value.command, field) BY <1>1, <1>2 DEF count
<1>4. /\ Wrap(m) = m /\ m \in Nat
      /\ EntryAddress(value, index, size) = Ok(p) /\ p \in Nat /\ p >= value.range.location
      /\ p <= value.range.location + value.range.length /\ value.range.location \in Nat
      /\ value.range.length = count * size
      /\ value.range.length - m = (count - index) * size
  <2>1. Wrap(m) = m /\ m \in Nat
    <3>1. count \in 0 .. UINT_MAX(4) BY <1>1, <1>2 DEF HasEntries
    <3>2. index \in 0 .. UINT_MAX(4) /\ size \in 0 .. 16 BY <1>1, <1>2, <1>3, <3>1, WordBounds
    <3>3. QED BY <3>2, CountsFit
  <2>2. /\ EntryAddress(value, index, size) = Ok(p) /\ p \in Nat /\ p >= value.range.location
        /\ p <= value.range.location + value.range.length /\ value.range.location \in Nat
    BY <1>1, <1>3, EntryNumbers
  <2>3. value.range.length = count * size BY <1>1, <1>2, <1>3, EntryNumbers
  <2>4. value.range.length - m = (count - index) * size
    <3>1. \A x, y, z \in Nat : y * z - x * z = (y - x) * z OBVIOUS
    <3>2. count * size - index * size = (count - index) * size BY <1>1, <3>1
    <3>3. QED BY <2>3, <3>2, Zenon
  <2>5. QED BY <2>1, <2>2, <2>3, <2>4
<1>5. address = EntryAddress(value, index, size)
  BY Zenon DEF EntryAddress, mk_vm_address_add, mk_vm_address_apply_offset
<1>6. EnumerateFrom(value, index, count, size) =
        IF index >= count \/ ~Succeeded(address) \/ ~Succeeded(length) \/ start = NULL THEN <<>> ELSE list
  BY Zenon DEF EnumerateFrom
<1>7. size \in Nat \ {0} /\ p = value.range.location + m BY <1>1 DEF EntryPlace
<1>8. CASE index = count
  <2>1. index >= count /\ 1 .. count - index = {} BY <1>1, <1>8
  <2>2. PlacesFrom(index) = <<>> BY <2>1 DEF PlacesFrom, count
  <2>3. EnumerateFrom(value, index, count, size) = <<>>
    <3> HIDE DEF list, start, address, length
    <3>1. QED BY <1>6, <2>1
  <2>4. QED BY <2>2, <2>3 DEF value, count, size
<1>9. CASE index < count
  <2> DEFINE left == (count - index) * size
  <2>1. left \in Nat \ {0}
    <3>1. \A x, y \in Nat \ {0} : x * y \in Nat \ {0}
      <4>1. SUFFICES ASSUME NEW x \in Nat \ {0}, NEW y \in Nat \ {0} PROVE x * y \in Nat \ {0} OBVIOUS
      <4>2. x * y \in Nat OBVIOUS
      <4>3. x * y # 0 OBVIOUS
      <4>4. QED BY <4>2, <4>3
    <3>2. count - index \in Nat \ {0} BY <1>1, <1>9
    <3>3. QED BY <1>7, <3>1, <3>2
  <2> HIDE DEF left, m, p
  <2>2. value.range.length \in Nat /\ value.range.length - m = left /\ ~ (m > value.range.length)
    <3>1. value.range.length \in Nat BY <1>1 DEF IsTable, Lies
    <3>2. value.range.length - m = left BY <1>4 DEF left
    <3>3. QED BY <1>4, <2>1, <3>1, <3>2
  <2>3. length = Ok(left)
    <3>1. length = mk_vm_address_subtract(value.range.length, m) BY <1>4, Zenon DEF m
    <3>2. mk_vm_address_subtract(value.range.length, m) = Ok(left)
      BY <2>2 DEF mk_vm_address_subtract
    <3>3. QED BY <3>1, <3>2, Zenon
  <2>4. address = Ok(p) BY <1>4, <1>5
  <2>5. Succeeded(length) /\ length.value = left /\ Succeeded(address) /\ address.value = p
    <3> HIDE DEF length, address
    <3>1. QED BY <2>3, <2>4 DEF Succeeded, Ok
  <2>6. start = Remapped(p, left) BY <2>5
  <2>7. Reachable(p, left) /\ p # NULL
    <3>1. p + left <= value.range.location + value.range.length BY <1>4, <1>7, <2>1, <2>2
    <3>2. left \in Nat /\ p \in Nat /\ p >= value.range.location BY <1>4, <2>1
    <3>3. QED BY <1>1, <3>1, <3>2, TableReached
  <2>8. start = p BY <1>1, <1>4, <2>1, <2>6, <2>7, ReachableIsRemapped
  <2>9. EnumerateFrom(value, index, count, size) = list
    <3>1. ~ (index >= count) BY <1>1, <1>9
    <3> HIDE DEF list, start, address, length
    <3>2. QED BY <1>6, <2>5, <2>7, <2>8, <3>1
  <2>10. ASSUME NEW i \in 1 .. count - index
         PROVE  start + (i - 1) * size = EntryPlace(value, index + (i - 1), size)
    <3> DEFINE j == i - 1
    <3>1. j \in Nat BY <1>1
    <3>2. (index + j) * size = m + j * size /\ j * size \in Nat
      <4>1. \A x, y, z \in Nat : (x + y) * z = x * z + y * z /\ y * z \in Nat OBVIOUS
      <4>2. QED BY <1>7, <3>1, <4>1 DEF m
    <3> DEFINE a == j * size
               b == (index + j) * size
    <3> HIDE DEF start
    <3>3. EntryPlace(value, index + j, size) = value.range.location + b BY DEF EntryPlace
    <3>4. a \in Nat /\ b = m + a BY <3>2
    <3> HIDE DEF a, b
    <3>5. p + a = value.range.location + b BY <1>4, <1>7, <3>4
    <3>6. QED BY <2>8, <3>3, <3>5, Zenon DEF a
  <2>11. list = [i \in 1 .. count - index |-> EntryPlace(value, index + (i - 1), size)]
    <3> HIDE DEF start
    <3>1. QED BY <2>10
  <2>12. QED BY <2>9, <2>11, Zenon DEF PlacesFrom, value, count, size
<1>10. index = count \/ index < count BY <1>1 DEF count
<1>11. QED BY <1>8, <1>9, <1>10

\* The entries, and how many there are, are the file's.
LEMMA EntriesAreFiles ==
  ASSUME ReadInv, IsEntries, Whole
  PROVE  FileEntries = [i \in 1 .. EntryCount |-> EntryPlace(part.value, i - 1, ItemSize)]
<1> DEFINE value == part.value
           location == value.range.location
<1>1. segment # NoSegment /\ PartDerived(part) BY EntriesOf DEF ReadInv, IsEntries, Opened, PartFrom
<1>2. CASE part.kind = "symbols"
  <2> DEFINE class == mk_load_command_symtab
             id == LC.SYMTAB
  <2>1. Derived(value, class, id, "symoff") BY <1>1, <1>2 DEF PartDerived
  <2>2. ReadsField(class, "symoff", 4) /\ ReadsField(class, "nsyms", 4) BY TableFields
  <2>3. class.layout = struct_symtab_command BY DEF mk_load_command_symtab, Class
  <2> HIDE DEF class
  <2>4. /\ location =
              FileField(lc, segment.command.vtable.layout, "vmaddr") + image.slide
                + FileField(LastCommand({id}), class.layout, "symoff")
                - FileField(lc, segment.command.vtable.layout, "fileoff")
        /\ Value(value.command, "nsyms") = FileField(LastCommand({id}), class.layout, "nsyms")
    BY <1>1, <2>1, <2>2, NumbersAreFiles
  <2>5. (IF part.kind = "indirect" THEN LC.DYSYMTAB ELSE LC.SYMTAB) = id BY <1>2
  <2>6. location = FilePlace(struct_symtab_command, "symoff") BY <2>3, <2>4, <2>5, Zenon DEF FilePlace
  <2>7. EntryCount = FileCount(struct_symtab_command, "nsyms")
    BY <1>2, <2>3, <2>4, <2>5 DEF FileCount, EntryCount, CountField
  <2>8. FileEntries = [i \in 1 .. FileCount(struct_symtab_command, "nsyms") |->
                         FilePlace(struct_symtab_command, "symoff") + (i - 1) * ItemSize]
    BY <1>2 DEF FileEntries
  <2>9. QED BY <2>6, <2>7, <2>8, Zenon DEF EntryPlace
<1>3. CASE part.kind = "indirect"
  <2> DEFINE class == mk_load_command_dysymtab
             id == LC.DYSYMTAB
  <2>1. Derived(value, class, id, "indirectsymoff") BY <1>1, <1>3 DEF PartDerived
  <2>2. ReadsField(class, "indirectsymoff", 4) /\ ReadsField(class, "nindirectsyms", 4) BY TableFields
  <2>3. class.layout = struct_dysymtab_command BY DEF mk_load_command_dysymtab, Class
  <2> HIDE DEF class
  <2>4. /\ location =
              FileField(lc, segment.command.vtable.layout, "vmaddr") + image.slide
                + FileField(LastCommand({id}), class.layout, "indirectsymoff")
                - FileField(lc, segment.command.vtable.layout, "fileoff")
        /\ Value(value.command, "nindirectsyms") =
             FileField(LastCommand({id}), class.layout, "nindirectsyms")
    BY <1>1, <2>1, <2>2, NumbersAreFiles
  <2>5. (IF part.kind = "indirect" THEN LC.DYSYMTAB ELSE LC.SYMTAB) = id BY <1>3
  <2>6. location = FilePlace(struct_dysymtab_command, "indirectsymoff")
    BY <2>3, <2>4, <2>5, Zenon DEF FilePlace
  <2>7. EntryCount = FileCount(struct_dysymtab_command, "nindirectsyms")
    BY <1>3, <2>3, <2>4, <2>5 DEF FileCount, EntryCount, CountField
  <2>8. FileEntries = [i \in 1 .. FileCount(struct_dysymtab_command, "nindirectsyms") |->
                         FilePlace(struct_dysymtab_command, "indirectsymoff") + (i - 1) * ItemSize]
    BY <1>3 DEF FileEntries
  <2>9. QED BY <2>6, <2>7, <2>8, Zenon DEF EntryPlace
<1>4. QED BY <1>2, <1>3 DEF IsEntries

\* The pointers a list's enumerator is called with, from a place on.
EnumeratedFrom(index) ==
  CASE part.kind = "symbols" -> mk_symbol_table_enumerate_mach_symbols(part.value, index)
    [] part.kind = "indirect" -> mk_indirect_symbol_table_enumerate_entries(part.value, index)

\* Read to its end, a list has given the entries of the file, and the enumerator gives them too.
LEMMA EntriesComplete ==
  ASSUME ReadInv, EntriesFrom, IsEntries, Whole, FullyMapped, NextItem = NULL \/ NextUnmapped
  PROVE  /\ seen = FileEntries /\ Enumerated = seen
         /\ \A i \in DOMAIN seen : EnumeratedFrom(i - 1) = SubSeq(seen, i, Len(seen))
<1> DEFINE value == part.value
           size == ItemSize
           count == EntryCount
           n == Len(seen)
<1>1. /\ count \in Nat /\ seen \in Seq(Nat) /\ n \in Nat /\ n <= count
      /\ \A i \in DOMAIN seen : seen[i] = EntryPlace(value, i - 1, size)
  BY EntriesOf DEF EntriesFrom, ReadInv
<1>2. n = count
  <2>1. SUFFICES ASSUME n < count PROVE FALSE BY <1>1
  <2>2. NextPointer = Remapped(EntryPlace(value, n, size), size) BY <2>1 DEF NextPointer
  <2>3. Remapped(EntryPlace(value, n, size), size) # NULL BY <1>1, <2>1, EntryReached
  <2>4. ~ NextUnmapped BY <1>1, <2>1, UnmappedIsBehind DEF ReadInv, IsEntries
  <2>5. QED BY <2>2, <2>3, <2>4, NextEntry
<1>3. seen = [i \in 1 .. count |-> EntryPlace(value, i - 1, size)]
  <2>1. DOMAIN seen = 1 .. count /\ seen = [i \in 1 .. count |-> seen[i]] BY <1>1, <1>2
  <2> HIDE DEF count, value, size
  <2>2. \A i \in 1 .. count : seen[i] = EntryPlace(value, i - 1, size) BY <1>1, <2>1
  <2>3. [i \in 1 .. count |-> seen[i]] = [i \in 1 .. count |-> EntryPlace(value, i - 1, size)] BY <2>2
  <2>4. QED BY <2>1, <2>3, Zenon
<1>4. seen = FileEntries BY <1>3, EntriesAreFiles
<1>5. ASSUME NEW index \in 0 .. count PROVE EnumeratedFrom(index) = PlacesFrom(index)
  <2>1. EnumerateFrom(value, index, count, size) = PlacesFrom(index)
    BY <1>1, EnumerateIs
  <2>2. EnumeratedFrom(index) = EnumerateFrom(value, index, count, size)
    BY DEF EnumeratedFrom, IsEntries, EntryCount, CountField, ItemSize,
           mk_symbol_table_enumerate_mach_symbols, mk_indirect_symbol_table_enumerate_entries,
           mk_symbol_table_get_symbol_count, mk_indirect_symbol_table_get_entry_count
  <2>3. QED BY <2>1, <2>2
<1> HIDE DEF value, size, count, n
<1>6. ASSUME NEW index \in 0 .. count
      PROVE  PlacesFrom(index) = [i \in 1 .. count - index |-> seen[index + i]]
  <2>1. PlacesFrom(index) = [i \in 1 .. count - index |-> EntryPlace(value, index + (i - 1), size)]
    BY Zenon DEF PlacesFrom, count, value, size
  <2>2. ASSUME NEW i \in 1 .. count - index
        PROVE  EntryPlace(value, index + (i - 1), size) = seen[index + i]
    <3>1. index + i \in 1 .. count /\ (index + i) - 1 = index + (i - 1) BY <1>1
    <3>2. DOMAIN seen = 1 .. count BY <1>1, <1>2 DEF n
    <3>3. seen[index + i] = EntryPlace(value, (index + i) - 1, size) BY <1>1, <3>1, <3>2
    <3>4. QED BY <3>1, <3>3
  <2>3. [i \in 1 .. count - index |-> EntryPlace(value, index + (i - 1), size)]
          = [i \in 1 .. count - index |-> seen[index + i]]
    BY <2>2
  <2>4. QED BY <2>1, <2>3, Zenon
<1>7. Enumerated = seen
  <2>1. 0 \in 0 .. count /\ count - 0 = count /\ \A i \in 1 .. count : 0 + i = i BY <1>1
  <2>2. EnumeratedFrom(0) = [i \in 1 .. count - 0 |-> seen[0 + i]] BY <1>5, <1>6, <2>1
  <2>3. [i \in 1 .. count - 0 |-> seen[0 + i]] = [i \in 1 .. count |-> seen[i]] BY <2>1
  <2>4. seen = [i \in 1 .. count |-> seen[i]] BY <1>1, <1>2 DEF n
  <2>5. Enumerated = EnumeratedFrom(0) BY DEF Enumerated, EnumeratedFrom, IsEntries
  <2>6. QED BY <2>2, <2>3, <2>4, <2>5, Zenon
<1>8. ASSUME NEW i \in DOMAIN seen PROVE EnumeratedFrom(i - 1) = SubSeq(seen, i, Len(seen))
  <2>1. i \in 1 .. count /\ i - 1 \in 0 .. count /\ Len(seen) = count /\ count - (i - 1) = (count - i) + 1
    BY <1>1, <1>2 DEF n
  <2>2. EnumeratedFrom(i - 1) = [j \in 1 .. count - (i - 1) |-> seen[(i - 1) + j]] BY <1>5, <1>6, <2>1
  <2>3. SubSeq(seen, i, count) = [j \in 1 .. count - (i - 1) |-> seen[(i - 1) + j]]
    <3> DEFINE a == i - 1
               piece == SubSeq(seen, a + 1, count)
               list == [j \in 1 .. count - a |-> seen[a + j]]
    <3>1. a \in Nat /\ a <= count /\ count \in Nat /\ count <= Len(seen) /\ a + 1 = i BY <1>1, <2>1
    <3> HIDE DEF a
    <3>2. /\ piece \in Seq(Nat) /\ Len(piece) = count - a
          /\ \A j \in 1 .. count - a : piece[j] = seen[a + j]
      BY <1>1, <3>1, PieceOf
    <3>3. list \in Seq(Nat) /\ Len(list) = count - a
      <4>1. \A j \in 1 .. count - a : a + j \in 1 .. Len(seen) BY <1>1, <2>1, <3>1
      <4>2. count - a \in Nat /\ \A j \in 1 .. count - a : seen[a + j] \in Nat BY <1>1, <3>1, <4>1
      <4>3. QED BY <4>2
    <3>4. \A j \in 1 .. count - a : list[j] = seen[a + j] OBVIOUS
    <3> HIDE DEF piece, list
    <3>5. \A j \in 1 .. Len(piece) : piece[j] = list[j] BY <3>2, <3>3, <3>4
    <3>6. piece = list BY <3>2, <3>3, <3>5, SeqEqual, Zenon
    <3>7. SubSeq(seen, i, count) = list BY <3>1, <3>6 DEF piece
    <3>8. QED BY <3>7, Zenon DEF list, a
  <2>4. QED BY <2>1, <2>2, <2>3
<1>9. QED BY <1>4, <1>7, <1>8

----------------------------------------------------------------------------
(* What lies in a segment, and where the process ends.                     *)

\* A segment that is not mapped as a whole is one of a shared cache.
ShortInv == segment # NoSegment /\ ~ FullyMapped => mk_macho_is_from_shared_cache

\* An answer is no other one.
LEMMA AnswersDiffer ==
  /\ Trapped.err = "trapped" /\ ~ Succeeded(Trapped)
  /\ \A e : Fails(e).err = e
  /\ \A v : Ok(v).err = "ESUCCESS" /\ Ok(v).value = v /\ Succeeded(Ok(v)) /\ Ok(v) # Trapped
<1>1. Trapped.err = "trapped" BY DEF Trapped, Fails
<1>2. ~ Succeeded(Trapped) BY <1>1, "trapped" # "ESUCCESS" DEF Succeeded
<1>3. \A e : Fails(e).err = e BY DEF Fails
<1>4. ASSUME NEW v PROVE Ok(v).err = "ESUCCESS" /\ Ok(v).value = v BY DEF Ok
<1>5. ASSUME NEW v PROVE Succeeded(Ok(v)) BY <1>4 DEF Succeeded
<1>6. ASSUME NEW v PROVE Ok(v) # Trapped BY <1>2, <1>5
<1>7. QED BY <1>1, <1>2, <1>3, <1>4, <1>5, <1>6

\* What is mapped for a range that must be there as a whole is the whole of it, and the assertion
\* holds.
LEMMA FullObject ==
  ASSUME file \in Files, NEW address \in Word, NEW length \in Word,
         NEW made, made = mk_memory_map_init_object(0, address, length, TRUE)
  PROVE  made # Trapped /\ (Succeeded(made) => made.value.length >= length)
<1> DEFINE n == Found(address, length)
           wanted == Wanted(address, length)
           total == TotalOf(address, length)
           size == n * PageSize - (address - At(address))
<1>1. CASE TooLong(address, length)
  <2>1. made = Fails("EOVERFLOW") BY <1>1, ObjectIs
  <2>2. made.err = "EOVERFLOW" BY <2>1, AnswersDiffer
  <2>3. QED BY <2>2, AnswersDiffer DEF Succeeded
<1>2. CASE ~ TooLong(address, length)
  <2>1. total % PageSize = 0 /\ total \in Nat /\ total >= length + (address - At(address))
    BY <1>2, RoundedCovers
  <2>2. made = IF n = 0 \/ n < wanted THEN Fails("EBAD_ACCESS")
               ELSE Ok([target_address |-> address, address |-> address, length |-> size])
    BY <1>2, <2>1, ObjectIs
  <2>3. length \in Nat /\ address \in Nat /\ PageSize \in Nat \ {0}
    BY WordAssumption, PageAssumption DEF Word
  <2>4. /\ At(address) \in Nat /\ At(address) <= address /\ At(address) \div PageSize \in Nat
        /\ Most(address, length) \in Nat /\ wanted \in Nat
        /\ total % PageSize = 0 => wanted * PageSize = total
    BY <2>3, RequestTypes, Truncated DEF At
  <2>5. n \in Nat
    <3>1. n \in 0 .. Most(address, length) BY <2>4, PagesFound, Zenon DEF Found
    <3>2. QED BY <2>4, <3>1
  <2>6. wanted * PageSize = total BY <2>1, <2>4
  <2> HIDE DEF n, wanted, total
  <2>7. ASSUME ~ (n < wanted) PROVE size >= length
    <3>1. \A x, y, z \in Nat : y <= x => y * z <= x * z
      <4>1. SUFFICES ASSUME NEW x \in Nat, NEW y \in Nat, NEW z \in Nat, y <= x PROVE y * z <= x * z OBVIOUS
      <4>2. x - y \in Nat /\ (x - y) * z = x * z - y * z BY <4>1
      <4>3. (x - y) * z \in Nat BY <4>2
      <4>4. QED BY <4>2, <4>3
    <3>2. wanted <= n /\ wanted \in Nat /\ PageSize \in Nat BY <2>3, <2>4, <2>5, <2>7
    <3>3. wanted * PageSize <= n * PageSize /\ n * PageSize \in Nat BY <2>5, <3>1, <3>2
    <3>4. QED BY <2>1, <2>3, <2>4, <2>6, <3>3
  <2> HIDE DEF size
  <2>8. made = Fails("EBAD_ACCESS") \/
        (~ (n < wanted) /\ made = Ok([target_address |-> address, address |-> address, length |-> size]))
    BY <2>2
  <2>9. CASE made = Fails("EBAD_ACCESS")
    <3>1. made.err = "EBAD_ACCESS" BY <2>9, AnswersDiffer
    <3>2. QED BY <3>1, AnswersDiffer DEF Succeeded
  <2>10. CASE ~ (n < wanted) /\ made = Ok([target_address |-> address, address |-> address, length |-> size])
    <3>1. made # Trapped /\ made.value = [target_address |-> address, address |-> address, length |-> size]
      BY <2>10, AnswersDiffer
    <3>2. [target_address |-> address, address |-> address, length |-> size].length = size OBVIOUS
    <3>3. made.value.length = size BY <3>1, <3>2, Zenon
    <3>4. QED BY <2>7, <2>10, <3>1, <3>3
  <2>11. QED BY <2>8, <2>9, <2>10
<1>3. QED BY <1>1, <1>2

\* The numbers of the header and of the segment stay while what they are read from does.
LEMMA ShortStays ==
  ASSUME UNCHANGED <<cpu, file, image, segment>>
  PROVE  /\ mk_macho_is_from_shared_cache' <=> mk_macho_is_from_shared_cache
         /\ FullyMapped' <=> FullyMapped
<1>1. mem' = mem BY SameMemory
<1>2. QED
  BY <1>1 DEF mk_macho_is_from_shared_cache, mk_macho_get_flags, HeaderField, FullyMapped,
              mk_segment_get_mapping, mk_segment_get_vmsize, segment_getter

\* A segment that is opened is mapped as a whole, and the process goes on, unless it is the
\* link-edit segment of a shared cache.
LEMMA OpensShort == ASSUME Known, InitSegment PROVE ShortInv' /\ (crashed' => mk_macho_is_from_shared_cache')
<1> DEFINE opened == mk_segment_init_with_mach_load_command(lc)
           made == mk_load_command_init(mem, image.header_mapping, lc)
           command == made.value
           moved == mk_vm_address_apply_slide(segment_getter(command, "vmaddr"), image.slide)
           size == segment_getter(command, "vmsize")
           full == ~ AllowShortMappings(command)
           object == mk_memory_map_init_object(0, moved.value, size, full)
<1>1. /\ pc = "open" /\ UNCHANGED <<cpu, file, pc, image, lc>>
      /\ segment' = IF Succeeded(opened) THEN opened.value ELSE NoSegment
      /\ crashed' = (opened = Trapped)
  BY DEF InitSegment
<1>2. mem' = mem BY <1>1, SameMemory
<1>3. mk_macho_is_from_shared_cache' <=> mk_macho_is_from_shared_cache
  BY <1>1, <1>2 DEF mk_macho_is_from_shared_cache, mk_macho_get_flags, HeaderField
<1>4. AllowShortMappings(command) => mk_macho_is_from_shared_cache BY DEF AllowShortMappings
<1>5. ~ Succeeded(made) => made # Trapped
  BY DEF mk_load_command_init, Trapped, Fails, Ok, Succeeded
<1>6. opened = IF Succeeded(made) THEN mk_segment_init(command) ELSE made
  BY DEF mk_segment_init_with_mach_load_command, Then
<1>7. ~ Succeeded(Trapped) BY AnswersDiffer
<1>8. ASSUME Succeeded(made), opened = Trapped \/ Succeeded(opened)
      PROVE  /\ IsSegmentClass(command.vtable) /\ Succeeded(moved)
             /\ opened = IF Succeeded(object) THEN Ok([command |-> command, memory_object |-> object.value])
                         ELSE object
  <2>1. opened = mk_segment_init(command) BY <1>6, <1>8
  <2>2. command.vtable \in _mk_load_command_classes BY <1>8, CommandClass
  <2> HIDE DEF command, opened
  <2>3. command.vtable.name \in SegmentClasses
    <3>1. SUFFICES ASSUME command.vtable.name \notin SegmentClasses PROVE FALSE OBVIOUS
    <3>2. opened = Fails("EINVAL") BY <2>1, <3>1 DEF mk_segment_init
    <3>3. opened.err = "EINVAL" BY <3>2, AnswersDiffer
    <3>4. QED BY <1>8, <3>3, AnswersDiffer DEF Succeeded
  <2>4. IsSegmentClass(command.vtable)
    BY <2>2, <2>3, ClassIs, ClassNames DEF SegmentClasses, IsSegmentClass
  <2>5. Succeeded(moved)
    <3>1. CASE ~ Succeeded(moved)
      <4>1. opened = moved BY <2>1, <2>3, <3>1 DEF mk_segment_init, Then
      <4>2. moved # Trapped
        BY <3>1 DEF mk_vm_address_apply_slide, Trapped, Fails, Ok, Succeeded
      <4>3. QED BY <1>8, <3>1, <4>1, <4>2
    <3>2. QED BY <3>1
  <2> DEFINE zero == BeforeZero(mk_segment_copy_name(command)) = SEG_PAGEZERO
  <2>6. opened = IF zero THEN Fails("EUNAVAILABLE")
                 ELSE IF Succeeded(object) THEN Ok([command |-> command, memory_object |-> object.value])
                 ELSE object
    <3> HIDE DEF zero, moved, object, full, size
    <3> DEFINE inner == IF zero THEN Fails("EUNAVAILABLE") ELSE object
    <3>1. opened = IF Succeeded(inner)
                   THEN Ok([command |-> command, memory_object |-> inner.value]) ELSE inner
      BY <2>1, <2>3, <2>5 DEF mk_segment_init, Then, zero, moved, object, full, size
    <3>2. ~ Succeeded(Fails("EUNAVAILABLE")) BY DEF Succeeded, Fails
    <3>3. QED BY <3>1, <3>2
  <2> HIDE DEF zero, moved, object, full, size
  <2>7. ~ zero BY <1>8, <2>6 DEF Succeeded, Fails, Trapped
  <2>8. QED BY <2>4, <2>5, <2>6, <2>7
<1>9. ASSUME Succeeded(made), opened = Trapped \/ Succeeded(opened), ~ mk_macho_is_from_shared_cache
      PROVE  /\ Succeeded(opened) /\ opened.value.command = command
             /\ opened.value.memory_object.length >= size
  <2>1. full = TRUE BY <1>4, <1>9
  <2>2. image.slide \in Slide /\ file \in Files BY <1>1 DEF Known, Mapped
  <2>3. segment_getter(command, "vmaddr") \in Word /\ size \in Word
    BY <1>8, <1>9, ExtentNumbers DEF Extents
  <2>4. moved.value \in Word BY <1>8, <1>9, <2>2, <2>3, MovedAddress
  <2>5. object = mk_memory_map_init_object(0, moved.value, size, TRUE) BY <2>1
  <2>6. opened = IF Succeeded(object) THEN Ok([command |-> command, memory_object |-> object.value])
                 ELSE object
    BY <1>8, <1>9
  <2> HIDE DEF opened, object, moved, size, full, command
  <2>7. object # Trapped /\ (Succeeded(object) => object.value.length >= size)
    BY <2>2, <2>3, <2>4, <2>5, FullObject
  <2>8. Succeeded(object) BY <1>9, <2>6, <2>7
  <2>9. opened = Ok([command |-> command, memory_object |-> object.value]) BY <2>6, <2>8
  <2>10. QED BY <2>7, <2>8, <2>9 DEF Ok, Succeeded
<1>10. crashed' => mk_macho_is_from_shared_cache'
  <2>1. SUFFICES ASSUME crashed', ~ mk_macho_is_from_shared_cache PROVE FALSE BY <1>3
  <2>2. opened = Trapped BY <1>1, <2>1
  <2>3. Succeeded(made) BY <1>5, <1>6, <2>2
  <2> HIDE DEF made, opened
  <2>4. Succeeded(opened) BY <1>9, <2>1, <2>2, <2>3
  <2>5. QED BY <1>7, <2>2, <2>4
<1>11. ShortInv'
  <2>1. SUFFICES ASSUME segment' # NoSegment, ~ mk_macho_is_from_shared_cache PROVE FullyMapped'
    BY <1>3 DEF ShortInv
  <2> HIDE DEF opened, made
  <2>2. Succeeded(opened) /\ segment' = opened.value BY <1>1, <2>1
  <2>3. Succeeded(made) BY <1>6, <2>2
  <2>4. opened.value.command = command /\ opened.value.memory_object.length >= size BY <1>9, <2>1, <2>2, <2>3
  <2>5. mk_segment_get_vmsize(segment)' = size
    BY <1>2, <2>2, <2>4 DEF mk_segment_get_vmsize, segment_getter
  <2>6. QED BY <2>2, <2>4, <2>5 DEF FullyMapped, mk_segment_get_mapping
<1>12. QED BY <1>10, <1>11

\* The sizes of what is open are numbers.
LEMMA LengthsAreNumbers ==
  Opened => mk_segment_get_mapping(segment).length \in Nat /\ mk_segment_get_vmsize(segment) \in Nat
<1> SUFFICES ASSUME Opened
             PROVE  mk_segment_get_mapping(segment).length \in Nat /\ mk_segment_get_vmsize(segment) \in Nat
  OBVIOUS
<1>1. mk_segment_get_mapping(segment).length \in Nat BY WindowNumbers DEF mk_segment_get_mapping
<1>2. Outer.length = mk_segment_get_vmsize(segment)
  BY DEF Outer, mk_segment_get_target_range, mk_vm_range_make
<1>3. QED BY <1>1, <1>2, OuterNumbers

\* Every step keeps it, and ends the process nowhere else.
EndInv == ReadInv /\ ShortInv /\ EndsForShortCache

LEMMA EndStep == EndInv /\ [LinkEditNext]_allVars => EndInv'
<1> SUFFICES ASSUME EndInv, [LinkEditNext]_allVars PROVE EndInv' OBVIOUS
<1>1. ReadInv /\ ShortInv /\ EndsForShortCache /\ Known BY DEF EndInv, ReadInv, LinkInv
<1>2. ReadInv' BY <1>1, ReadStep
<1>3. ASSUME UNCHANGED <<cpu, file, image, segment>> PROVE ShortInv'
  BY <1>1, <1>3, ShortStays DEF ShortInv
<1>4. ASSUME ~ crashed' PROVE EndsForShortCache' BY <1>4 DEF EndsForShortCache
<1>5. CASE UNCHANGED allVars
  <2>1. UNCHANGED <<cpu, file, image, segment, part, crashed>> BY <1>5 DEF allVars, vars, segmentVars
  <2>2. mk_segment_get_vmsize(segment)' = mk_segment_get_vmsize(segment)
    BY <2>1, SameMemory DEF mk_segment_get_vmsize, segment_getter
  <2>3. EndsForShortCache'
    BY <1>1, <2>1, <2>2, ShortStays DEF EndsForShortCache, mk_segment_get_mapping
  <2>4. QED BY <1>2, <1>3, <2>1, <2>3 DEF EndInv
<1>6. CASE LinkEditNext /\ segment' = NoSegment /\ crashed' = crashed
  <2>1. ShortInv' BY <1>6 DEF ShortInv
  <2>2. EndsForShortCache' BY <1>4, <1>6 DEF LinkEditNext
  <2>3. QED BY <1>2, <2>1, <2>2 DEF EndInv
<1>7. CASE LinkEditNext /\ UNCHANGED <<cpu, file, image, segment, crashed>>
  <2>1. EndsForShortCache' BY <1>4, <1>7 DEF LinkEditNext
  <2>2. QED BY <1>2, <1>3, <1>7, <2>1 DEF EndInv
<1>8. CASE InitSegment
  <2>1. ShortInv' /\ (crashed' => mk_macho_is_from_shared_cache') BY <1>1, <1>8, OpensShort
  <2>2. crashed' => segment' = NoSegment
    <3> DEFINE opened == mk_segment_init_with_mach_load_command(lc)
    <3>1. /\ crashed' = (opened = Trapped)
          /\ segment' = IF Succeeded(opened) THEN opened.value ELSE NoSegment
      BY <1>8 DEF InitSegment
    <3> HIDE DEF opened
    <3>2. QED BY <3>1, AnswersDiffer
  <2>3. QED BY <1>2, <2>1, <2>2 DEF EndInv, EndsForShortCache
<1>9. CASE ReadUnmapped
  <2>1. part # None /\ NextUnmapped /\ UNCHANGED <<cpu, file, image, segment, part>>
    BY <1>9 DEF ReadUnmapped, vars
  <2>2. ~ FullyMapped /\ segment # NoSegment BY <1>1, <2>1, UnmappedIsBehind DEF ReadInv, LinkInv, PartInv
  <2>3. mk_macho_is_from_shared_cache BY <1>1, <2>2 DEF ShortInv
  <2>4. ~ FullyMapped' /\ mk_macho_is_from_shared_cache' BY <2>1, <2>2, <2>3, ShortStays
  <2>5. mk_segment_get_mapping(segment)'.length < mk_segment_get_vmsize(segment)'
    <3>1. Opened' BY <1>2, <2>1, <2>2 DEF ReadInv, LinkInv, Opened
    <3>2. (Opened => /\ mk_segment_get_mapping(segment).length \in Nat
                     /\ mk_segment_get_vmsize(segment) \in Nat)'
      BY LengthsAreNumbers, PTL
    <3>3. QED BY <2>4, <3>1, <3>2 DEF FullyMapped
  <2>6. part'.kind = "indirect" BY <2>1 DEF NextUnmapped
  <2>7. EndsForShortCache' BY <2>4, <2>5, <2>6 DEF EndsForShortCache
  <2>8. QED BY <1>2, <1>3, <2>1, <2>7 DEF EndInv
<1>10. CASE ImageNext
  <2>1. segment' = NoSegment /\ crashed' = crashed BY <1>10 DEF ImageNext, segmentVars
  <2>2. ShortInv' BY <2>1 DEF ShortInv
  <2>3. ~ crashed \/ UNCHANGED allVars BY DEF LinkEditNext
  <2>4. QED BY <1>2, <1>4, <1>5, <2>1, <2>2, <2>3 DEF EndInv
<1>11. CASE LinkEditNext /\ mk_segment_free BY <1>6, <1>11 DEF mk_segment_free
<1>12. CASE LinkEditNext /\ (InitSection \/ InitSymbols \/ InitStrings \/ InitIndirect \/ InitExports)
  BY <1>7, <1>12 DEF InitSection, InitSymbols, InitStrings, InitIndirect, InitExports, InitPart
<1>13. CASE LinkEditNext /\ (FreePart \/ ReadItem)
  BY <1>7, <1>13 DEF FreePart, ReadItem, vars
<1>14. QED BY <1>5, <1>8, <1>9, <1>10, <1>11, <1>12, <1>13 DEF LinkEditNext

\* Whatever the file says, a table a call has succeeded in making lies in its segment, a section
\* that it has set in what is mapped, and each item that is read in its table and in what is mapped;
\* such a section that is not empty can be mapped by itself, whole.  The process is ended by the
\* assertion, and by an indirect symbol that is not mapped, only where a shared cache may be short.
THEOREM PartsStayInside == LinkEditSpec => []PartsInSegment
<1>1. EndInv => PartsInSegment
  <2>0. SUFFICES ASSUME EndInv PROVE PartsInSegment OBVIOUS
  <2> DEFINE range == IF Table THEN part.value.range
                      ELSE mk_section_get_target_range(segment, part.value.command)
             outer == mk_segment_get_target_range(segment)
             mapping == mk_segment_get_mapping(segment)
             mapped == mk_section_init_mapping(segment, part.value.command)
  <2>1. SUFFICES ASSUME part # None, part.kind = "section" => part.value.set
                 PROVE  /\ Table => /\ range.location >= outer.location
                                    /\ range.location + range.length <= outer.location + outer.length
                        /\ ~ Table =>
                             /\ range.location >= mapping.target_address
                             /\ range.location + range.length <= mapping.target_address + mapping.length
                             /\ range.length > 0 => /\ Succeeded(mapped)
                                                    /\ mapped.value.target_address = range.location
                                                    /\ mapped.value.length >= range.length
                        /\ \A i \in DOMAIN seen :
                             /\ InMapping(seen[i], ItemSize)
                             /\ seen[i] >= range.location
                             /\ seen[i] + ItemSize <= range.location + range.length
    BY <2>0, Zenon DEF EndInv, PartsInSegment
  <2>2. Opened /\ PartInv /\ SeenInv /\ SegmentFrom
    BY <2>0, <2>1 DEF EndInv, ReadInv, LinkInv, Opened, PartInv
  <2>3. PartSuits(part) BY <2>1, <2>2 DEF PartInv
  <2>4. CASE Table
    <3>1. Lies(part.value.range, Outer) BY <2>3, <2>4 DEF PartSuits, Table, IsTable
    <3>2. range = part.value.range BY <2>4
    <3>3. \A i \in DOMAIN seen :
            /\ InMapping(seen[i], ItemSize)
            /\ seen[i] >= range.location /\ seen[i] + ItemSize <= range.location + range.length
      BY <2>1, <2>2, <3>2, ItemFits DEF RangeEnd
    <3>4. QED BY <2>4, <3>1, <3>2, <3>3 DEF Lies, Outer
  <2>5. CASE ~ Table
    <3>1. part.kind = "section" /\ part.value.set /\ SectionSuits(part.value)
      BY <2>1, <2>3, <2>5 DEF PartSuits, Table
    <3>2. seen = <<>> BY <2>1, <2>2, <3>1 DEF SeenInv
    <3>3. range = mk_section_get_target_range(segment, part.value.command) BY <2>5
    <3>4. Lies(range, Window) BY <3>1, <3>3 DEF SectionSuits
    <3>5. /\ range.location >= mapping.target_address
          /\ range.location + range.length <= mapping.target_address + mapping.length
          /\ range.location \in Nat /\ range.length \in Nat
      BY <3>4 DEF Lies, Window, mk_vm_range_make, mk_segment_get_mapping
    <3>6. /\ mapping.target_address \in Nat /\ mapping.length \in Nat /\ MaxWord \in Nat
          /\ mapping.target_address + mapping.length <= MaxWord
      BY <2>2, SegmentPlace, WindowNumbers, WordAssumption DEF mk_segment_get_mapping
    <3>7. ASSUME range.length > 0
          PROVE  /\ Succeeded(mapped) /\ mapped.value.target_address = range.location
                 /\ mapped.value.length >= range.length
      <4>1. mapped = mk_memory_map_init_object(0, range.location, range.length, FALSE)
        <5> DEFINE own == mk_section_get_target_range(segment, part.value.command)
        <5>1. mapped = IF own.length = 0 THEN Fails("ENOT_FOUND")
                       ELSE mk_memory_map_init_object(0, own.location, own.length, FALSE)
          BY DEF mk_section_init_mapping
        <5>2. own = range BY <3>3
        <5> HIDE DEF own, range, mapped
        <5>3. range.length # 0 BY <3>5, <3>7
        <5>4. QED BY <5>1, <5>2, <5>3
      <4> HIDE DEF range, mapped
      <4>2. range.location \in Word /\ range.length \in Nat \ {0}
        <5> HIDE DEF mapping
        <5>1. range.location <= MaxWord /\ range.length # 0 BY <3>5, <3>6, <3>7
        <5>2. QED BY <3>5, <5>1 DEF Word
      <4>3. file \in Files /\ Backed(mapping) BY <2>2 DEF Opened, Known, SegmentInv, mk_segment_get_mapping
      <4> HIDE DEF mapping
      <4>4. QED BY <3>5, <3>6, <4>1, <4>2, <4>3, RangeIsMapped
    <3>8. QED
      <4> HIDE DEF mapped, mapping
      <4>1. QED BY <2>5, <3>2, <3>5, <3>7
  <2>6. QED BY <2>4, <2>5
<1>2. LinkEditInit => EndInv
  BY ReadInit DEF LinkEditInit, EndInv, ShortInv, EndsForShortCache
<1>3. EndInv /\ [LinkEditNext]_allVars => EndInv' BY EndStep
<1>4. QED BY <1>1, <1>2, <1>3, PTL DEF LinkEditSpec

----------------------------------------------------------------------------
(* The strings of a string table.                                          *)

\* A byte of what is read at once is the byte of the file there.
LEMMA ByteIsFile ==
  ASSUME file \in Files, NEW p \in Nat, NEW n \in Nat, NEW i \in 1 .. n
  PROVE  Peek(mem, p, n)[i] = FileWord(p + (i - 1), 1)
<1> DEFINE bytes == Peek(mem, p + (i - 1), 1)
           at(y) == IF y - mem.at \in DOMAIN mem.bytes THEN mem.bytes[y - mem.at] ELSE 0
<1>1. mem.bytes \in Seq(Byte) /\ mem.at \in Nat BY ImageAssumption DEF mem, Word
<1>2. bytes \in Seq(Nat) /\ Len(bytes) = 1 BY <1>1, PeekType
<1>3. bytes[1] = Peek(mem, p, n)[i]
  <2>1. Peek(mem, p, n)[i] = at(p + i)
    <3>1. (p - mem.at) + i = (p + i) - mem.at BY <1>1
    <3>2. Peek(mem, p, n)[i] = IF p - mem.at + i \in DOMAIN mem.bytes THEN mem.bytes[p - mem.at + i] ELSE 0
      BY DEF Peek
    <3>3. p - mem.at + i = (p + i) - mem.at BY <1>1
    <3>4. QED BY <3>2, <3>3
  <2>2. bytes[1] = at(p + i)
    <3> DEFINE q == p + (i - 1)
    <3>1. q - mem.at + 1 = (p + i) - mem.at BY <1>1
    <3> HIDE DEF q
    <3>2. Peek(mem, q, 1)[1] = IF q - mem.at + 1 \in DOMAIN mem.bytes THEN mem.bytes[q - mem.at + 1] ELSE 0
      BY DEF Peek
    <3>3. QED BY <3>1, <3>2 DEF q
  <2>3. QED BY <2>1, <2>2
<1> HIDE DEF bytes
<1>4. bytes[1] \in Nat
  <2> HIDE DEF at
  <2>1. 1 \in 1 .. Len(bytes) BY <1>2
  <2>2. QED BY <1>2, <2>1, ElementOfSeq
<1>5. FromBytes(bytes) = bytes[1]
  <2> DEFINE digits == Reverse(bytes)
             base == ByteValues
  <2>1. digits \in Seq(Nat) /\ Len(digits) = 1 /\ digits[1] = bytes[1]
    <3>1. digits = [j \in 1 .. 1 |-> bytes[(1 - j) + 1]] BY <1>2 DEF Reverse
    <3>2. \A j \in 1 .. 1 : bytes[(1 - j) + 1] \in Nat /\ bytes[(1 - j) + 1] = bytes[1]
      <4>1. \A j \in 1 .. 1 : (1 - j) + 1 = 1 OBVIOUS
      <4>2. QED BY <4>1, <1>4
    <3> HIDE DEF digits
    <3>3. QED BY <3>1, <3>2
  <2>2. base \in Nat BY ByteAssumption
  <2> HIDE DEF digits, base
  <2>3. PICK number \in [0 .. Len(digits) -> Nat] :
           /\ number[0] = 0
           /\ \A j \in 1 .. Len(digits) : number[j] = base * number[j - 1] + digits[j]
           /\ Horner(base, digits) = number[Len(digits)]
    BY <2>1, <2>2, HornerSteps
  <2>4. number[1] = base * number[0] + digits[1]
    <3>1. 1 \in 1 .. Len(digits) /\ 1 - 1 = 0 BY <2>1
    <3>2. QED BY <2>3, <3>1
  <2>5. Horner(base, digits) = digits[1]
    <3>1. base * 0 = 0 BY <2>2
    <3>2. digits[1] \in Nat BY <2>1
    <3>3. QED BY <2>1, <2>3, <2>4, <3>1, <3>2
  <2>6. QED BY <2>1, <2>5 DEF FromBytes, digits, base
<1>6. QED BY <1>3, <1>5 DEF FileWord, bytes

\* Where the string behind the one at a place begins, and where strings begin.
Follow(p) == p + strnlen(mem, p, RangeEnd - p) + 1
Starts == {p \in part.value.range.location .. RangeEnd - 1 :
             p = part.value.range.location \/ FileWord(p - 1, 1) = 0}

\* No zero before, and a zero at the end unless the table ends there.
LEMMA FollowIs ==
  ASSUME file \in Files, RangeEnd \in Nat, NEW p \in Nat, p < RangeEnd
  PROVE  /\ Follow(p) \in p + 1 .. RangeEnd + 1
         /\ \A q \in p .. RangeEnd - 1 : q < Follow(p) - 1 => FileWord(q, 1) # 0
         /\ Follow(p) <= RangeEnd => FileWord(Follow(p) - 1, 1) = 0
<1> DEFINE end == RangeEnd
           most == end - p
           bytes == Peek(mem, p, most)
           length == Len(BeforeZero(bytes))
<1>1. most \in Nat \ {0} /\ end \in Nat OBVIOUS
<1>2. Follow(p) = p + length + 1 BY DEF Follow, strnlen
<1> HIDE DEF end, most
<1>3. bytes \in Seq(Nat) /\ Len(bytes) = most
  <2>1. mem.bytes \in Seq(Byte) BY ImageAssumption DEF mem
  <2>2. QED BY <1>1, <2>1, PeekType
<1>4. \A i \in 1 .. most : bytes[i] = FileWord(p + (i - 1), 1) BY <1>1, ByteIsFile
<1> HIDE DEF bytes
<1>5. /\ length \in 0 .. most /\ \A i \in 1 .. length : bytes[i] # 0
      /\ length < most => bytes[length + 1] = 0
  BY <1>3, UpToZero
<1> HIDE DEF length
<1>6. p + most = end BY DEF most, end
<1>7. Follow(p) \in p + 1 .. end + 1 BY <1>1, <1>2, <1>5, <1>6
<1>8. ASSUME NEW q \in p .. end - 1, q < Follow(p) - 1 PROVE FileWord(q, 1) # 0
  <2> DEFINE i == (q - p) + 1
  <2>1. i \in 1 .. length /\ p + (i - 1) = q BY <1>1, <1>2, <1>5, <1>8
  <2> HIDE DEF i
  <2>2. i \in 1 .. most BY <1>1, <1>5, <2>1
  <2>3. QED BY <1>4, <1>5, <2>1, <2>2
<1>9. ASSUME Follow(p) <= end PROVE FileWord(Follow(p) - 1, 1) = 0
  <2> DEFINE i == length + 1
  <2>1. i \in 1 .. most /\ length < most /\ p + (i - 1) = Follow(p) - 1
    BY <1>1, <1>2, <1>5, <1>6, <1>9
  <2>2. bytes[i] = 0 BY <1>5, <2>1
  <2> HIDE DEF i
  <2>3. QED BY <1>4, <2>1, <2>2
<1>10. QED BY <1>7, <1>8, <1>9 DEF end

\* From where one string begins the next begins at Follow, if the table has one.
LEMMA StartsFollow ==
  ASSUME file \in Files, RangeEnd \in Nat, part.value.range.location \in Nat, NEW p \in Starts
  PROVE  /\ p \in Nat /\ p < RangeEnd /\ p >= part.value.range.location
         /\ Follow(p) \in p + 1 .. RangeEnd + 1
         /\ Follow(p) < RangeEnd => Follow(p) \in Starts
         /\ \A q \in Starts : q > p => q >= Follow(p)
<1> DEFINE end == RangeEnd
           location == part.value.range.location
           next == Follow(p)
<1>1. p \in Nat /\ p < end /\ p >= location BY DEF Starts
<1>2. /\ next \in p + 1 .. end + 1
      /\ \A q \in p .. end - 1 : q < next - 1 => FileWord(q, 1) # 0
      /\ next <= end => FileWord(next - 1, 1) = 0
  BY <1>1, FollowIs
<1> HIDE DEF next
<1>3. next < end => next \in Starts BY <1>1, <1>2 DEF Starts
<1>4. ASSUME NEW q \in Starts, q > p PROVE q >= next
  <2>1. q \in location .. end - 1 /\ (q = location \/ FileWord(q - 1, 1) = 0) BY DEF Starts
  <2> DEFINE r == q - 1
  <2>2. q # location /\ r \in p .. end - 1 /\ q \in Nat BY <1>1, <1>4, <2>1
  <2>3. FileWord(r, 1) = 0 BY <2>1, <2>2
  <2>4. ~ (r < next - 1) BY <1>2, <2>2, <2>3
  <2>5. QED BY <1>1, <1>2, <2>2, <2>4
<1>5. QED BY <1>1, <1>2, <1>3, <1>4 DEF next

IsStrings == part.kind = "strings"

\* The place of the string behind the last has four bytes: behind the last byte of the longest
\* table it is the first place again.
Cycles ==
  /\ part.value.range.length = UINT_MAX(4) /\ part.value.range.length > 0
  /\ FileWord(RangeEnd - 1, 1) # 0

\* A table of strings, and the items read of it.
LEMMA StringsOf ==
  ASSUME ReadInv, IsStrings
  PROVE  /\ Opened /\ PartInv /\ SeenInv /\ part # None /\ segment # NoSegment /\ IsTable(part.value)
         /\ file \in Files /\ part.value.range.location \in Nat /\ part.value.range.length \in Nat
         /\ RangeEnd = part.value.range.location + part.value.range.length /\ RangeEnd \in Nat
         /\ part.value.range.length <= UINT_MAX(4) /\ UINT_MAX(4) \in Nat
         /\ \A i \in DOMAIN seen : ItemLies(seen[i])
         /\ seen \in Seq(Nat) /\ item = IF seen = <<>> THEN NULL ELSE seen[Len(seen)]
<1>1. part # None BY DEF IsStrings, None
<1>2. Opened /\ PartInv /\ SeenInv /\ PartSuits(part) /\ PartDerived(part) /\ segment # NoSegment
  BY <1>1 DEF ReadInv, LinkInv, PartInv, Opened, PartFrom
<1>3. IsTable(part.value) BY <1>2 DEF PartSuits, IsStrings
<1>4. part.value.range.location \in Nat /\ part.value.range.length \in Nat BY <1>3 DEF IsTable, Lies
<1>5. file \in Files BY <1>2 DEF Opened, Known
<1>6. part.value.range.length \in 0 .. UINT_MAX(4)
  <2> DEFINE class == mk_load_command_symtab
  <2>1. /\ part.value.command.vtable = class
        /\ part.value.range.length = Value(part.value.command, "strsize")
    BY <1>2 DEF PartDerived, IsStrings, Derived
  <2>2. ReadsField(class, "strsize", 4) BY TableFields
  <2> HIDE DEF class
  <2>3. 4 \in 0 .. 8 OBVIOUS
  <2>4. Value(part.value.command, "strsize") \in 0 .. UINT_MAX(4)
    BY <1>2, <2>1, <2>2, <2>3, ValueIsFile DEF Opened, Known
  <2>5. QED BY <2>1, <2>4
<1>7. UINT_MAX(4) \in Nat BY WordBounds
<1>8. seen \in Seq(Nat) /\ item = (IF seen = <<>> THEN NULL ELSE seen[Len(seen)])
      /\ \A i \in DOMAIN seen : ItemLies(seen[i])
  BY <1>1, <1>2 DEF SeenInv
<1>9. RangeEnd = part.value.range.location + part.value.range.length /\ RangeEnd \in Nat
  BY <1>4 DEF RangeEnd
<1>10. part.value.range.length <= UINT_MAX(4) BY <1>6, <1>7
<1>11. QED BY <1>1, <1>2, <1>3, <1>4, <1>5, <1>7, <1>8, <1>9, <1>10

\* A string at an offset in a table of a segment that is mapped as a whole.
LEMMA StringIsThere ==
  ASSUME ReadInv, IsStrings, FullyMapped, NEW offset \in Nat, offset < part.value.range.length
  PROVE  /\ mk_string_table_get_string_at_offset(part.value, offset) = part.value.range.location + offset
         /\ part.value.range.location + offset # NULL
<1> DEFINE value == part.value
           location == value.range.location
           p == location + offset
           end == location + value.range.length
<1>1. /\ Opened /\ IsTable(value) /\ location \in Nat /\ value.range.length \in Nat /\ segment # NoSegment
  BY StringsOf
<1>2. p \in Nat /\ p >= location /\ p < end /\ p - location = offset /\ end - p \in Nat
      /\ p + (end - p) = end
  BY <1>1
<1>3. end = value.range.location + value.range.length OBVIOUS
<1> HIDE DEF p, end, value, location
<1>4. Reachable(p, end - p) /\ p # NULL
  <2> DEFINE most == end - p
  <2>1. most \in Nat /\ p + most = end BY <1>2
  <2> HIDE DEF most
  <2>2. p >= value.range.location /\ p + most <= value.range.location + value.range.length
    <3>1. end \in Nat BY <1>2, <2>1
    <3>2. QED BY <1>2, <1>3, <2>1, <3>1 DEF location
  <2>3. Reachable(p, most) /\ p # NULL BY <1>1, <1>2, <2>1, <2>2, TableReached
  <2>4. QED BY <2>3 DEF most
<1>5. mk_string_table_get_string_at_offset(value, p - value.range.location) = p
  <2>1. p >= value.range.location BY <1>2 DEF location
  <2>2. QED BY <1>1, <1>2, <1>3, <1>4, <2>1, StringPointer
<1>6. QED BY <1>2, <1>4, <1>5 DEF location, value, p

\* Where the next string would be.
NextPlace == IF seen = <<>> THEN part.value.range.location ELSE Follow(item)
NextOffset == (NextPlace - part.value.range.location) % (UINT_MAX(4) + 1)

\* The item that follows is the string at that offset, the one behind the last unless it cycles.
LEMMA NextString ==
  ASSUME ReadInv, IsStrings
  PROVE  /\ NextItem = mk_string_table_get_string_at_offset(part.value, NextOffset)
         /\ NextPlace \in Nat /\ NextPlace >= part.value.range.location /\ NextPlace <= RangeEnd + 1
         /\ ~ Cycles => NextOffset = NextPlace - part.value.range.location
<1> DEFINE value == part.value
           location == value.range.location
           n == value.range.length
           max == UINT_MAX(4)
           offset == NextPlace - location
<1>1. /\ Opened /\ IsTable(value) /\ location \in Nat /\ n \in Nat /\ PartInv /\ SeenInv /\ part # None
      /\ RangeEnd = location + n /\ RangeEnd \in Nat /\ n <= max /\ max \in Nat /\ file \in Files
      /\ seen \in Seq(Nat) /\ item = IF seen = <<>> THEN NULL ELSE seen[Len(seen)]
      /\ \A i \in DOMAIN seen : ItemLies(seen[i])
  BY StringsOf
<1>2. NextItem = mk_string_table_next_string(value, item) BY DEF NextItem, IsStrings
<1>3. CASE seen = <<>>
  <2>1. item = NULL /\ NextPlace = location BY <1>1, <1>3 DEF NextPlace
  <2>2. NextItem = mk_string_table_get_string_at_offset(value, 0)
    BY <1>2, <2>1 DEF mk_string_table_next_string
  <2>3. offset = 0 BY <1>1, <2>1
  <2> HIDE DEF offset, location
  <2>4. (0 % (max + 1)) = 0 BY <1>1
  <2>5. NextOffset = 0 BY <2>3, <2>4 DEF NextOffset, offset, location
  <2>6. QED BY <1>1, <2>1, <2>2, <2>3, <2>5 DEF offset, location
<1>4. CASE seen # <<>>
  <2>1. ItemLies(item)
    <3>1. Len(seen) # 0 /\ Len(seen) \in Nat BY <1>1, <1>4, EmptySeq
    <3>2. Len(seen) \in DOMAIN seen BY <1>1, <3>1
    <3>3. QED BY <1>1, <1>4, <3>2
  <2>2. /\ item \in Nat /\ item >= location /\ item < RangeEnd /\ Reachable(item, RangeEnd - item)
    BY <1>1, <2>1 DEF ItemLies, Reach, ItemSize, IsStrings
  <2>3. /\ Follow(item) \in item + 1 .. RangeEnd + 1
        /\ Follow(item) <= RangeEnd => FileWord(Follow(item) - 1, 1) = 0
        /\ \A q \in item .. RangeEnd - 1 : q < Follow(item) - 1 => FileWord(q, 1) # 0
    BY <1>1, <2>2, FollowIs
  <2>4. PlaceOf(value, item) = Ok(item - location)
    <3>1. 1 \in 0 .. RangeEnd - item /\ RangeEnd - item \in Nat BY <1>1, <2>2
    <3>2. Reachable(item, 1) BY <1>1, <2>2, <3>1, ReachesLess
    <3>3. item < value.range.location + value.range.length BY <1>1, <2>2
    <3> HIDE DEF value
    <3>4. QED BY <1>1, <2>2, <3>2, <3>3, PlaceIs
  <2>5. Outer.location \in Nat \ {0} BY <1>1, SegmentPlace DEF ReadInv
  <2>6. item # NULL
    <3>1. location >= Outer.location BY <1>1 DEF IsTable, Lies
    <3>2. QED BY <1>1, <2>2, <2>5, <3>1 DEF NULL
  <2> DEFINE place == PlaceOf(value, item)
             length == strnlen(mem, item, RangeEnd - item)
  <2>7. Succeeded(place) /\ place.value = item - location BY <2>4 DEF Succeeded, Ok
  <2>8. n - (item - location) = RangeEnd - item
    <3>1. RangeEnd = location + n /\ location \in Nat /\ n \in Nat /\ item \in Nat BY <1>1, <2>2
    <3> HIDE DEF place, length, n, location
    <3>2. QED BY <3>1
  <2> HIDE DEF place
  <2>9. strnlen(mem, item, n - place.value) = length BY <2>7, <2>8, Zenon
  <2> HIDE DEF length
  <2>10. NextItem = mk_string_table_get_string_at_offset(value, (place.value + length + 1) % (max + 1))
    BY <1>2, <2>6, <2>7, <2>9 DEF mk_string_table_next_string, place
  <2>11. place.value + length + 1 = offset
    <3>1. Follow(item) = item + length + 1 BY DEF Follow, length
    <3>2. length \in Nat
      <4>1. RangeEnd - item \in Nat BY <1>1, <2>2
      <4> DEFINE most == RangeEnd - item
      <4> HIDE DEF most
      <4>2. most \in Nat BY <4>1 DEF most
      <4>3. strnlen(mem, item, most) \in 0 .. most BY <1>1, <4>2, LengthNumber
      <4>4. length = strnlen(mem, item, most) BY DEF most, length
      <4>5. QED BY <4>2, <4>3, <4>4
    <3>3. NextPlace = item + length + 1 BY <1>4, <3>1 DEF NextPlace
    <3>4. location \in Nat /\ item \in Nat /\ place.value = item - location BY <1>1, <2>2, <2>7
    <3> HIDE DEF location
    <3>5. QED BY <3>2, <3>3, <3>4
  <2>12. NextItem = mk_string_table_get_string_at_offset(value, NextOffset)
    <3> HIDE DEF offset
    <3>1. (place.value + length + 1) % (max + 1) = NextOffset BY <2>11, Zenon DEF NextOffset, offset
    <3>2. QED BY <2>10, <3>1, Zenon
  <2>13. NextPlace = Follow(item) BY <1>4 DEF NextPlace
  <2>14. NextPlace \in Nat /\ NextPlace >= location /\ NextPlace <= RangeEnd + 1
    <3>1. location \in Nat /\ item \in Nat /\ item >= location /\ RangeEnd \in Nat BY <1>1, <2>2
    <3>2. NextPlace \in item + 1 .. RangeEnd + 1 BY <2>3, <2>13
    <3> HIDE DEF location
    <3>3. QED BY <3>1, <3>2
  <2>15. ASSUME ~ Cycles PROVE NextOffset = offset
    <3>1. offset \in 0 .. max
      <4>0. location \in Nat /\ n \in Nat /\ max \in Nat /\ n <= max /\ RangeEnd = location + n
        BY <1>1
      <4> HIDE DEF location, n, max
      <4>1. SUFFICES ASSUME offset > max PROVE FALSE BY <4>0, <2>14
      <4>2. n = max /\ n > 0 /\ Follow(item) = RangeEnd + 1 BY <4>0, <2>2, <2>13, <2>14, <4>1
      <4>3. RangeEnd - 1 \in item .. RangeEnd - 1 /\ RangeEnd - 1 < Follow(item) - 1 BY <4>0, <2>2, <4>2
      <4>4. FileWord(RangeEnd - 1, 1) # 0 BY <2>3, <4>3
      <4>5. QED BY <2>15, <4>2, <4>4 DEF Cycles, n, max
    <3> HIDE DEF offset, max
    <3>2. max \in Nat BY <1>1 DEF max
    <3>3. (offset % (max + 1)) = offset BY <3>1, <3>2
    <3>4. QED BY <3>3 DEF NextOffset, offset, max
  <2>16. QED BY <2>12, <2>14, <2>15
<1>5. QED BY <1>3, <1>4

\* The strings so far: one behind the other, from the first on, and none is passed over.
StringsFrom ==
  IsStrings /\ ~ Cycles =>
    /\ \A i \in DOMAIN seen :
         /\ seen[i] = IF i = 1 THEN part.value.range.location ELSE Follow(seen[i - 1])
         /\ seen[i] \in Starts
    /\ Increasing(seen)
    /\ \A q \in Starts : seen # <<>> /\ q <= item => \E i \in DOMAIN seen : q = seen[i]

\* An item that is read is the next place, and in the table.
LEMMA ReadString ==
  ASSUME ReadInv, IsStrings, ~ Cycles, NextItem # NULL
  PROVE  NextItem = NextPlace /\ NextPlace < RangeEnd
<1> DEFINE value == part.value
           location == value.range.location
           n == value.range.length
           offset == NextPlace - location
<1>1. /\ Opened /\ IsTable(value) /\ location \in Nat /\ n \in Nat
      /\ RangeEnd = location + n /\ RangeEnd \in Nat
  BY StringsOf
<1>2. /\ NextItem = mk_string_table_get_string_at_offset(value, NextOffset)
      /\ NextPlace \in Nat /\ NextPlace >= location /\ NextOffset = offset
  BY NextString
<1> HIDE DEF location, n
<1>3. offset \in Nat /\ location + offset = NextPlace BY <1>1, <1>2
<1> HIDE DEF offset, value
<1>4. NextItem = value.range.location + offset /\ offset < value.range.length
  BY <1>1, <1>2, <1>3, StringFits
<1>5. NextItem = NextPlace /\ offset < n BY <1>3, <1>4 DEF location, n
<1>6. NextPlace < RangeEnd BY <1>1, <1>3, <1>5
<1>7. QED BY <1>5, <1>6

\* Reading goes on with the string behind the last.
LEMMA StringRead == ASSUME ReadInv, StringsFrom, IsStrings, ReadItem PROVE StringsFrom'
<1> DEFINE location == part.value.range.location
           n == Len(seen)
           next == NextItem
<1>1. /\ Opened /\ location \in Nat /\ RangeEnd \in Nat /\ file \in Files
      /\ seen \in Seq(Nat) /\ n \in Nat /\ item = IF seen = <<>> THEN NULL ELSE seen[n]
  BY StringsOf
<1>2. /\ next # NULL /\ seen' = Append(seen, next) /\ item' = next
      /\ UNCHANGED <<cpu, file, image, segment, part>>
  BY DEF ReadItem, vars
<1>3. mem' = mem /\ (\A p, width : FileWord(p, width)' = FileWord(p, width)) BY <1>2, TargetStays, FileStays
<1>4. RangeEnd' = RangeEnd BY <1>2 DEF RangeEnd
<1>5. (Cycles' <=> Cycles) /\ Starts' = Starts /\ location' = location /\ (IsStrings' <=> IsStrings)
  BY <1>2, <1>3, <1>4 DEF Cycles, Starts, IsStrings
<1>6. \A p : Follow(p)' = Follow(p) BY <1>3, <1>4 DEF Follow
<1>7. CASE Cycles BY <1>5, <1>7 DEF StringsFrom
<1>8. CASE ~ Cycles
  <2>1. next = NextPlace /\ NextPlace < RangeEnd /\ NextPlace \in Nat
    BY <1>2, <1>8, ReadString, NextString
  <2>2. /\ \A i \in DOMAIN seen :
             /\ seen[i] = IF i = 1 THEN location ELSE Follow(seen[i - 1])
             /\ seen[i] \in Starts
        /\ Increasing(seen)
        /\ \A q \in Starts : seen # <<>> /\ q <= item => \E i \in DOMAIN seen : q = seen[i]
    BY <1>8 DEF StringsFrom
  <2> HIDE DEF next
  <2>3. /\ seen' \in Seq(Nat) /\ Len(seen') = n + 1 /\ DOMAIN seen' = 1 .. n + 1
        /\ seen'[n + 1] = next /\ \A i \in 1 .. n : seen'[i] = seen[i]
    BY <1>1, <1>2, <2>1
  <2>4. DOMAIN seen = 1 .. n /\ seen' # <<>>
    <3>1. DOMAIN seen = 1 .. n BY <1>1
    <3>2. n + 1 \in DOMAIN seen' BY <1>1, <2>3
    <3>3. QED BY <3>1, <3>2
  <2>5. seen = <<>> <=> n = 0 BY <1>1, EmptySeq
  <2>6. n # 0 => item = seen[n] /\ item \in Starts /\ next = Follow(item)
    BY <1>1, <2>1, <2>2, <2>4, <2>5 DEF NextPlace
  <2>7. n = 0 => next = location BY <2>1, <2>5 DEF NextPlace
  <2>8. n # 0 => /\ item \in Nat /\ next > item
                 /\ \A q \in Starts : q > item => q >= next
    BY <1>1, <2>1, <2>6, StartsFollow
  <2>9. next \in Starts
    <3>1. CASE n = 0
      <4>1. location \in location .. RangeEnd - 1 BY <1>1, <2>1, <2>7, <3>1
      <4>2. QED BY <2>7, <3>1, <4>1 DEF Starts
    <3>2. CASE n # 0 BY <1>1, <2>1, <2>6, <3>2, StartsFollow
    <3>3. QED BY <3>1, <3>2
  <2>10. \A i \in 1 .. n + 1 :
           /\ seen'[i] = IF i = 1 THEN location ELSE Follow(seen'[i - 1])
           /\ seen'[i] \in Starts
    <3> SUFFICES ASSUME NEW i \in 1 .. n + 1
                 PROVE  /\ seen'[i] = IF i = 1 THEN location ELSE Follow(seen'[i - 1])
                        /\ seen'[i] \in Starts
      OBVIOUS
    <3> HIDE DEF location, n
    <3>1. CASE i = n + 1
      <4>1. n = 0 => i = 1 BY <3>1
      <4>2. n # 0 => i # 1 /\ i - 1 = n /\ n \in 1 .. n BY <1>1, <3>1 DEF n
      <4>3. n # 0 => seen'[i - 1] = item BY <2>3, <2>6, <4>2
      <4>4. seen'[i] = next BY <2>3, <3>1
      <4>5. QED BY <2>6, <2>7, <2>9, <4>1, <4>2, <4>3, <4>4
    <3>2. CASE i # n + 1
      <4>1. i \in 1 .. n /\ seen'[i] = seen[i] BY <1>1, <2>3, <3>2 DEF n
      <4>2. i # 1 => i - 1 \in 1 .. n /\ seen'[i - 1] = seen[i - 1]
        <5>1. n \in Nat BY <1>1 DEF n
        <5>2. i # 1 => i - 1 \in 1 .. n BY <4>1, <5>1
        <5>3. QED BY <2>3, <5>2
      <4>3. QED BY <2>2, <2>4, <4>1, <4>2
    <3>3. QED BY <3>1, <3>2
  <2>11. \A i \in 1 .. n : seen[i] \in Nat /\ seen[i] < next
    <3> SUFFICES ASSUME NEW i \in 1 .. n PROVE seen[i] \in Nat /\ seen[i] < next OBVIOUS
    <3>1. n # 0 /\ n \in DOMAIN seen /\ i \in DOMAIN seen /\ seen[i] \in Nat BY <1>1
    <3>2. item = seen[n] /\ item \in Nat /\ next > item BY <2>6, <2>8, <3>1
    <3> HIDE DEF n
    <3>3. i < n => seen[i] < seen[n] BY <2>2, <3>1 DEF Increasing
    <3>4. i = n \/ i < n BY <1>1 DEF n
    <3>5. QED BY <2>1, <3>1, <3>2, <3>3, <3>4
  <2>12. Increasing(seen')
    <3> SUFFICES ASSUME NEW i \in 1 .. n + 1, NEW j \in 1 .. n + 1, i < j PROVE seen'[i] < seen'[j]
      BY <2>3 DEF Increasing
    <3>1. i \in 1 .. n /\ (j = n + 1 \/ j \in 1 .. n) BY <1>1
    <3>2. seen'[i] = seen[i] BY <2>3, <3>1
    <3>3. CASE j = n + 1 BY <2>3, <2>11, <3>1, <3>2, <3>3
    <3>4. CASE j \in 1 .. n
      <4>1. seen'[j] = seen[j] BY <2>3, <3>4
      <4>2. i \in DOMAIN seen /\ j \in DOMAIN seen BY <2>4, <3>1, <3>4
      <4>3. seen[i] < seen[j] BY <2>2, <4>2 DEF Increasing
      <4>4. QED BY <3>2, <4>1, <4>3
    <3>5. QED BY <3>1, <3>3, <3>4
  <2>13. ASSUME NEW q \in Starts, q <= next PROVE \E i \in 1 .. n + 1 : q = seen'[i]
    <3>1. q \in Nat BY <1>1 DEF Starts
    <3>2. n + 1 \in 1 .. n + 1 /\ seen'[n + 1] = next BY <1>1, <2>3
    <3>3. CASE q = next BY <3>2, <3>3
    <3>4. CASE q # next
      <4>1. q < next BY <2>1, <2>13, <3>1, <3>4
      <4>2. n # 0
        <5>1. SUFFICES ASSUME n = 0 PROVE FALSE OBVIOUS
        <5>2. q >= location BY <1>1, <3>1 DEF Starts
        <5>3. QED BY <1>1, <2>7, <3>1, <4>1, <5>1, <5>2
      <4>3. q <= item BY <2>1, <2>8, <3>1, <4>1, <4>2
      <4>4. PICK i \in DOMAIN seen : q = seen[i] BY <2>2, <2>5, <4>2, <4>3
      <4>5. i \in 1 .. n /\ i \in 1 .. n + 1 BY <1>1, <2>4
      <4>6. QED BY <2>3, <4>4, <4>5
    <3>5. QED BY <3>3, <3>4
  <2>14. /\ \A i \in DOMAIN seen' :
              /\ seen'[i] = IF i = 1 THEN location' ELSE Follow(seen[i - 1])'
              /\ seen'[i] \in Starts'
         /\ Increasing(seen')
         /\ \A q \in Starts' : seen' # <<>> /\ q <= item' => \E i \in DOMAIN seen' : q = seen'[i]
    <3>1. \A i : Follow(seen[i - 1])' = Follow(seen'[i - 1])
      BY <1>3, <1>4 DEF Follow
    <3> HIDE DEF location
    <3>2. \A q \in Starts : q <= item' => \E i \in DOMAIN seen' : q = seen'[i]
      BY <1>2, <2>3, <2>13 DEF next
    <3>3. QED BY <1>5, <2>3, <2>10, <2>12, <3>1, <3>2
  <2>15. QED BY <2>14 DEF StringsFrom, Increasing
<1>9. QED BY <1>7, <1>8

\* In a segment that is mapped as a whole, reading ends behind the last string; with no end to the
\* longest table, never.
LEMMA StringsEnd ==
  ASSUME ReadInv, IsStrings, FullyMapped, NextItem = NULL
  PROVE  ~ Cycles /\ NextPlace >= RangeEnd
<1> DEFINE location == part.value.range.location
           n == part.value.range.length
           max == UINT_MAX(4)
           offset == NextPlace - location
<1>1. /\ Opened /\ location \in Nat /\ n \in Nat /\ max \in Nat /\ n <= max /\ file \in Files
      /\ RangeEnd = location + n /\ RangeEnd \in Nat
      /\ seen \in Seq(Nat) /\ item = IF seen = <<>> THEN NULL ELSE seen[Len(seen)]
      /\ \A i \in DOMAIN seen : ItemLies(seen[i])
  BY StringsOf
<1>2. /\ NextItem = mk_string_table_get_string_at_offset(part.value, NextOffset)
      /\ NextPlace \in Nat /\ NextPlace >= location /\ NextPlace <= RangeEnd + 1
      /\ ~ Cycles => NextOffset = offset
  BY NextString
<1>3. ~ (NextOffset \in Nat /\ NextOffset < n)
  <2>1. SUFFICES ASSUME NextOffset \in Nat, NextOffset < n PROVE FALSE OBVIOUS
  <2>2. /\ mk_string_table_get_string_at_offset(part.value, NextOffset) = location + NextOffset
        /\ location + NextOffset # NULL
    BY <2>1, StringIsThere
  <2>3. QED BY <1>2, <2>2
<1>4. offset \in Nat /\ offset <= n + 1 /\ location + offset = NextPlace
  <2> HIDE DEF location, n
  <2>1. QED BY <1>1, <1>2
<1>5. ~ Cycles
  <2>1. SUFFICES ASSUME Cycles PROVE FALSE OBVIOUS
  <2>2. n = max /\ n > 0 /\ FileWord(RangeEnd - 1, 1) # 0 BY <2>1 DEF Cycles
  <2>3. offset # n
    <3>1. SUFFICES ASSUME NextPlace = RangeEnd PROVE FALSE
      <4> HIDE DEF location, n
      <4>1. QED BY <1>1, <1>2
    <3>2. seen # <<>>
      <4>1. SUFFICES ASSUME seen = <<>> PROVE FALSE OBVIOUS
      <4>2. NextPlace = location BY <4>1 DEF NextPlace
      <4> HIDE DEF location, n
      <4>3. QED BY <1>1, <2>2, <3>1, <4>2
    <3>3. Follow(item) = RangeEnd BY <3>1, <3>2 DEF NextPlace
    <3>4. ItemLies(item)
      <4>1. Len(seen) # 0 /\ Len(seen) \in Nat BY <1>1, <3>2, EmptySeq
      <4>2. Len(seen) \in DOMAIN seen BY <1>1, <4>1
      <4>3. QED BY <1>1, <3>2, <4>2
    <3>5. item \in Nat /\ item < RangeEnd BY <1>1, <3>4 DEF ItemLies, ItemSize, IsStrings
    <3>6. Follow(item) <= RangeEnd => FileWord(Follow(item) - 1, 1) = 0 BY <1>1, <3>5, FollowIs
    <3>7. QED BY <1>1, <2>2, <3>3, <3>6
  <2>4. NextOffset = offset % (max + 1) BY DEF NextOffset
  <2> HIDE DEF offset, max, n, location
  <2>5. CASE offset < n
    <3>1. (offset % (max + 1)) = offset BY <1>1, <1>4, <2>2, <2>5
    <3>2. QED BY <1>3, <1>4, <2>4, <2>5, <3>1
  <2>6. CASE offset = n + 1
    <3>1. offset = max + 1 BY <2>2, <2>6
    <3>2. ((max + 1) % (max + 1)) = 0
      <4>1. \A m \in Nat : ((m + 1) % (m + 1)) = 0 OBVIOUS
      <4>2. QED BY <1>1, <4>1
    <3>3. NextOffset = 0 BY <2>4, <3>1, <3>2
    <3>4. QED BY <1>3, <2>2, <3>3
  <2>7. offset < n \/ offset = n \/ offset = n + 1 BY <1>1, <1>4
  <2>8. QED BY <2>3, <2>5, <2>6, <2>7
<1>6. NextPlace >= RangeEnd
  <2>1. NextOffset = offset BY <1>2, <1>5
  <2> HIDE DEF offset, n, location
  <2>2. ~ (offset < n) BY <1>3, <1>4, <2>1
  <2>3. QED BY <1>1, <1>4, <2>2
<1>7. QED BY <1>5, <1>6

\* Then all of them have been read.
LEMMA StringsSeen ==
  ASSUME ReadInv, StringsFrom, IsStrings, FullyMapped, NextItem = NULL
  PROVE  Range(seen) = Starts
<1> DEFINE location == part.value.range.location
           n == Len(seen)
<1>1. /\ location \in Nat /\ file \in Files /\ RangeEnd \in Nat
      /\ seen \in Seq(Nat) /\ n \in Nat /\ item = IF seen = <<>> THEN NULL ELSE seen[n]
  BY StringsOf
<1>2. ~ Cycles /\ NextPlace >= RangeEnd BY StringsEnd
<1>3. /\ \A i \in DOMAIN seen : seen[i] \in Starts
      /\ \A q \in Starts : seen # <<>> /\ q <= item => \E i \in DOMAIN seen : q = seen[i]
  BY <1>2 DEF StringsFrom
<1>4. ASSUME NEW q \in Starts PROVE \E i \in DOMAIN seen : q = seen[i]
  <2>1. q \in Nat /\ q >= location /\ q < RangeEnd BY <1>1 DEF Starts
  <2>2. seen # <<>>
    <3>1. SUFFICES ASSUME seen = <<>> PROVE FALSE OBVIOUS
    <3>2. location >= RangeEnd BY <1>2, <3>1 DEF NextPlace
    <3> HIDE DEF location
    <3>3. QED BY <1>1, <2>1, <3>2
  <2>3. n \in DOMAIN seen /\ item = seen[n]
    <3>1. n # 0 BY <1>1, <2>2, EmptySeq
    <3>2. QED BY <1>1, <2>2, <3>1
  <2>4. item \in Starts /\ item \in Nat BY <1>1, <1>3, <2>3
  <2>5. Follow(item) >= RangeEnd /\ (q > item => q >= Follow(item)) /\ Follow(item) \in Nat
    <3>1. Follow(item) >= RangeEnd BY <1>2, <2>2 DEF NextPlace
    <3>2. Follow(item) \in item + 1 .. RangeEnd + 1 /\ (q > item => q >= Follow(item))
      BY <1>1, <2>4, StartsFollow
    <3>3. QED BY <1>1, <2>4, <3>1, <3>2
  <2>6. q <= item BY <1>1, <2>1, <2>4, <2>5
  <2>7. QED BY <1>3, <2>2, <2>6
<1>5. Range(seen) = {seen[i] : i \in DOMAIN seen} BY DEF Range
<1>6. QED BY <1>3, <1>4, <1>5

\* Where strings begin is where the file has them.
LEMMA StringsAreFiles == ASSUME ReadInv, IsStrings, Whole PROVE FileStrings = Starts
<1> DEFINE value == part.value
           location == value.range.location
           class == mk_load_command_symtab
           id == LC.SYMTAB
<1>1. segment # NoSegment /\ PartDerived(part) /\ RangeEnd = location + value.range.length
  BY StringsOf DEF ReadInv, PartFrom
<1>2. Derived(value, class, id, "stroff") /\ value.range.length = Value(value.command, "strsize")
  BY <1>1 DEF PartDerived, IsStrings
<1>3. ReadsField(class, "stroff", 4) /\ ReadsField(class, "strsize", 4) BY TableFields
<1>4. class.layout = struct_symtab_command BY DEF mk_load_command_symtab, Class
<1> HIDE DEF class
<1>5. /\ location =
            FileField(lc, segment.command.vtable.layout, "vmaddr") + image.slide
              + FileField(LastCommand({id}), class.layout, "stroff")
              - FileField(lc, segment.command.vtable.layout, "fileoff")
      /\ Value(value.command, "strsize") = FileField(LastCommand({id}), class.layout, "strsize")
  BY <1>1, <1>2, <1>3, NumbersAreFiles
<1>6. (IF part.kind = "indirect" THEN LC.DYSYMTAB ELSE LC.SYMTAB) = id BY DEF IsStrings
<1>7. location = FilePlace(struct_symtab_command, "stroff") BY <1>4, <1>5, <1>6, Zenon DEF FilePlace
<1>8. value.range.length = FileCount(struct_symtab_command, "strsize")
  BY <1>2, <1>4, <1>5, <1>6, Zenon DEF FileCount
<1>9. RangeEnd =
        FilePlace(struct_symtab_command, "stroff") + FileCount(struct_symtab_command, "strsize")
  BY <1>1, <1>7, <1>8
<1>10. QED BY <1>7, <1>9, Zenon DEF FileStrings, Starts

\* A recursion that lists what it comes to on its way to a place of `stop': it climbs, and a
\* function obeys it.
ChainFrom(step, stop, out, f, o) == IF o \in stop THEN <<>> ELSE <<out[o]>> \o f[step[o]]
ClimbsOn(step, stop, begin, end) ==
  \A o \in begin .. end : o \in stop \/ (step[o] \in begin .. end /\ step[o] > o)
HasChain(step, stop, out, D) == \E f : f = [o \in D |-> ChainFrom(step, stop, out, f, o)]

\* Such a function exists.
LEMMA ChainExists ==
  ASSUME NEW low0 \in Nat, NEW high \in Nat, low0 <= high, NEW step, NEW stop, NEW out,
         ClimbsOn(step, stop, low0, high)
  PROVE  HasChain(step, stop, out, low0 .. high)
<1> USE DEF ClimbsOn, ChainFrom
<1> DEFINE body(f, p) == ChainFrom(step, stop, out, f, p)
           n == high - low0
           T == {k \in 0 .. n : \E f : \A p \in (high - k) .. high : f[p] = body(f, p)}
<1>1. n \in Nat OBVIOUS
<1>2. 0 \in T
  <2> DEFINE f == [p \in {high} |-> <<>>]
  <2>1. high \in stop
    <3>1. high \in low0 .. high OBVIOUS
    <3>2. high \in stop \/ (step[high] \in low0 .. high /\ step[high] > high) BY <3>1
    <3>3. \A q \in low0 .. high : ~ (q > high) OBVIOUS
    <3>4. QED BY <3>2, <3>3
  <2>2. \A p \in (high - 0) .. high : p = high OBVIOUS
  <2>3. f[high] = body(f, high) BY <2>1
  <2> HIDE DEF f, body
  <2>4. \A p \in (high - 0) .. high : f[p] = body(f, p) BY <2>2, <2>3
  <2>5. 0 \in 0 .. n BY <1>1
  <2> HIDE DEF n
  <2>6. QED BY <2>4, <2>5
<1>3. ASSUME NEW k \in 1 .. n, k - 1 \in T PROVE k \in T
  <2>1. PICK f : \A p \in (high - (k - 1)) .. high : f[p] = body(f, p) BY <1>3
  <2> DEFINE q == high - k
             g == [p \in q .. high |-> IF p = q THEN body(f, q) ELSE f[p]]
  <2>2. /\ q \in low0 .. high /\ (high - (k - 1)) .. high = (q .. high) \ {q}
        /\ \A p \in q .. high : p \in low0 .. high
    BY <1>1
  <2>3. ASSUME NEW p \in q .. high PROVE g[p] = body(g, p)
    <3>1. p \in low0 .. high BY <2>2
    <3>2. p \in stop \/ (step[p] \in low0 .. high /\ step[p] > p) BY <3>1
    <3>3. p \notin stop => step[p] \in q .. high /\ step[p] # q
      <4>1. \A x \in low0 .. high : \A y \in q .. high : x > y => x \in q .. high /\ x # q
        BY <1>1, <2>2
      <4>2. QED BY <3>2, <4>1
    <3> HIDE DEF q
    <3>4. p \notin stop => g[step[p]] = f[step[p]] BY <3>3
    <3>5. body(g, p) = body(f, p) BY <3>4
    <3>6. CASE p = q BY <3>5, <3>6
    <3>7. CASE p # q
      <4>1. g[p] = f[p] BY <3>7
      <4>2. p \in (high - (k - 1)) .. high BY <2>2, <3>7 DEF q
      <4>3. f[p] = body(f, p) BY <2>1, <4>2
      <4> HIDE DEF g, body
      <4>4. QED BY <3>5, <4>1, <4>3
    <3>8. QED BY <3>6, <3>7
  <2>4. k \in 0 .. n BY <1>1
  <2> HIDE DEF g, body, n
  <2>5. QED BY <2>3, <2>4
<1>4. PICK f : \A p \in low0 .. high : f[p] = body(f, p)
  <2> HIDE DEF T
  <2>1. \A k \in 0 .. n : k \in T BY <1>1, <1>2, <1>3, UpTo
  <2>2. n \in T BY <1>1, <2>1
  <2>3. high - n = low0 OBVIOUS
  <2> HIDE DEF n, body
  <2>4. QED BY <2>2, <2>3 DEF T
<1> DEFINE D == low0 .. high
           g == [p \in D |-> f[p]]
<1>5. ASSUME NEW p \in D PROVE g[p] = body(g, p)
  <2>1. p \notin stop => step[p] \in D OBVIOUS
  <2>2. p \notin stop => g[step[p]] = f[step[p]] BY <2>1
  <2>3. body(g, p) = body(f, p) BY <2>2
  <2>4. g[p] = f[p] /\ f[p] = body(f, p)
    <3> HIDE DEF body
    <3>1. QED BY <1>4
  <2> HIDE DEF g, body
  <2>5. QED BY <2>3, <2>4
<1>6. g = [p \in D |-> body(g, p)]
  <2> HIDE DEF body
  <2>1. \A p \in D : g[p] = body(g, p) BY <1>5
  <2>2. g = [p \in D |-> g[p]] OBVIOUS
  <2> HIDE DEF g
  <2>3. QED BY <2>1, <2>2
<1>7. QED
  <2> HIDE DEF g, body
  <2>1. QED BY <1>6, Zenon DEF HasChain, body, D

\* The rest of a sequence from one item on.
LEMMA RestFrom ==
  ASSUME NEW s \in Seq(Nat), NEW i \in 1 .. Len(s)
  PROVE  SubSeq(s, i, Len(s)) = <<s[i]>> \o SubSeq(s, i + 1, Len(s))
<1> DEFINE n == Len(s)
           a == i - 1
           piece == SubSeq(s, a + 1, n)
           rest == SubSeq(s, i + 1, n)
           one == <<s[i]>>
           whole == one \o rest
<1>1. n \in Nat /\ a \in Nat /\ a + 1 = i /\ a <= n /\ i \in Nat /\ i <= n /\ n <= Len(s) OBVIOUS
<1> HIDE DEF n, a
<1>2. /\ piece \in Seq(Nat) /\ Len(piece) = n - a /\ \A j \in 1 .. n - a : piece[j] = s[a + j]
  BY <1>1, PieceOf
<1>3. /\ rest \in Seq(Nat) /\ Len(rest) = n - i /\ \A j \in 1 .. n - i : rest[j] = s[i + j]
  BY <1>1, PieceOf
<1>4. one \in Seq(Nat) /\ Len(one) = 1 /\ one[1] = s[i]
  <2>1. s[i] \in Nat OBVIOUS
  <2>2. QED BY <2>1
<1> HIDE DEF piece, rest, one
<1>5. /\ whole \in Seq(Nat) /\ Len(whole) = 1 + (n - i)
      /\ \A j \in 1 .. 1 + (n - i) : whole[j] = IF j <= 1 THEN one[j] ELSE rest[j - 1]
  <2>1. /\ whole \in Seq(Nat) /\ Len(whole) = Len(one) + Len(rest)
        /\ \A j \in 1 .. Len(one) + Len(rest) :
             whole[j] = IF j <= Len(one) THEN one[j] ELSE rest[j - Len(one)]
    BY <1>3, <1>4, ConcatProperties
  <2> HIDE DEF whole
  <2>2. QED BY <1>3, <1>4, <2>1
<1> HIDE DEF whole
<1>6. \A j \in 1 .. Len(piece) : piece[j] = whole[j]
  <2> SUFFICES ASSUME NEW j \in 1 .. Len(piece) PROVE piece[j] = whole[j] OBVIOUS
  <2>1. j \in 1 .. n - a /\ j \in 1 .. 1 + (n - i) BY <1>1, <1>2
  <2>2. CASE j = 1
    <3>1. a + 1 = i BY <1>1
    <3>2. piece[1] = s[i] BY <1>2, <2>1, <2>2, <3>1
    <3>3. whole[1] = one[1] BY <1>5, <2>1, <2>2
    <3>4. QED BY <1>4, <2>2, <3>2, <3>3
  <2>3. CASE j # 1
    <3>1. j - 1 \in 1 .. n - i /\ i + (j - 1) = a + j /\ ~ (j <= 1) BY <1>1, <2>1, <2>3
    <3>2. rest[j - 1] = s[i + (j - 1)] BY <1>3, <3>1
    <3>3. QED BY <1>2, <1>5, <2>1, <3>1, <3>2
  <2>4. QED BY <2>2, <2>3
<1>7. Len(piece) = Len(whole) BY <1>1, <1>2, <1>5
<1>8. piece = whole BY <1>2, <1>5, <1>6, <1>7, SeqEqual, Zenon
<1>9. piece = SubSeq(s, i, n) BY <1>1 DEF piece
<1>10. QED BY <1>8, <1>9 DEF n, whole, one, rest

\* A function that lists the strings from an offset on, by the places of the table.
ListsFrom(from, offset, value, n) ==
  \A o \in offset .. n + 1 :
    from[o] = IF o >= n THEN <<>>
              ELSE <<value.range.location + o>>
                     \o from[Follow(value.range.location + o) - value.range.location]

\* The enumerator's recursion has such a function.
LEMMA StringsUnfold ==
  ASSUME ReadInv, IsStrings, FullyMapped, NEW offset \in Nat, offset < part.value.range.length
  PROVE  \E from : /\ ListsFrom(from, offset, part.value, part.value.range.length)
                   /\ mk_string_table_enumerate_strings(part.value, offset) = from[offset]
<1> DEFINE value == part.value
           location == value.range.location
           n == value.range.length
           start == mk_string_table_get_string_at_offset(value, offset)
           D == offset .. n + 1
           at(o) == start + (o - offset)
           next(o) == o + strnlen(mem, at(o), n - o) + 1
           Body(f, o) == IF o >= n THEN <<>> ELSE <<at(o)>> \o f[next(o)]
           from == CHOOSE f : f = [o \in D |-> Body(f, o)]
           step == [o \in D |-> next(o)]
           stop == {o \in D : o >= n}
           out == [o \in D |-> at(o)]
<1>1. /\ location \in Nat /\ n \in Nat /\ file \in Files /\ RangeEnd = location + n /\ RangeEnd \in Nat
  BY StringsOf
<1>2. start = location + offset /\ start # NULL BY StringIsThere
<1>3. mk_string_table_enumerate_strings(value, offset) = IF start = NULL THEN <<>> ELSE from[offset]
  BY Zenon DEF mk_string_table_enumerate_strings
<1> HIDE DEF value, location, n, start
<1>4. ASSUME NEW o \in D, ~ (o >= n)
      PROVE  /\ at(o) = location + o /\ next(o) = Follow(location + o) - location
             /\ next(o) \in D /\ next(o) > o
  <2>1. o \in Nat /\ o < n /\ offset <= o BY <1>1, <1>4
  <2>2. at(o) = location + o BY <1>1, <1>2, <2>1
  <2> DEFINE p == location + o
             length == strnlen(mem, p, RangeEnd - p)
  <2>3. p \in Nat /\ p < RangeEnd /\ n - o = RangeEnd - p BY <1>1, <2>1
  <2>4. next(o) = o + length + 1 BY <2>2, <2>3, Zenon
  <2>5. Follow(p) = p + length + 1 BY DEF Follow
  <2>6. length \in 0 .. RangeEnd - p
    <3> DEFINE most == RangeEnd - p
    <3>1. most \in Nat BY <1>1, <2>3
    <3> HIDE DEF most, p
    <3>2. strnlen(mem, p, most) \in 0 .. most BY <1>1, <3>1, LengthNumber
    <3>3. QED BY <3>2 DEF most
  <2> HIDE DEF length
  <2>7. next(o) \in o + 1 .. n + 1
    <3> HIDE DEF next
    <3>1. RangeEnd - p = n - o BY <2>3
    <3> HIDE DEF p
    <3>2. QED BY <1>1, <2>1, <2>4, <2>6, <3>1
  <2>8. next(o) = Follow(p) - location
    <3> HIDE DEF next
    <3>1. length \in Nat
      <4>1. RangeEnd - p \in Nat BY <1>1, <2>3
      <4> HIDE DEF p
      <4>2. QED BY <2>6, <4>1
    <3>2. QED BY <1>1, <2>1, <2>4, <2>5, <3>1
  <2> HIDE DEF next, at
  <2>9. next(o) \in D /\ next(o) > o BY <1>1, <2>1, <2>7
  <2>10. QED BY <2>2, <2>8, <2>9
<1> HIDE DEF at, next
<1>5. ClimbsOn(step, stop, offset, n + 1)
  <2> SUFFICES ASSUME NEW o \in D, o \notin stop PROVE step[o] \in D /\ step[o] > o BY DEF ClimbsOn
  <2>1. ~ (o >= n) /\ step[o] = next(o) OBVIOUS
  <2> HIDE DEF step, stop, D
  <2>2. QED BY <1>4, <2>1
<1>6. from = [o \in D |-> Body(from, o)]
  <2>1. \A f : [o \in D |-> Body(f, o)] = [o \in D |-> ChainFrom(step, stop, out, f, o)]
    <3> SUFFICES ASSUME NEW f
                 PROVE  [o \in D |-> Body(f, o)] = [o \in D |-> ChainFrom(step, stop, out, f, o)]
      OBVIOUS
    <3>1. \A o \in D : Body(f, o) = ChainFrom(step, stop, out, f, o) BY DEF ChainFrom
    <3> HIDE DEF Body, step, stop, out, D
    <3>2. QED BY <3>1
  <2>2. HasChain(step, stop, out, D)
    <3> HIDE DEF step, stop, out
    <3>1. n + 1 \in Nat /\ offset <= n + 1 BY <1>1 DEF n, value
    <3>2. QED BY <1>5, <3>1, ChainExists
  <2> HIDE DEF step, stop, out, Body, D
  <2>3. PICK f : f = [o \in D |-> ChainFrom(step, stop, out, f, o)] BY <2>2 DEF HasChain
  <2>4. f = [o \in D |-> Body(f, o)] BY <2>1, <2>3, Zenon
  <2>5. QED BY <2>4, Zenon
<1> HIDE DEF from
<1>7. \A o \in D : from[o] = Body(from, o)
  <2> HIDE DEF Body, D
  <2>1. QED BY <1>6
<1>8. ListsFrom(from, offset, value, n)
  <2> SUFFICES ASSUME NEW o \in D
               PROVE  from[o] = IF o >= n THEN <<>>
                                ELSE <<location + o>> \o from[Follow(location + o) - location]
    BY DEF ListsFrom, location
  <2>1. from[o] = Body(from, o) BY <1>7
  <2>2. ~ (o >= n) => at(o) = location + o /\ next(o) = Follow(location + o) - location BY <1>4
  <2>3. QED BY <2>1, <2>2
<1>9. mk_string_table_enumerate_strings(value, offset) = from[offset] BY <1>2, <1>3
<1>10. QED BY <1>8, <1>9 DEF n, value

\* The enumerator lists the rest of the strings that have been read.
LEMMA StringsListed ==
  ASSUME ReadInv, StringsFrom, IsStrings, FullyMapped, NextItem = NULL, NEW i \in DOMAIN seen
  PROVE  mk_string_table_enumerate_strings(part.value, seen[i] - seen[1]) = SubSeq(seen, i, Len(seen))
<1> DEFINE value == part.value
           location == value.range.location
           most == value.range.length
           n == Len(seen)
           offset == seen[i] - seen[1]
<1>1. /\ location \in Nat /\ most \in Nat /\ file \in Files
      /\ RangeEnd = location + most /\ RangeEnd \in Nat
      /\ seen \in Seq(Nat) /\ n \in Nat /\ item = IF seen = <<>> THEN NULL ELSE seen[n]
  BY StringsOf
<1>2. ~ Cycles /\ NextPlace >= RangeEnd BY StringsEnd
<1>3. /\ \A j \in DOMAIN seen :
           /\ seen[j] = IF j = 1 THEN location ELSE Follow(seen[j - 1])
           /\ seen[j] \in Starts
      /\ Increasing(seen)
  BY <1>2 DEF StringsFrom
<1>4. i \in 1 .. n /\ DOMAIN seen = 1 .. n /\ 1 \in 1 .. n /\ n \in 1 .. n /\ seen # <<>> BY <1>1
<1>5. seen[1] = location BY <1>3, <1>4
<1> HIDE DEF n
<1>6. \A j \in 1 .. n : /\ seen[j] \in Nat /\ seen[j] >= location /\ seen[j] < RangeEnd
                        /\ Follow(seen[j]) \in seen[j] + 1 .. RangeEnd + 1
  BY <1>1, <1>3, <1>4, StartsFollow
<1> HIDE DEF location, most, value
<1>7. offset \in Nat /\ offset < most /\ location + offset = seen[i]
  <2>1. offset = seen[i] - location BY <1>5
  <2>2. seen[i] \in Nat /\ seen[i] >= location /\ seen[i] < location + most BY <1>1, <1>4, <1>6
  <2> HIDE DEF offset
  <2>3. QED BY <1>1, <2>1, <2>2
<1>8. PICK from : /\ ListsFrom(from, offset, part.value, part.value.range.length)
                  /\ mk_string_table_enumerate_strings(part.value, offset) = from[offset]
  BY <1>7, StringsUnfold DEF most, value
<1> DEFINE at(j) == seen[j] - location
           rest(j) == SubSeq(seen, j, n)
<1>9. ASSUME NEW j \in i .. n
      PROVE  from[at(j)] = <<seen[j]>> \o from[Follow(seen[j]) - location]
  <2>1. j \in 1 .. n BY <1>1, <1>4
  <2>2. seen[j] >= seen[i]
    <3>1. i < j => seen[i] < seen[j] BY <1>3, <1>4, <2>1 DEF Increasing
    <3>2. i = j \/ i < j BY <1>1, <1>4
    <3>3. seen[i] \in Nat /\ seen[j] \in Nat BY <1>4, <1>6, <2>1
    <3>4. QED BY <3>1, <3>2, <3>3
  <2>3. /\ at(j) \in offset .. most + 1 /\ ~ (at(j) >= most) /\ location + at(j) = seen[j]
    <3>1. /\ seen[j] \in Nat /\ seen[j] >= location /\ seen[j] < RangeEnd /\ location \in Nat
          /\ RangeEnd = location + most /\ most \in Nat /\ offset \in Nat /\ location + offset = seen[i]
      BY <1>1, <1>6, <1>7, <2>1
    <3> HIDE DEF offset
    <3>2. QED BY <2>2, <3>1
  <2> HIDE DEF at, offset
  <2>4. from[at(j)] = IF at(j) >= most THEN <<>>
                      ELSE <<location + at(j)>> \o from[Follow(location + at(j)) - location]
    BY <1>8, <2>3 DEF ListsFrom, most, location, value
  <2>5. QED BY <2>3, <2>4
<1>10. ASSUME NEW o \in offset .. most + 1, o >= most PROVE from[o] = <<>>
  <2> HIDE DEF offset
  <2>1. QED BY <1>8, <1>10 DEF ListsFrom, most, value
<1> DEFINE T == {k \in 0 .. n - i : from[at(n - k)] = rest(n - k)}
           m == n - i
<1>11. m \in Nat /\ n - m = i BY <1>1, <1>4
<1>12. rest(n + 1) = <<>> /\ \A j \in 1 .. n : rest(j) = <<seen[j]>> \o rest(j + 1)
  <2>1. \A j \in 1 .. n : rest(j) = <<seen[j]>> \o rest(j + 1) BY <1>1, RestFrom DEF n
  <2>2. rest(n + 1) = <<>>
    <3>1. n <= n /\ n \in Nat /\ n <= Len(seen) /\ n - n = 0 BY <1>1 DEF n
    <3>2. SubSeq(seen, n + 1, n) \in Seq(Nat) /\ Len(SubSeq(seen, n + 1, n)) = n - n BY <1>1, <3>1, PieceOf
    <3>3. QED BY <3>1, <3>2, EmptySeq
  <2>3. QED BY <2>1, <2>2
<1> HIDE DEF rest
<1>13. 0 \in T
  <2>1. n \in i .. n /\ n - 0 = n /\ n # 0 BY <1>1, <1>4
  <2>2. Follow(seen[n]) >= RangeEnd BY <1>1, <1>2, <1>4 DEF NextPlace
  <2> DEFINE o == Follow(seen[n]) - location
  <2>3. o \in offset .. most + 1 /\ o >= most
    <3>1. /\ seen[n] \in Nat /\ seen[n] >= location /\ Follow(seen[n]) \in seen[n] + 1 .. RangeEnd + 1
      BY <1>4, <1>6
    <3> DEFINE next == Follow(seen[n])
    <3>2. /\ o = next - location /\ next \in Int /\ next > location
          /\ next >= location + most /\ next <= location + most + 1
      BY <1>1, <2>2, <3>1
    <3> HIDE DEF next
    <3>3. o \in Nat /\ o <= most + 1 /\ o >= most
      <4> HIDE DEF o
      <4>1. QED BY <1>1, <3>2
    <3> HIDE DEF o, offset
    <3>4. QED BY <1>1, <1>7, <3>3
  <2>4. from[o] = rest(n + 1) BY <1>10, <1>12, <2>3
  <2>5. from[at(n)] = <<seen[n]>> \o from[o] BY <1>9, <2>1
  <2> HIDE DEF o, at
  <2>6. rest(n) = <<seen[n]>> \o rest(n + 1) BY <1>4, <1>12
  <2>7. from[at(n)] = rest(n) BY <2>4, <2>5, <2>6
  <2>8. 0 \in 0 .. n - i BY <1>11
  <2>9. QED BY <2>1, <2>7, <2>8
<1>14. ASSUME NEW k \in 1 .. m, k - 1 \in T PROVE k \in T
  <2> DEFINE j == n - k
  <2>1. j \in i .. n /\ j \in 1 .. n /\ j + 1 \in 1 .. n /\ n - (k - 1) = j + 1 /\ k \in 0 .. n - i
        /\ (j + 1) - 1 = j /\ j + 1 # 1
    BY <1>1, <1>4, <1>11
  <2>2. from[at(n - (k - 1))] = rest(n - (k - 1)) BY <1>14
  <2> HIDE DEF j
  <2>3. Follow(seen[j]) = seen[j + 1]
    <3> DEFINE l == j + 1
    <3>1. l \in DOMAIN seen /\ l # 1 /\ l - 1 = j BY <1>4, <2>1
    <3> HIDE DEF l
    <3>2. seen[l] = Follow(seen[l - 1]) BY <1>3, <3>1
    <3>3. QED BY <3>1, <3>2 DEF l
  <2>4. from[at(j)] = <<seen[j]>> \o from[Follow(seen[j]) - location] BY <1>9, <2>1
  <2>5. from[at(j + 1)] = rest(j + 1) BY <2>1, <2>2
  <2>6. rest(j) = <<seen[j]>> \o rest(j + 1) BY <1>12, <2>1
  <2>7. from[at(j)] = rest(j) BY <2>3, <2>4, <2>5, <2>6
  <2> HIDE DEF at
  <2>8. QED BY <2>1, <2>7 DEF j
<1>15. m \in T
  <2> HIDE DEF T
  <2>1. \A k \in 0 .. m : k \in T BY <1>11, <1>13, <1>14, UpTo
  <2> HIDE DEF m
  <2>2. QED BY <1>11, <2>1
<1>16. from[at(i)] = rest(i)
  <2> HIDE DEF at, m
  <2>1. QED BY <1>11, <1>15
<1>17. at(i) = offset BY <1>5
<1>18. QED
  <2> HIDE DEF at, offset
  <2>1. mk_string_table_enumerate_strings(part.value, offset) = rest(i) BY <1>8, <1>16, <1>17
  <2>2. QED BY <2>1 DEF rest, n, offset

\* Read to its end, a table has given the strings of the file, and the enumerator gives them too.
LEMMA StringsComplete ==
  ASSUME ReadInv, StringsFrom, IsStrings, Whole, FullyMapped, NextItem = NULL
  PROVE  /\ Range(seen) = FileStrings /\ Increasing(seen) /\ Enumerated = seen
         /\ \A i \in DOMAIN seen :
              mk_string_table_enumerate_strings(part.value, seen[i] - seen[1]) = SubSeq(seen, i, Len(seen))
<1> DEFINE n == Len(seen)
<1>1. /\ seen \in Seq(Nat) /\ n \in Nat /\ item = IF seen = <<>> THEN NULL ELSE seen[n]
  BY StringsOf
<1>2. ~ Cycles BY StringsEnd
<1>3. Range(seen) = FileStrings BY StringsSeen, StringsAreFiles
<1>4. Increasing(seen) BY <1>2 DEF StringsFrom
<1>5. \A i \in DOMAIN seen :
        mk_string_table_enumerate_strings(part.value, seen[i] - seen[1]) = SubSeq(seen, i, Len(seen))
  BY StringsListed
<1>6. Enumerated = mk_string_table_enumerate_strings(part.value, 0) BY DEF Enumerated, IsStrings
<1>7. CASE seen = <<>>
  <2>1. item = NULL BY <1>1, <1>7
  <2>2. mk_string_table_get_string_at_offset(part.value, 0) = NULL
    BY <2>1 DEF NextItem, IsStrings, mk_string_table_next_string
  <2>3. mk_string_table_enumerate_strings(part.value, 0) = <<>>
    BY <2>2, Zenon DEF mk_string_table_enumerate_strings
  <2>4. QED BY <1>3, <1>4, <1>5, <1>6, <1>7, <2>3
<1>8. CASE seen # <<>>
  <2>1. 1 \in DOMAIN seen /\ seen[1] \in Nat /\ 1 \in 1 .. n
    <3>1. n # 0 BY <1>1, <1>8, EmptySeq
    <3>2. QED BY <1>1, <3>1
  <2>2. seen[1] - seen[1] = 0 BY <2>1
  <2>3. mk_string_table_enumerate_strings(part.value, 0) = SubSeq(seen, 1, Len(seen)) BY <1>5, <2>1, <2>2
  <2>4. SubSeq(seen, 1, Len(seen)) = seen
    <3> DEFINE piece == SubSeq(seen, 0 + 1, n)
    <3>1. 0 \in Nat /\ 0 <= n /\ n <= Len(seen) /\ n - 0 = n BY <1>1
    <3>2. piece \in Seq(Nat) /\ Len(piece) = n - 0 /\ \A j \in 1 .. n - 0 : piece[j] = seen[0 + j]
      BY <1>1, <3>1, PieceOf
    <3> HIDE DEF piece
    <3>3. \A j \in 1 .. Len(piece) : piece[j] = seen[j]
      <4>1. \A j \in 1 .. n : 0 + j = j OBVIOUS
      <4>2. QED BY <3>1, <3>2, <4>1
    <3>4. piece = seen BY <1>1, <3>1, <3>2, <3>3, SeqEqual, Zenon
    <3>5. 0 + 1 = 1 OBVIOUS
    <3>6. QED BY <3>4, <3>5 DEF piece
  <2>5. QED BY <1>3, <1>4, <1>5, <1>6, <2>3, <2>4
<1>9. QED BY <1>7, <1>8

----------------------------------------------------------------------------
(* The client's reading.                                                   *)

SeenFrom == EntriesFrom /\ StringsFrom

\* An item is not read twice, nor one left out, while the part and what it is read from stay.
LEMMA SeenStays ==
  ASSUME SeenFrom, UNCHANGED <<cpu, file, image, segment, part, item, seen>>
  PROVE  SeenFrom'
<1>1. mem' = mem /\ nlist_layout' = nlist_layout /\ \A command, f : Value(command, f)' = Value(command, f)
  BY TargetStays
<1>2. \A p, width : FileWord(p, width)' = FileWord(p, width) BY FileStays
<1>3. EntryCount' = EntryCount /\ ItemSize' = ItemSize /\ (IsEntries' <=> IsEntries)
  BY <1>1 DEF EntryCount, CountField, ItemSize, IsEntries
<1>4. RangeEnd' = RangeEnd BY DEF RangeEnd
<1>5. (Cycles' <=> Cycles) /\ Starts' = Starts /\ (IsStrings' <=> IsStrings)
  BY <1>2, <1>4 DEF Cycles, Starts, IsStrings
<1>6. EntriesFrom' BY <1>3 DEF SeenFrom, EntriesFrom, EntryPlace
<1>7. \A i : Follow(seen[i - 1])' = Follow(seen[i - 1]) BY <1>1, <1>4 DEF Follow
<1>8. StringsFrom' BY <1>5, <1>7 DEF SeenFrom, StringsFrom, Increasing
<1>9. QED BY <1>6, <1>8 DEF SeenFrom

\* It holds of a part of which nothing has been read.
LEMMA NothingSeen == ReadInv /\ seen = <<>> => SeenFrom
<1> SUFFICES ASSUME ReadInv, seen = <<>> PROVE SeenFrom OBVIOUS
<1>1. Len(seen) = 0 /\ DOMAIN seen = {} OBVIOUS
<1>2. EntriesFrom
  <2>1. ASSUME IsEntries PROVE EntryCount \in Nat BY <2>1, EntriesOf DEF ReadInv
  <2>2. QED BY <1>1, <2>1 DEF EntriesFrom
<1>3. StringsFrom BY <1>1 DEF StringsFrom, Increasing
<1>4. QED BY <1>2, <1>3 DEF SeenFrom

\* Every step keeps it.
LEMMA SeenStep == ReadInv /\ ReadInv' /\ SeenFrom /\ [LinkEditNext]_allVars => SeenFrom'
<1> SUFFICES ASSUME ReadInv, ReadInv', SeenFrom, [LinkEditNext]_allVars PROVE SeenFrom' OBVIOUS
<1>1. ASSUME part' = None PROVE SeenFrom'
  <2>1. ~ IsEntries' /\ ~ IsStrings' BY <1>1 DEF IsEntries, IsStrings, None
  <2>2. QED BY <2>1 DEF SeenFrom, EntriesFrom, StringsFrom
<1>2. (ReadInv /\ seen = <<>> => SeenFrom)' BY NothingSeen, PTL
<1>3. ASSUME seen' = <<>> PROVE SeenFrom' BY <1>2, <1>3
<1>4. segment = NoSegment => part = None BY DEF ReadInv, LinkInv, PartInv
<1>5. CASE ImageNext BY <1>1, <1>4, <1>5 DEF ImageNext, segmentVars
<1>6. CASE InitSegment BY <1>1, <1>4, <1>6 DEF InitSegment
<1>7. CASE mk_segment_free BY <1>1, <1>7 DEF mk_segment_free
<1>8. CASE InitSection \/ InitSymbols \/ InitStrings \/ InitIndirect \/ InitExports
  BY <1>3, <1>8 DEF InitSection, InitSymbols, InitStrings, InitIndirect, InitExports, InitPart
<1>9. CASE FreePart BY <1>3, <1>9 DEF FreePart
<1>10. CASE ReadItem
  <2>1. part' = part BY <1>10 DEF ReadItem
  <2>2. (IsEntries' <=> IsEntries) /\ (IsStrings' <=> IsStrings) BY <2>1 DEF IsEntries, IsStrings
  <2>3. EntriesFrom'
    <3>1. CASE IsEntries BY <1>10, <3>1, EntryRead DEF SeenFrom
    <3>2. CASE ~ IsEntries BY <2>2, <3>2 DEF EntriesFrom
    <3>3. QED BY <3>1, <3>2
  <2>4. StringsFrom'
    <3>1. CASE IsStrings BY <1>10, <3>1, StringRead DEF SeenFrom
    <3>2. CASE ~ IsStrings BY <2>2, <3>2 DEF StringsFrom
    <3>3. QED BY <3>1, <3>2
  <2>5. QED BY <2>3, <2>4 DEF SeenFrom
<1>11. CASE ReadUnmapped \/ UNCHANGED allVars
  BY <1>11, SeenStays DEF ReadUnmapped, allVars, vars, segmentVars
<1>12. QED BY <1>5, <1>6, <1>7, <1>8, <1>9, <1>10, <1>11 DEF LinkEditNext

\* The items of the tables of a segment that is mapped as a whole are the file's, none left out
\* and none read twice, and the enumerators are called with the same ones.
THEOREM TablesRead == LinkEditSpec => []TablesAreComplete
<1>1. LinkEditInit => ReadInv /\ SeenFrom
  <2>1. LinkEditInit => seen = <<>> BY DEF LinkEditInit
  <2>2. QED BY <2>1, ReadInit, NothingSeen
<1>2. (ReadInv /\ SeenFrom) /\ [LinkEditNext]_allVars => (ReadInv /\ SeenFrom)'
  BY ReadStep, SeenStep
<1>3. ReadInv /\ SeenFrom => TablesAreComplete
  <2> SUFFICES ASSUME ReadInv, SeenFrom, part.kind \in {"symbols", "strings", "indirect"},
                      Whole, NextItem = NULL \/ NextUnmapped,
                      mk_segment_get_mapping(segment).length >= mk_segment_get_vmsize(segment)
               PROVE  /\ IF part.kind = "strings" THEN Range(seen) = FileStrings /\ Increasing(seen)
                         ELSE seen = FileEntries
                      /\ Enumerated = seen
                      /\ \A i \in DOMAIN seen :
                           CASE part.kind = "symbols" ->
                                  mk_symbol_table_enumerate_mach_symbols(part.value, i - 1)
                                    = SubSeq(seen, i, Len(seen))
                             [] part.kind = "indirect" ->
                                  mk_indirect_symbol_table_enumerate_entries(part.value, i - 1)
                                    = SubSeq(seen, i, Len(seen))
                             [] part.kind = "strings" ->
                                  mk_string_table_enumerate_strings(part.value, seen[i] - seen[1])
                                    = SubSeq(seen, i, Len(seen))
    BY DEF TablesAreComplete
  <2>1. FullyMapped BY DEF FullyMapped
  <2>2. CASE part.kind = "strings"
    <3>1. IsStrings /\ NextItem = NULL BY <2>2 DEF IsStrings, NextUnmapped
    <3>2. /\ Range(seen) = FileStrings /\ Increasing(seen) /\ Enumerated = seen
          /\ \A i \in DOMAIN seen :
               mk_string_table_enumerate_strings(part.value, seen[i] - seen[1])
                 = SubSeq(seen, i, Len(seen))
      BY <2>1, <3>1, StringsComplete DEF SeenFrom
    <3>3. QED BY <2>2, <3>2
  <2>3. CASE part.kind \in {"symbols", "indirect"}
    <3>1. IsEntries
      <4>1. part # None BY <2>3 DEF None
      <4>2. QED BY <2>3, <4>1 DEF IsEntries
    <3>2. /\ seen = FileEntries /\ Enumerated = seen
          /\ \A i \in DOMAIN seen : EnumeratedFrom(i - 1) = SubSeq(seen, i, Len(seen))
      BY <2>1, <3>1, EntriesComplete DEF SeenFrom
    <3>3. CASE part.kind = "symbols"
      <4>1. \A i \in DOMAIN seen : mk_symbol_table_enumerate_mach_symbols(part.value, i - 1)
                                     = SubSeq(seen, i, Len(seen))
        BY <3>2, <3>3 DEF EnumeratedFrom
      <4>2. QED BY <3>2, <3>3, <4>1
    <3>4. CASE part.kind = "indirect"
      <4>1. \A i \in DOMAIN seen : mk_indirect_symbol_table_enumerate_entries(part.value, i - 1)
                                     = SubSeq(seen, i, Len(seen))
        BY <3>2, <3>4 DEF EnumeratedFrom
      <4>2. QED BY <3>2, <3>4, <4>1
    <3>5. QED BY <2>3, <3>3, <3>4
  <2>4. QED BY <2>2, <2>3
<1>4. QED BY <1>1, <1>2, <1>3, PTL DEF LinkEditSpec

=============================================================================
