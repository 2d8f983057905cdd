----------------------------- MODULE CoreProofs -----------------------------
(***************************************************************************)
(* What the checked arithmetic and the accessors of a memory object        *)
(* promise their callers, for every word width, what sums, wrapped or not, *)
(* are made of, and what becomes of lists of commands and of the items     *)
(* they produce when one is added.                                         *)
(***************************************************************************)
EXTENDS MemoryObject, FiniteSetsExt, TLAPS, NaturalsInduction, FiniteSetTheorems,
        SequenceTheorems, WellFoundedInduction

\* Every set of natural numbers that is not empty has a least element.
LEMMA LeastNatural ==
  ASSUME NEW S \in SUBSET Nat, S # {}
  PROVE  \E n \in S : \A m \in S : n <= m
<1>1. PICK n \in S : \A m \in S : <<m, n>> \notin OpToRel(<, Nat)
  BY NatLessThanWellFounded, WFMin, Zenon
<1>2. ASSUME NEW m \in S PROVE ~ (m < n)
  <2>1. <<m, n>> \in Nat \X Nat OBVIOUS
  <2>2. QED BY <1>1, <2>1 DEF OpToRel
<1>3. QED BY <1>2

\* The largest signed word leaves one bit of the word for the sign.
LEMMA MaxSlideBounds == MaxSlide \in Nat /\ MaxWord = 2 * MaxSlide + 1
  BY WordAssumption DEF MaxSlide

\* A checked addition fails exactly when the sum does not fit a word, and otherwise returns it
\* (mk_vm_address_apply_offset, mk_vm_address_add, mk_vm_offset_add, mk_vm_size_add).
THEOREM CheckedAddition ==
  ASSUME NEW a \in Word, NEW b \in Word
  PROVE  /\ Adds(a, b).err = "EOVERFLOW" <=> a + b > MaxWord
         /\ Succeeded(Adds(a, b)) => Adds(a, b).value = a + b /\ Adds(a, b).value \in Word
  BY WordAssumption DEF Adds, Succeeded, Ok, Fails, Word

\* Applying a slide never returns a wrapped address: a success is the exact sum, and an
\* address that was within the signed range stays within it (mk_vm_address_apply_slide).
THEOREM AppliedSlide ==
  ASSUME NEW a \in Word, NEW s \in Slide, Succeeded(mk_vm_address_apply_slide(a, s))
  PROVE  /\ mk_vm_address_apply_slide(a, s).value = a + s
         /\ a + s \in Word
         /\ a \in 0 .. MaxSlide => a + s \in 0 .. MaxSlide
  BY MaxSlideBounds, WordAssumption
  DEF mk_vm_address_apply_slide, Succeeded, Ok, Fails, Word, Slide

\* Removing the slide that was applied gives back the address: MKPtr and the link edit
\* code slide an address in one direction and un-slide it in the other.
THEOREM SlideRoundTrip ==
  ASSUME NEW a \in 0 .. MaxSlide, NEW s \in Slide, Succeeded(mk_vm_address_apply_slide(a, s))
  PROVE  mk_vm_address_remove_slide(mk_vm_address_apply_slide(a, s).value, s) = Ok(a)
<1>1. a + s \in 0 .. MaxSlide /\ mk_vm_address_apply_slide(a, s).value = a + s
  BY AppliedSlide, MaxSlideBounds DEF Word
<1>2. CASE s < 0
  BY <1>1, <1>2, MaxSlideBounds DEF mk_vm_address_remove_slide, Slide, Ok, Fails
<1>3. CASE s >= 0
  BY <1>1, <1>3, MaxSlideBounds DEF mk_vm_address_remove_slide, Slide, Ok, Fails
<1>4. QED
  BY <1>2, <1>3, MaxSlideBounds DEF Slide

\* A checked difference is exact and fits a signed word (mk_vm_address_difference).
THEOREM SignedDifference ==
  ASSUME NEW a \in Word, NEW b \in Word, Succeeded(mk_vm_address_difference(a, b))
  PROVE  /\ mk_vm_address_difference(a, b).value = a - b
         /\ a - b \in Slide
  BY MaxSlideBounds DEF mk_vm_address_difference, Succeeded, Ok, Fails, Word, Slide

\* Wrapping never increases a number and leaves the words alone.
LEMMA WrapBelow ==
  ASSUME NEW n \in Nat
  PROVE  Wrap(n) \in Word /\ Wrap(n) <= n /\ (n <= MaxWord => Wrap(n) = n)
  BY WordAssumption DEF Wrap, Word

\* Dividing the wrapped product back is enough to detect every overflow: when
\* mk_vm_size_multiply succeeds its result is the exact product.
THEOREM CheckedProduct ==
  ASSUME NEW size \in Word, NEW m \in Word, Succeeded(mk_vm_size_multiply(size, m))
  PROVE  /\ mk_vm_size_multiply(size, m).value = size * m
         /\ size * m \in Word
<1> DEFINE temp == Wrap(size * m)
<1>1. size \in Nat /\ m \in Nat /\ size * m \in Nat
  BY WordAssumption DEF Word
<1>2. temp \in Word /\ temp <= size * m
  BY <1>1, WrapBelow
<1>3. /\ mk_vm_size_multiply(size, m).value = temp
      /\ size # 0 => temp \div size = m
  BY DEF mk_vm_size_multiply, Succeeded, Ok, Fails
<1>4. CASE size = 0
  BY <1>1, <1>2, <1>3, <1>4 DEF Word
<1>5. CASE size # 0
  <2>1. temp >= size * (temp \div size)
    <3> HIDE DEF temp
    <3>1. temp \in Nat /\ size \in Nat /\ size > 0
      BY <1>1, <1>2, <1>5, WordAssumption DEF Word
    <3>2. QED
      BY <3>1
  <2>2. temp = size * m
    BY <1>1, <1>2, <1>3, <1>5, <2>1 DEF Word
  <2>3. QED
    BY <1>2, <1>3, <2>2
<1>6. QED
  BY <1>4, <1>5

\* An address a range contains lies in it without wrapping: the callers that check an
\* offset address once may add it again without a check (MKBindAction.m, MKFixup.m).
THEOREM ContainedAddress ==
  ASSUME NEW r \in mk_vm_range, NEW offset \in Word, NEW address \in Word,
         Succeeded(mk_vm_range_contains_address(r, offset, address))
  PROVE  /\ address + offset \in r.location .. (r.location + r.length - 1)
         /\ r.location + r.length <= MaxWord
  BY WordAssumption
  DEF mk_vm_range_contains_address, mk_vm_address_apply_offset, Adds, RangeOverflows,
      Succeeded, Ok, Fails, Word, mk_vm_range

\* A range contained in full has all its bytes in the outer range (mk_vm_range_contains_range).
THEOREM ContainedRange ==
  ASSUME NEW outer \in mk_vm_range, NEW inner \in mk_vm_range,
         Succeeded(mk_vm_range_contains_range(outer, inner, FALSE))
  PROVE  \A x \in Word : /\ inner.location <= x /\ x < inner.location + inner.length
                         => outer.location <= x /\ x < outer.location + outer.length
  BY WordAssumption
  DEF mk_vm_range_contains_range, RangeOverflows, Succeeded, Ok, Fails, Word, mk_vm_range

----------------------------------------------------------------------------
(* Words that wrap.                                                        *)

\* A number is its wrapped value and a whole number of turns around the address space.
LEMMA WrapDivides ==
  ASSUME NEW n \in Int
  PROVE  Wrap(n) \in Word /\ \E q \in Int : n = Wrap(n) + q * (MaxWord + 1)
<1> DEFINE m == MaxWord + 1
<1>1. m \in Nat /\ m > 0 BY WordAssumption
<1>2. n = m * (n \div m) + (n % m) /\ n % m \in 0 .. (m - 1) /\ n \div m \in Int
  <2> HIDE DEF m
  <2>1. QED BY <1>1
<1>3. Wrap(n) = n % m BY DEF Wrap
<1>4. n = Wrap(n) + (n \div m) * m
  <2> HIDE DEF m
  <2>1. QED BY <1>1, <1>2, <1>3
<1>5. Wrap(n) \in Word
  <2>1. Wrap(n) \in 0 .. (m - 1) BY <1>2, <1>3
  <2>2. m - 1 = MaxWord BY WordAssumption
  <2> HIDE DEF m
  <2>3. QED BY <2>1, <2>2 DEF Word
<1>6. QED BY <1>2, <1>4, <1>5

\* A word stays what it is under any number of turns.
LEMMA WrapIgnoresTurns ==
  ASSUME NEW a \in Word, NEW q \in Int
  PROVE  Wrap(a + q * (MaxWord + 1)) = a
<1> DEFINE m == MaxWord + 1
           n == a + q * m
<1>1. m \in Nat /\ m > 0 /\ a \in 0 .. (m - 1) BY WordAssumption DEF Word
<1>2. n \in Int BY <1>1
<1>3. PICK p \in Int : n = Wrap(n) + p * m BY <1>2, WrapDivides
<1>4. Wrap(n) \in 0 .. (m - 1)
  <2>1. Wrap(n) \in Word BY <1>2, WrapDivides
  <2>2. m - 1 = MaxWord BY WordAssumption
  <2> HIDE DEF m, n
  <2>3. QED BY <2>1, <2>2 DEF Word
<1> DEFINE w == Wrap(n)
<1> HIDE DEF m, n, w
<1>5. w - a = (q - p) * m
  <2>1. a + q * m = w + p * m BY <1>3 DEF n, w
  <2>2. w \in Int BY <1>4 DEF w
  <2>3. (q - p) * m = q * m - p * m BY <1>1
  <2>4. q * m \in Int /\ p * m \in Int BY <1>1
  <2>5. QED BY <1>1, <2>1, <2>2, <2>3, <2>4
<1>6. w \in 0 .. (m - 1) BY <1>4 DEF w
<1>7. q - p = 0
  <2>1. CASE q - p >= 1
    <3>1. (q - p) * m >= m BY <1>1, <2>1
    <3>2. QED BY <1>1, <1>5, <1>6, <3>1
  <2>2. CASE q - p <= -1
    <3>1. (q - p) * m <= -m BY <1>1, <2>2
    <3>2. QED BY <1>1, <1>5, <1>6, <3>1
  <2>3. QED BY <2>1, <2>2
<1>8. w = a
  <2>1. (q - p) * m = 0 BY <1>1, <1>7
  <2>2. QED BY <1>1, <1>5, <1>6, <2>1
<1>9. QED BY <1>8 DEF w, n, m

\* Sums may be wrapped at every step or once at the end.
LEMMA WrapOfSum ==
  ASSUME NEW a \in Int, NEW b \in Int
  PROVE  Wrap(Wrap(a) + Wrap(b)) = Wrap(a + b)
<1> DEFINE m == MaxWord + 1
<1>1. PICK p \in Int : a = Wrap(a) + p * m BY WrapDivides
<1>2. PICK q \in Int : b = Wrap(b) + q * m BY WrapDivides
<1>3. Wrap(a) + Wrap(b) \in Int BY WrapDivides DEF Word
<1>4. PICK r \in Int : Wrap(a) + Wrap(b) = Wrap(Wrap(a) + Wrap(b)) + r * m BY <1>3, WrapDivides
<1>5. m \in Int BY WordAssumption
<1> DEFINE x == Wrap(a)
           y == Wrap(b)
           w == Wrap(Wrap(a) + Wrap(b))
<1>6. x \in Int /\ y \in Int /\ w \in Word /\ w \in Int BY <1>3, WrapDivides, WordAssumption DEF Word
<1>7. a = x + p * m /\ b = y + q * m /\ x + y = w + r * m BY <1>1, <1>2, <1>4
<1> HIDE DEF m, x, y, w
<1>8. p * m + q * m + r * m = (p + q + r) * m BY <1>5
<1>9. p * m \in Int /\ q * m \in Int /\ r * m \in Int BY <1>5
<1>10. a + b = w + (p + q + r) * m BY <1>6, <1>7, <1>8, <1>9
<1>11. p + q + r \in Int OBVIOUS
<1>12. Wrap(w + (p + q + r) * m) = w BY <1>6, <1>11, WrapIgnoresTurns DEF m
<1>13. QED BY <1>10, <1>12 DEF w

\* A word is its own wrapped value.
LEMMA WrapOfWord == \A a \in Word : Wrap(a) = a
BY WrapBelow, WordAssumption DEF Word

\* Where a checked move ends, when the place it starts from is known up to wrapping.
LEMMA WrapOfMove ==
  ASSUME NEW x \in Int, NEW t \in Int, NEW v \in Int, Wrap(v) = Wrap(t), Wrap(x) + v \in Word
  PROVE  Wrap(x) + v = Wrap(x + t)
<1>1. Wrap(x) \in Word /\ Wrap(x) \in Int BY WrapDivides, WordAssumption DEF Word
<1>2. Wrap(Wrap(x) + v) = Wrap(x) + v /\ Wrap(Wrap(x)) = Wrap(x) BY <1>1, WrapOfWord
<1>3. Wrap(Wrap(Wrap(x)) + Wrap(v)) = Wrap(Wrap(x) + v) BY <1>1, WrapOfSum
<1>4. Wrap(Wrap(x) + Wrap(t)) = Wrap(x + t) BY WrapOfSum
<1>5. QED BY <1>2, <1>3, <1>4

----------------------------------------------------------------------------
(* Sums over finite sets.                                                  *)

\* Among sets of elements of a finite set there is a smallest one.
LEMMA SmallestSet ==
  ASSUME NEW U, IsFiniteSet(U), NEW Bad \in SUBSET (SUBSET U), Bad # {}
  PROVE  \E s \in Bad : \A t \in Bad : Cardinality(s) <= Cardinality(t)
<1> DEFINE Sizes == {Cardinality(s) : s \in Bad}
<1>1. \A s \in Bad : Cardinality(s) \in Nat BY FS_Subset, FS_CardinalityType
<1>2. Sizes \in SUBSET Nat /\ Sizes # {} BY <1>1
<1>3. PICK n \in Sizes : \A m \in Sizes : n <= m BY <1>2, LeastNatural
<1>4. QED BY <1>3

\* What is left of a finite set without one of its elements.
LEMMA SmallerSet ==
  ASSUME NEW S, IsFiniteSet(S), NEW x \in S
  PROVE  /\ IsFiniteSet(S \ {x}) /\ Cardinality(S) \in Nat /\ Cardinality(S \ {x}) \in Nat
         /\ Cardinality(S) = Cardinality(S \ {x}) + 1
BY FS_RemoveElement, FS_CardinalityType

\* The element a sum takes next, and the function on sets by which the sums are defined.
Chosen(s) == CHOOSE x \in s : TRUE

Sums(f, U, sum) ==
  sum = [s \in SUBSET U |-> IF s = {} THEN 0 ELSE f[Chosen(s)] + sum[s \ {Chosen(s)}]]

LEMMA SumsExist ==
  ASSUME NEW f, NEW U, IsFiniteSet(U)
  PROVE  \E sum : Sums(f, U, sum)
<1> DEFINE Upto(n) == {s \in SUBSET U : Cardinality(s) <= n}
           Partial(n, sum) == sum = [s \in Upto(n) |->
             IF s = {} THEN 0 ELSE f[Chosen(s)] + sum[s \ {Chosen(s)}]]
           Missing == {n \in Nat : ~ \E sum : Partial(n, sum)}
<1>1. \A s \in SUBSET U : IsFiniteSet(s) /\ Cardinality(s) \in Nat
  BY FS_Subset, FS_CardinalityType
<1>2. ASSUME NEW s \in SUBSET U, s # {}
      PROVE  /\ Chosen(s) \in s /\ s \ {Chosen(s)} \in SUBSET U
             /\ Cardinality(s \ {Chosen(s)}) \in Nat
             /\ Cardinality(s) = Cardinality(s \ {Chosen(s)}) + 1
  <2>1. Chosen(s) \in s BY <1>2 DEF Chosen
  <2>2. QED BY <1>1, <1>2, <2>1, SmallerSet
<1>3. Missing = {}
  <2>1. SUFFICES ASSUME Missing # {} PROVE FALSE OBVIOUS
  <2>2. PICK n \in Missing : \A m \in Missing : n <= m BY <2>1, LeastNatural
  <2>3. n \in Nat /\ ~ \E sum : Partial(n, sum) OBVIOUS
  <2>4. CASE n = 0
    <3> DEFINE zero == [s \in Upto(0) |-> 0]
    <3>1. ASSUME NEW s \in Upto(0), s # {} PROVE FALSE
      <4>1. s \in SUBSET U /\ Cardinality(s) <= 0 OBVIOUS
      <4>2. Cardinality(s \ {Chosen(s)}) \in Nat
            /\ Cardinality(s) = Cardinality(s \ {Chosen(s)}) + 1
        BY <1>2, <3>1, <4>1
      <4>3. QED BY <4>1, <4>2
    <3> HIDE DEF Upto
    <3>2. Partial(0, zero) BY <3>1, Zenon
    <3>3. QED BY <2>3, <2>4, <3>2
  <2>5. CASE n # 0
    <3>1. n - 1 \in Nat /\ n - 1 \notin Missing
      <4> HIDE DEF Missing
      <4>1. QED BY <2>2, <2>3, <2>5
    <3>2. PICK sum : Partial(n - 1, sum) BY <3>1
    <3> DEFINE more == [s \in Upto(n) |->
                          IF s = {} THEN 0 ELSE f[Chosen(s)] + sum[s \ {Chosen(s)}]]
    <3>3. ASSUME NEW s \in Upto(n), s # {}
          PROVE  s \ {Chosen(s)} \in Upto(n - 1) /\ s \ {Chosen(s)} \in Upto(n)
      BY <1>1, <1>2, <2>3, <3>3
    <3>4. \A s \in Upto(n - 1) : s \in Upto(n) BY <1>1, <2>3
    <3> HIDE DEF Upto
    <3>5. \A s \in Upto(n - 1) : more[s] = sum[s] BY <3>2, <3>4
    <3>6. Partial(n, more) BY <3>3, <3>5
    <3>7. QED BY <2>3, <3>6
  <2>6. QED BY <2>4, <2>5
<1>4. Cardinality(U) \in Nat BY FS_CardinalityType
<1>5. PICK sum : Partial(Cardinality(U), sum) BY <1>3, <1>4
<1>6. Upto(Cardinality(U)) = SUBSET U BY FS_Subset
<1>7. QED BY <1>5, <1>6 DEF Sums

\* The sums of a set are the same whatever set they are taken in.
LEMMA SumsAgree ==
  ASSUME NEW f, NEW V, IsFiniteSet(V), NEW U \in SUBSET V,
         NEW a, Sums(f, U, a), NEW b, Sums(f, V, b)
  PROVE  a[U] = b[U]
<1> DEFINE Bad == {s \in SUBSET U : a[s] # b[s]}
<1>1. SUFFICES ASSUME Bad # {} PROVE FALSE OBVIOUS
<1>2. IsFiniteSet(U) BY FS_Subset
<1>3. PICK s \in Bad : \A t \in Bad : Cardinality(s) <= Cardinality(t)
  BY <1>1, <1>2, SmallestSet
<1>4. s \in SUBSET U /\ s \in SUBSET V /\ a[s] # b[s] OBVIOUS
<1>5. s # {} BY <1>4 DEF Sums
<1>6. Chosen(s) \in s /\ IsFiniteSet(s) BY <1>2, <1>4, <1>5, FS_Subset DEF Chosen
<1>7. Cardinality(s \ {Chosen(s)}) \in Nat
      /\ Cardinality(s) = Cardinality(s \ {Chosen(s)}) + 1
  BY <1>6, SmallerSet
<1>8. s \ {Chosen(s)} \in SUBSET U BY <1>4
<1>9. s \ {Chosen(s)} \notin Bad
  <2> HIDE DEF Bad
  <2>1. QED BY <1>3, <1>7
<1>10. a[s \ {Chosen(s)}] = b[s \ {Chosen(s)}] BY <1>8, <1>9
<1>11. a[s] = b[s] BY <1>4, <1>5, <1>10 DEF Sums
<1>12. QED BY <1>4, <1>11

\* A sum is a number chosen of the set, and the sum of the others.
LEMMA SumUnfolds ==
  ASSUME NEW f, NEW S, IsFiniteSet(S)
  PROVE  SumFunctionOnSet(f, S) =
           IF S = {} THEN 0 ELSE f[Chosen(S)] + SumFunctionOnSet(f, S \ {Chosen(S)})
<1> DEFINE sum(U) == CHOOSE g : Sums(f, U, g)
<1>1. ASSUME NEW U PROVE SumFunctionOnSet(f, U) = sum(U)[U]
  BY DEF SumFunctionOnSet, FoldFunctionOnSet, MapThenFoldSet, Sums, Chosen
<1>2. ASSUME NEW U, IsFiniteSet(U) PROVE Sums(f, U, sum(U)) BY <1>2, SumsExist
<1> HIDE DEF sum
<1>3. CASE S = {} BY <1>1, <1>2, <1>3 DEF Sums
<1>4. CASE S # {}
  <2>1. Chosen(S) \in S BY <1>4 DEF Chosen
  <2>2. IsFiniteSet(S \ {Chosen(S)}) BY <2>1, SmallerSet
  <2>3. sum(S)[S \ {Chosen(S)}] = SumFunctionOnSet(f, S \ {Chosen(S)})
    BY <1>1, <1>2, <2>2, SumsAgree
  <2>4. sum(S)[S] = f[Chosen(S)] + sum(S)[S \ {Chosen(S)}] BY <1>2, <1>4 DEF Sums
  <2>5. QED BY <1>1, <1>4, <2>3, <2>4
<1>5. QED BY <1>3, <1>4
LEMMA EmptySum ==
  ASSUME NEW f
  PROVE  SumFunctionOnSet(f, {}) = 0
BY SumUnfolds, FS_EmptySet

\* A sum of integers is one.
LEMMA SumIsInt ==
  ASSUME NEW S, IsFiniteSet(S), NEW f, \A x \in S : f[x] \in Int
  PROVE  SumFunctionOnSet(f, S) \in Int
<1> DEFINE Bad == {s \in SUBSET S : SumFunctionOnSet(f, s) \notin Int}
<1>1. SUFFICES ASSUME Bad # {} PROVE FALSE OBVIOUS
<1>2. PICK s \in Bad : \A t \in Bad : Cardinality(s) <= Cardinality(t) BY <1>1, SmallestSet
<1>3. s \in SUBSET S /\ SumFunctionOnSet(f, s) \notin Int /\ IsFiniteSet(s) BY FS_Subset
<1>4. s # {} BY <1>3, EmptySum
<1>5. Chosen(s) \in s BY <1>4 DEF Chosen
<1>6. Cardinality(s \ {Chosen(s)}) \in Nat /\ Cardinality(s) = Cardinality(s \ {Chosen(s)}) + 1
  BY <1>3, <1>5, SmallerSet
<1>7. s \ {Chosen(s)} \notin Bad
  <2> HIDE DEF Bad
  <2>1. QED BY <1>2, <1>6
<1>8. SumFunctionOnSet(f, s \ {Chosen(s)}) \in Int BY <1>3, <1>7
<1>9. f[Chosen(s)] \in Int BY <1>3, <1>5
<1>10. SumFunctionOnSet(f, s) = f[Chosen(s)] + SumFunctionOnSet(f, s \ {Chosen(s)})
  BY <1>3, <1>4, SumUnfolds
<1>11. QED BY <1>3, <1>8, <1>9, <1>10

\* Any element may be taken out of a sum.
LEMMA SumTakesOut ==
  ASSUME NEW S, IsFiniteSet(S), NEW f, \A x \in S : f[x] \in Int, NEW y \in S
  PROVE  SumFunctionOnSet(f, S) = f[y] + SumFunctionOnSet(f, S \ {y})
<1> DEFINE Sum(s) == SumFunctionOnSet(f, s)
           Bad == {s \in SUBSET S : \E x \in s : Sum(s) # f[x] + Sum(s \ {x})}
<1>1. SUFFICES ASSUME Bad # {} PROVE FALSE OBVIOUS
<1>2. PICK s \in Bad : \A t \in Bad : Cardinality(s) <= Cardinality(t) BY <1>1, SmallestSet
<1>3. s \in SUBSET S /\ IsFiniteSet(s) BY FS_Subset
<1>4. PICK x \in s : Sum(s) # f[x] + Sum(s \ {x}) OBVIOUS
<1> DEFINE c == Chosen(s)
<1>5. c \in s BY <1>4 DEF Chosen
<1>6. Sum(s) = f[c] + Sum(s \ {c}) BY <1>3, <1>4, SumUnfolds
<1>7. x # c BY <1>4, <1>6
<1>8. /\ IsFiniteSet(s \ {c}) /\ Cardinality(s \ {c}) \in Nat
      /\ Cardinality(s) = Cardinality(s \ {c}) + 1
      /\ IsFiniteSet(s \ {x}) /\ Cardinality(s \ {x}) \in Nat
      /\ Cardinality(s) = Cardinality(s \ {x}) + 1
  <2> HIDE DEF c
  <2>1. QED BY <1>3, <1>4, <1>5, SmallerSet
<1>9. s \ {c} \notin Bad /\ s \ {x} \notin Bad
  <2> HIDE DEF Bad, c
  <2>1. QED BY <1>2, <1>8
<1>10. (s \ {c}) \ {x} = (s \ {x}) \ {c} OBVIOUS
<1> HIDE DEF c
<1>11. Sum(s \ {c}) = f[x] + Sum((s \ {c}) \ {x}) BY <1>3, <1>4, <1>7, <1>9
<1>12. Sum(s \ {x}) = f[c] + Sum((s \ {c}) \ {x}) BY <1>3, <1>5, <1>7, <1>9, <1>10
<1>13. Sum((s \ {c}) \ {x}) \in Int BY <1>3, SumIsInt, FS_Subset
<1>14. f[x] \in Int /\ f[c] \in Int BY <1>3, <1>4, <1>5
<1> HIDE DEF Sum
<1>15. QED BY <1>4, <1>6, <1>11, <1>12, <1>13, <1>14

\* A sum over an interval grows with it by one number.
LEMMA IntervalSum ==
  ASSUME NEW a \in Int, NEW b \in Int, NEW f, \A x \in a .. b : f[x] \in Int
  PROVE  /\ SumFunctionOnSet(f, a .. b) \in Int
         /\ b < a => SumFunctionOnSet(f, a .. b) = 0
         /\ a <= b => SumFunctionOnSet(f, a .. b) = SumFunctionOnSet(f, a .. (b - 1)) + f[b]
<1>1. IsFiniteSet(a .. b) BY FS_Interval
<1>2. SumFunctionOnSet(f, a .. b) \in Int BY <1>1, SumIsInt
<1>3. ASSUME b < a PROVE SumFunctionOnSet(f, a .. b) = 0
  <2>1. a .. b = {} BY <1>3
  <2>2. QED BY <2>1, EmptySum
<1>4. ASSUME a <= b PROVE SumFunctionOnSet(f, a .. b) = SumFunctionOnSet(f, a .. (b - 1)) + f[b]
  <2>1. b \in a .. b /\ (a .. b) \ {b} = a .. (b - 1) BY <1>4
  <2>2. SumFunctionOnSet(f, a .. b) = f[b] + SumFunctionOnSet(f, a .. (b - 1))
    BY <1>1, <2>1, SumTakesOut
  <2>3. IsFiniteSet(a .. (b - 1)) /\ \A x \in a .. (b - 1) : f[x] \in Int
    <3>1. IsFiniteSet(a .. (b - 1)) BY FS_Interval
    <3>2. QED BY <2>1, <3>1
  <2>4. SumFunctionOnSet(f, a .. (b - 1)) \in Int BY <2>3, SumIsInt
  <2>5. f[b] \in Int BY <2>1
  <2>6. QED BY <2>2, <2>4, <2>5
<1>5. QED BY <1>2, <1>3, <1>4

\* Two functions that agree on a set have the same sum there.
LEMMA SameSum ==
  ASSUME NEW S, IsFiniteSet(S), NEW f, NEW g, \A x \in S : f[x] = g[x]
  PROVE  SumFunctionOnSet(f, S) = SumFunctionOnSet(g, S)
<1> DEFINE Bad == {s \in SUBSET S : SumFunctionOnSet(f, s) # SumFunctionOnSet(g, s)}
<1>1. SUFFICES ASSUME Bad # {} PROVE FALSE OBVIOUS
<1>2. PICK s \in Bad : \A t \in Bad : Cardinality(s) <= Cardinality(t) BY <1>1, SmallestSet
<1>3. s \in SUBSET S /\ IsFiniteSet(s) BY FS_Subset
<1>4. s # {} BY EmptySum
<1>5. Chosen(s) \in s BY <1>4 DEF Chosen
<1>6. Cardinality(s \ {Chosen(s)}) \in Nat /\ Cardinality(s) = Cardinality(s \ {Chosen(s)}) + 1
  BY <1>3, <1>5, SmallerSet
<1>7. s \ {Chosen(s)} \notin Bad
  <2> HIDE DEF Bad
  <2>1. QED BY <1>2, <1>6
<1>8. SumFunctionOnSet(f, s \ {Chosen(s)}) = SumFunctionOnSet(g, s \ {Chosen(s)}) BY <1>3, <1>7
<1>9. f[Chosen(s)] = g[Chosen(s)] BY <1>3, <1>5
<1>10. SumFunctionOnSet(f, s) = SumFunctionOnSet(g, s)
  BY <1>3, <1>4, <1>8, <1>9, SumUnfolds
<1>11. QED BY <1>10

----------------------------------------------------------------------------
(* Commands that are run one after the other, and the items they produce.  *)

\* A set of natural numbers with a bound has a largest one.
LEMMA MaxOfNaturals ==
  ASSUME NEW S \in SUBSET Nat, S # {}, NEW n \in Nat, \A x \in S : x <= n
  PROVE  Max(S) \in S /\ \A x \in S : x <= Max(S)
<1> DEFINE gaps == {n - x : x \in S}
<1>1. gaps \in SUBSET Nat /\ gaps # {}
  <2>1. \A x \in S : n - x \in Nat OBVIOUS
  <2>2. PICK x \in S : TRUE OBVIOUS
  <2>3. n - x \in gaps OBVIOUS
  <2>4. QED BY <2>1, <2>3
<1>2. PICK g \in gaps : \A h \in gaps : g <= h BY <1>1, LeastNatural
<1>3. PICK m \in S : g = n - m BY <1>2
<1>4. \A x \in S : m >= x
  <2>1. SUFFICES ASSUME NEW x \in S PROVE m >= x OBVIOUS
  <2>2. n - x \in gaps OBVIOUS
  <2>3. n - m <= n - x BY <1>2, <1>3, <2>2
  <2>4. QED BY <2>3
<1>5. \E z \in S : \A x \in S : z >= x BY <1>4
<1>6. Max(S) \in S /\ \A x \in S : Max(S) >= x BY <1>5 DEF Max
<1>7. QED BY <1>6

\* The last command before the i-th with one of these opcodes, or 0.
LastIn(cs, i, ops) == Max({0} \cup {j \in 1 .. (i - 1) : cs[j].c.op \in ops})

LEMMA LastInIs ==
  ASSUME NEW cs, NEW i \in Nat \ {0}, NEW ops
  PROVE  /\ LastIn(cs, i, ops) \in 0 .. (i - 1)
         /\ LastIn(cs, i, ops) # 0 => cs[LastIn(cs, i, ops)].c.op \in ops
         /\ \A j \in 1 .. (i - 1) : cs[j].c.op \in ops => j <= LastIn(cs, i, ops)
<1> DEFINE S == {0} \cup {j \in 1 .. (i - 1) : cs[j].c.op \in ops}
<1>1. S \in SUBSET Nat /\ S # {} /\ \A x \in S : x <= i OBVIOUS
<1>2. Max(S) \in S /\ \A x \in S : x <= Max(S)
  <2> HIDE DEF S
  <2>1. QED BY <1>1, MaxOfNaturals
<1>3. LastIn(cs, i, ops) = Max(S) BY DEF LastIn
<1> DEFINE m == Max(S)
<1>4. m \in S /\ \A x \in S : x <= m BY <1>2
<1> HIDE DEF m
<1>5. m \in 0 .. (i - 1) BY <1>4
<1>6. m # 0 => cs[m].c.op \in ops BY <1>4
<1>7. \A j \in 1 .. (i - 1) : cs[j].c.op \in ops => j <= m
  <2>1. \A j \in 1 .. (i - 1) : cs[j].c.op \in ops => j \in S OBVIOUS
  <2> HIDE DEF S
  <2>2. QED BY <1>4, <2>1
<1>8. QED BY <1>3, <1>5, <1>6, <1>7 DEF m

LEMMA LastInNext ==
  ASSUME NEW cs, NEW i \in Nat \ {0}, NEW ops
  PROVE  LastIn(cs, i + 1, ops) = IF cs[i].c.op \in ops THEN i ELSE LastIn(cs, i, ops)
<1> DEFINE m == LastIn(cs, i, ops)
           n == LastIn(cs, i + 1, ops)
<1>1. /\ m \in 0 .. (i - 1) /\ (m # 0 => cs[m].c.op \in ops)
      /\ \A j \in 1 .. (i - 1) : cs[j].c.op \in ops => j <= m
  BY LastInIs
<1>2. /\ n \in 0 .. i /\ (n # 0 => cs[n].c.op \in ops)
      /\ \A j \in 1 .. i : cs[j].c.op \in ops => j <= n
  <2>1. i + 1 \in Nat \ {0} /\ (i + 1) - 1 = i OBVIOUS
  <2>2. QED BY <2>1, LastInIs
<1> HIDE DEF m, n
<1>3. CASE cs[i].c.op \in ops BY <1>2, <1>3 DEF n
<1>4. CASE cs[i].c.op \notin ops
  <2>1. n # 0 => n \in 1 .. (i - 1) BY <1>2, <1>4
  <2>2. n # 0 => n <= m BY <1>1, <1>2, <2>1
  <2>3. m # 0 => m <= n BY <1>1, <1>2
  <2>4. n = m BY <1>1, <1>2, <2>2, <2>3
  <2>5. QED BY <1>4, <2>4 DEF m, n
<1>5. QED BY <1>3, <1>4

LEMMA LastInFirst ==
  ASSUME NEW cs, NEW ops
  PROVE  LastIn(cs, 1, ops) = 0
BY LastInIs

\* Each command is found behind the one before it.
InOrder(cs) == \A i, j \in DOMAIN cs : i < j => cs[i].at < cs[j].at

LEMMA OneMoreInOrder ==
  ASSUME NEW T, NEW cs \in Seq(T), NEW x \in T, InOrder(cs),
         \A t \in T : t.at \in Nat,
         cs # << >> => cs[Len(cs)].at < x.at
  PROVE  InOrder(Append(cs, x))
<1> DEFINE n == Len(cs)
           more == Append(cs, x)
<1>1. /\ n \in Nat /\ DOMAIN cs = 1 .. n /\ DOMAIN more = 1 .. (n + 1)
      /\ more[n + 1] = x /\ \A i \in 1 .. n : more[i] = cs[i] /\ cs[i] \in T
  BY LenProperties, ElementOfSeq
<1> HIDE DEF more, n
<1>2. SUFFICES ASSUME NEW i \in 1 .. (n + 1), NEW j \in 1 .. (n + 1), i < j
               PROVE  more[i].at < more[j].at
  BY <1>1 DEF InOrder, more
<1>3. CASE j <= n
  <2>1. i \in 1 .. n /\ j \in 1 .. n BY <1>1, <1>2, <1>3
  <2>2. cs[i].at < cs[j].at BY <1>1, <1>2, <2>1 DEF InOrder
  <2>3. QED BY <1>1, <2>1, <2>2
<1>4. CASE j = n + 1
  <2>1. i \in 1 .. n /\ n \in 1 .. n BY <1>1, <1>2, <1>4
  <2>2. cs # << >> BY <1>1, <2>1
  <2>3. cs[n].at < x.at BY <2>2 DEF n
  <2>4. i = n \/ cs[i].at < cs[n].at BY <1>1, <2>1 DEF InOrder
  <2>5. cs[i].at \in Nat /\ cs[n].at \in Nat /\ x.at \in Nat BY <1>1, <2>1
  <2>6. cs[i].at < x.at BY <2>3, <2>4, <2>5
  <2>7. QED BY <1>1, <1>4, <2>1, <2>6
<1>5. QED BY <1>1, <1>2, <1>3, <1>4

\* The command after the last one with these opcodes is behind each of them that came before.
LEMMA AfterTheLast ==
  ASSUME NEW cs, InOrder(cs), NEW by \in Nat \ {0}, 1 .. by \subseteq DOMAIN cs, NEW ops,
         NEW i \in 1 .. (by - 1), cs[i].c.op \in ops
  PROVE  cs[i].at < cs[LastIn(cs, by, ops) + 1].at
<1>1. LastIn(cs, by, ops) \in 0 .. (by - 1) /\ i <= LastIn(cs, by, ops) BY LastInIs
<1> DEFINE j == LastIn(cs, by, ops) + 1
<1>2. j \in 1 .. by /\ i < j /\ i \in 1 .. by BY <1>1
<1> HIDE DEF j
<1>3. cs[i].at < cs[j].at BY <1>2 DEF InOrder
<1>4. QED BY <1>3 DEF j

\* The items of a list that belong to the i-th command, and those of its own command before an item.
MadeBy(list, i) == Cardinality({a \in DOMAIN list : list[a].by = i})
TurnOf(list, a) == Cardinality({b \in 1 .. (a - 1) : list[b].by = list[a].by})

LEMMA MadeByNone ==
  ASSUME NEW T, NEW list \in Seq(T), NEW i, \A a \in DOMAIN list : list[a].by # i
  PROVE  MadeBy(list, i) = 0
<1>1. {a \in DOMAIN list : list[a].by = i} = {} OBVIOUS
<1>2. QED BY <1>1, FS_EmptySet DEF MadeBy

\* An item that is added is one more of its command's, and comes after the others of it.
LEMMA MadeByMore ==
  ASSUME NEW T, NEW list \in Seq(T), NEW x \in T
  PROVE  /\ \A i : /\ MadeBy(list, i) \in Nat
                   /\ MadeBy(Append(list, x), i) =
                        IF x.by = i THEN MadeBy(list, i) + 1 ELSE MadeBy(list, i)
         /\ TurnOf(Append(list, x), Len(list) + 1) = MadeBy(list, x.by)
         /\ \A a \in 1 .. Len(list) : TurnOf(Append(list, x), a) = TurnOf(list, a)
<1> DEFINE more == Append(list, x)
           n == Len(list)
           Of(l, i) == {a \in DOMAIN l : l[a].by = i}
<1>1. /\ n \in Nat /\ DOMAIN list = 1 .. n /\ DOMAIN more = 1 .. (n + 1)
      /\ \A a \in 1 .. n : more[a] = list[a]
      /\ more[n + 1] = x
  BY AppendProperties, LenProperties
<1> HIDE DEF more, n
<1>2. ASSUME NEW i
      PROVE  /\ IsFiniteSet(Of(list, i)) /\ Cardinality(Of(list, i)) \in Nat
             /\ Cardinality(Of(more, i)) =
                  IF x.by = i THEN Cardinality(Of(list, i)) + 1 ELSE Cardinality(Of(list, i))
  <2>1. IsFiniteSet(1 .. n) BY <1>1, FS_Interval
  <2>2. IsFiniteSet(Of(list, i)) /\ Cardinality(Of(list, i)) \in Nat
    <3>1. Of(list, i) \in SUBSET (1 .. n) BY <1>1
    <3> HIDE DEF Of
    <3>2. QED BY <2>1, <3>1, FS_Subset, FS_CardinalityType
  <2>3. CASE x.by = i
    <3>1. Of(more, i) = Of(list, i) \cup {n + 1} /\ (n + 1) \notin Of(list, i) BY <1>1, <2>3
    <3> HIDE DEF Of
    <3>2. QED BY <2>2, <2>3, <3>1, FS_AddElement
  <2>4. CASE x.by # i
    <3>1. Of(more, i) = Of(list, i) BY <1>1, <2>4
    <3>2. QED BY <2>2, <2>4, <3>1
  <2>5. QED BY <2>2, <2>3, <2>4
<1>3. {b \in 1 .. ((n + 1) - 1) : more[b].by = more[n + 1].by} = Of(list, x.by) BY <1>1
<1>4. ASSUME NEW a \in 1 .. n
      PROVE  {b \in 1 .. (a - 1) : more[b].by = more[a].by} =
             {b \in 1 .. (a - 1) : list[b].by = list[a].by}
  BY <1>1
<1>5. QED BY <1>2, <1>3, <1>4 DEF MadeBy, TurnOf, more, n

----------------------------------------------------------------------------
(* Memory objects: the accessors never leave the window, and remapping and *)
(* unmapping are inverse.                                                  *)

\* A located range lies inside the window.
LEMMA LocatedInside ==
  ASSUME NEW start \in Word, NEW size \in Word, start + size <= MaxWord,
         NEW offset \in Word, NEW address \in Word, NEW length \in Word,
         Succeeded(Locate(start, size, offset, address, length))
  PROVE  /\ Locate(start, size, offset, address, length).value = address + offset
         /\ start <= address + offset
         /\ address + offset + length <= start + size
<1>1. Wrap(start + size) = start + size
  BY WrapOfWord, WordAssumption DEF Word
<1>2. QED
  BY <1>1, WordAssumption DEF Locate, Succeeded, Ok, Fails, Word

\* A pointer handed out by mk_memory_object_remap_address, and the `length' bytes after it,
\* are inside the local window.
THEOREM RemapStaysInside ==
  ASSUME NEW mobj \in mk_memory_object, NeverWraps(mobj),
         NEW offset \in Word, NEW address \in Word, NEW length \in Word,
         Succeeded(mk_memory_object_remap_address(mobj, offset, address, length))
  PROVE  LET p == mk_memory_object_remap_address(mobj, offset, address, length).value
         IN  /\ p = mobj.address + (address + offset - mobj.target_address)
             /\ mobj.address <= p /\ p + length <= mobj.address + mobj.length
<1> DEFINE found == Locate(mobj.target_address, mobj.length, offset, address, length)
           shift == address + offset - mobj.target_address
<1>1. Succeeded(found)
  BY DEF mk_memory_object_remap_address
<1>2. /\ found.value = address + offset
      /\ mobj.target_address <= address + offset
      /\ address + offset + length <= mobj.target_address + mobj.length
  BY <1>1, LocatedInside DEF mk_memory_object, NeverWraps
<1>3. /\ mobj.address + shift \in Word
      /\ mobj.address <= mobj.address + shift
      /\ mobj.address + shift + length <= mobj.address + mobj.length
  BY <1>2, WordAssumption DEF mk_memory_object, NeverWraps, Word
<1>4. mk_memory_object_remap_address(mobj, offset, address, length).value = mobj.address + shift
  <2>1. Wrap(mobj.address + (found.value - mobj.target_address)) = mobj.address + shift
    <3>1. mobj.address + (found.value - mobj.target_address) = mobj.address + shift
      BY <1>2, WordAssumption DEF mk_memory_object, Word
    <3>2. QED
      BY <1>3, <3>1, WrapOfWord
  <2>2. QED
    BY <1>1, <2>1 DEF mk_memory_object_remap_address, Ok
<1>5. QED
  BY <1>3, <1>4

\* Unmapping the remapped pointer gives back the address it was made from
\* (mk_memory_object_unmap_address is "the reverse of the remap operation").
THEOREM UnmapReversesRemap ==
  ASSUME NEW mobj \in mk_memory_object, NeverWraps(mobj),
         NEW offset \in Word, NEW address \in Word, NEW length \in Word,
         Succeeded(mk_memory_object_remap_address(mobj, offset, address, length))
  PROVE  LET p == mk_memory_object_remap_address(mobj, offset, address, length).value
         IN  mk_memory_object_unmap_address(mobj, 0, p, length) = Ok(address + offset)
<1> DEFINE p == mk_memory_object_remap_address(mobj, offset, address, length).value
<1>1. /\ p = mobj.address + (address + offset - mobj.target_address)
      /\ mobj.address <= p /\ p + length <= mobj.address + mobj.length
  BY RemapStaysInside
<1>2. /\ address + offset \in Word
      /\ mobj.target_address <= address + offset
      /\ mobj.target_address \in Word /\ mobj.address \in Word /\ mobj.length \in Word
      /\ mobj.address + mobj.length \in Word
  <2>1. Succeeded(Locate(mobj.target_address, mobj.length, offset, address, length))
    BY DEF mk_memory_object_remap_address
  <2>2. mobj.target_address <= address + offset
        /\ address + offset + length <= mobj.target_address + mobj.length
    BY <2>1, LocatedInside DEF mk_memory_object, NeverWraps
  <2>3. QED
    BY <2>2, WordAssumption DEF mk_memory_object, NeverWraps, Word
<1>3. p \in Word
  BY <1>1, <1>2, WordAssumption DEF Word
<1> HIDE DEF p
<1>4. Locate(mobj.address, mobj.length, p, 0, length) = Ok(p)
  <2>1. Wrap(mobj.address + mobj.length) = mobj.address + mobj.length
    BY <1>2, WrapOfWord
  <2>2. QED
    BY <1>1, <1>2, <1>3, <2>1, WordAssumption DEF Locate, Word
<1>5. Wrap(p + 0) = p
  BY <1>3, WrapOfWord DEF Word
<1>6. Wrap(mobj.target_address + (Wrap(p + 0) - mobj.address)) = address + offset
  <2>1. mobj.target_address + (Wrap(p + 0) - mobj.address) = address + offset
    BY <1>1, <1>2, <1>3, <1>5, WordAssumption DEF Word
  <2>2. QED
    BY <1>2, <2>1, WrapOfWord
<1>7. QED
  <2>1. mk_memory_object_verify_local_pointer(mobj, p, 0, length) = Ok(p)
    BY <1>4 DEF mk_memory_object_verify_local_pointer
  <2>2. mk_memory_object_unmap_address(mobj, 0, p, length) = Ok(address + offset)
    BY <2>1, <1>6 DEF mk_memory_object_unmap_address, Succeeded, Ok
  <2>3. QED
    BY <2>2 DEF p
=============================================================================
