-------------------------- MODULE MachOImageProofs --------------------------
(***************************************************************************)
(* What holds of an image whatever the target's memory is made of, however *)
(* it changes, and on a host of either byte order.                         *)
(***************************************************************************)
EXTENDS MachOImage, CoreProofs

----------------------------------------------------------------------------
(* Numbers in memory.                                                      *)

\* The digits of a number add up step by step: the function that Horner defines in terms of
\* itself exists, and its values are natural numbers.
LEMMA HornerSteps ==
  ASSUME NEW base \in Nat, NEW digits \in Seq(Nat)
  PROVE  \E number \in [0 .. Len(digits) -> Nat] :
           /\ number[0] = 0
           /\ \A i \in 1 .. Len(digits) : number[i] = base * number[i - 1] + digits[i]
           /\ Horner(base, digits) = number[Len(digits)]
<1> DEFINE n == Len(digits)
           Step(f, i) == IF i = 0 THEN 0 ELSE base * f[i - 1] + digits[i]
           Obeys(f, k) == f = [i \in 0 .. k |-> Step(f, i)]
           S == {k \in 0 .. n : ~ \E f \in [0 .. k -> Nat] : Obeys(f, k)}
<1>0. n \in Nat OBVIOUS
<1>1. S = {}
  <2>1. SUFFICES ASSUME S # {} PROVE FALSE OBVIOUS
  <2>2. PICK k \in S : \A m \in S : k <= m
    <3>1. S \in SUBSET Nat OBVIOUS
    <3>2. QED BY <2>1, <3>1, LeastNatural
  <2>3. CASE k = 0
    <3> DEFINE f == [i \in {0} |-> 0]
    <3>1. f \in [0 .. 0 -> Nat] OBVIOUS
    <3>2. Obeys(f, 0) OBVIOUS
    <3>3. QED BY <2>2, <2>3, <3>1, <3>2
  <2>4. CASE k # 0
    <3>0. S \subseteq 0 .. n OBVIOUS
    <3> HIDE DEF S, n
    <3>1. k \in 1 .. n /\ k - 1 \in 0 .. n /\ k - 1 \notin S BY <1>0, <2>2, <2>4, <3>0
    <3>2. PICK f \in [0 .. k - 1 -> Nat] : Obeys(f, k - 1) BY <3>1, Zenon DEF S
    <3> DEFINE g == [i \in 0 .. k |-> IF i = k THEN base * f[k - 1] + digits[k] ELSE f[i]]
    <3>3. base * f[k - 1] + digits[k] \in Nat
      <4>1. f[k - 1] \in Nat /\ digits[k] \in Nat BY <3>1, <3>2 DEF n
      <4>2. base * f[k - 1] \in Nat BY <4>1
      <4>3. QED BY <4>1, <4>2, SMTT(40)
    <3>4. g \in [0 .. k -> Nat] BY <3>1, <3>3
    <3>5. ASSUME NEW i \in 0 .. k PROVE g[i] = Step(g, i)
      <4>1. CASE i = k
        <5>1. g[i - 1] = f[k - 1] /\ g[i] = base * f[k - 1] + digits[k] BY <3>1, <4>1
        <5>2. QED BY <2>4, <4>1, <5>1
      <4>2. CASE i # k
        <5>1. i \in 0 .. k - 1 /\ g[i] = f[i] BY <3>1, <4>2
        <5>2. f[i] = Step(f, i) BY <3>2, <5>1
        <5>3. i # 0 => g[i - 1] = f[i - 1] BY <3>1, <5>1
        <5>4. QED BY <5>1, <5>2, <5>3
      <4>3. QED BY <4>1, <4>2
    <3>6. Obeys(g, k) BY <3>5
    <3>7. QED BY <2>2, <3>4, <3>6, Zenon DEF S
  <2>5. QED BY <2>3, <2>4
<1> DEFINE number == CHOOSE f : Obeys(f, n)
<1>2. PICK f \in [0 .. n -> Nat] : Obeys(f, n)
  <2>1. n \in 0 .. n BY <1>0
  <2>2. QED BY <1>1, <2>1, Zenon
<1>3. Obeys(number, n) BY <1>2, Zenon
<1>4. Horner(base, digits) = number[n] BY Zenon DEF Horner
<1>5. ASSUME NEW i \in 0 .. n PROVE number[i] \in Nat
  <2> DEFINE T == {k \in 0 .. n : number[k] \notin Nat}
  <2>1. SUFFICES ASSUME T # {} PROVE FALSE OBVIOUS
  <2>2. PICK k \in T : \A m \in T : k <= m
    <3>1. T \in SUBSET Nat OBVIOUS
    <3>2. QED BY <2>1, <3>1, LeastNatural
  <2>3. number[k] = Step(number, k) BY <1>3, <2>2
  <2> HIDE DEF number
  <2>4. k # 0 BY <2>2, <2>3
  <2>5. k - 1 \in 0 .. n /\ k \in 1 .. n BY <1>0, <2>2, <2>4
  <2>6. number[k - 1] \in Nat BY <2>2, <2>5
  <2>7. base * number[k - 1] \in Nat /\ digits[k] \in Nat BY <2>5, <2>6
  <2>8. QED BY <2>2, <2>3, <2>4, <2>7
<1>6. number = [i \in 0 .. n |-> number[i]] BY <1>3
<1>7. ASSUME NEW i \in 0 .. n PROVE number[i] = Step(number, i) BY <1>3
<1> HIDE DEF number
<1>8. number \in [0 .. n -> Nat] BY <1>5, <1>6
<1>9. number[0] = 0 BY <1>0, <1>7
<1>10. ASSUME NEW i \in 1 .. n PROVE number[i] = base * number[i - 1] + digits[i]
  <2>1. i \in 0 .. n /\ i # 0 BY <1>0
  <2>2. QED BY <1>7, <2>1
<1>11. QED BY <1>4, <1>8, <1>9, <1>10

LEMMA HornerType ==
  ASSUME NEW base \in Nat, NEW digits \in Seq(Nat)
  PROVE  Horner(base, digits) \in Nat
<1>1. PICK number \in [0 .. Len(digits) -> Nat] : Horner(base, digits) = number[Len(digits)]
  BY HornerSteps
<1>2. Len(digits) \in 0 .. Len(digits) OBVIOUS
<1>3. QED BY <1>1, <1>2

\* What holds at the beginning and is kept by every step holds up to the end.
LEMMA UpTo ==
  ASSUME NEW n \in Nat, NEW T, 0 \in T, \A i \in 1 .. n : i - 1 \in T => i \in T
  PROVE  \A i \in 0 .. n : i \in T
<1> DEFINE S == {i \in 0 .. n : i \notin T}
<1>1. SUFFICES ASSUME S # {} PROVE FALSE OBVIOUS
<1>2. PICK k \in S : \A m \in S : k <= m
  <2>1. S \in SUBSET Nat OBVIOUS
  <2>2. QED BY <1>1, <2>1, LeastNatural
<1>3. k \in 1 .. n BY <1>2
<1>4. k - 1 \in 0 .. n /\ k - 1 \notin S BY <1>2, <1>3
<1>5. QED BY <1>2, <1>3, <1>4

\* Quotient and remainder are what a number was made of.
LEMMA Division ==
  ASSUME NEW d \in Nat \ {0}, NEW q \in Nat, NEW r \in 0 .. d - 1
  PROVE  (d * q + r) \div d = q /\ (d * q + r) % d = r
<1> DEFINE n == d * q + r
           p == n \div d
           s == n % d
<1>1. n \in Nat
  <2>1. d * q \in Nat OBVIOUS
  <2>2. QED BY <2>1
<1>2. n = d * p + s /\ s \in 0 .. d - 1 /\ p \in Int
  <2> HIDE DEF n
  <2>1. QED BY <1>1
<1>3. d * q + r = d * p + s BY <1>2
<1> HIDE DEF n, p, s
<1>4. d * (q - p) = s - r
  <2>1. d * (q - p) = d * q - d * p BY <1>2
  <2>2. d * q \in Int /\ d * p \in Int BY <1>2
  <2>3. QED BY <1>2, <1>3, <2>1, <2>2
<1>5. q - p = 0
  <2>1. CASE q - p >= 1
    <3>1. d * (q - p) >= d BY <1>2, <2>1
    <3>2. QED BY <1>2, <1>4, <3>1
  <2>2. CASE q - p <= -1
    <3>1. d * (q - p) <= -d BY <1>2, <2>2
    <3>2. QED BY <1>2, <1>4, <3>1
  <2>3. QED BY <1>2, <2>1, <2>2
<1>6. s = r
  <2>1. d * (q - p) = 0 BY <1>5
  <2>2. QED BY <1>2, <1>4, <2>1
<1>7. q = p BY <1>2, <1>5
<1>8. QED BY <1>6, <1>7 DEF p, s, n

\* The digits of a word of bytes: they add up step by step, each step is a word of as many bytes,
\* and what the last steps added is what is left when the word is divided.
LEMMA WordSteps ==
  ASSUME NEW bytes \in Seq(Byte), Len(bytes) <= 8
  PROVE  \E number \in [0 .. Len(bytes) -> Nat] :
           /\ FromBytes(bytes) = number[Len(bytes)]
           /\ \A i \in 0 .. Len(bytes) : number[i] <= ByteValues ^ i - 1
           /\ \A i \in 1 .. Len(bytes) :
                number[i] = ByteValues * number[i - 1] + bytes[Len(bytes) - i + 1]
           /\ \A k \in 0 .. Len(bytes) : \E rest \in 0 .. ByteValues ^ k - 1 :
                number[Len(bytes)] = ByteValues ^ k * number[Len(bytes) - k] + rest
<1> DEFINE n == Len(bytes)
           digits == Reverse(bytes)
<1>0. n \in 0 .. 8 /\ ByteValues \in Nat /\ ByteValues > 1
  <2>1. n \in Nat OBVIOUS
  <2>2. n <= 8 OBVIOUS
  <2>3. ByteValues \in Nat /\ ByteValues > 1 BY ByteAssumption
  <2> HIDE DEF n
  <2>4. QED BY <2>1, <2>2, <2>3
<1>1. digits \in Seq(Nat) /\ Len(digits) = n /\ \A i \in 1 .. n : digits[i] = bytes[n - i + 1]
  <2>1. \A i \in 1 .. n : n - i + 1 \in 1 .. n OBVIOUS
  <2>2. \A i \in 1 .. n : bytes[n - i + 1] \in Nat BY <1>0, <2>1 DEF Byte
  <2>3. QED BY <2>2 DEF Reverse
<1>2. \A i \in 1 .. n : bytes[n - i + 1] \in 0 .. ByteValues - 1
  <2>1. \A i \in 1 .. n : n - i + 1 \in 1 .. n OBVIOUS
  <2>2. \A i \in 1 .. n : bytes[n - i + 1] \in Byte BY <2>1
  <2>3. QED BY <2>2 DEF Byte
<1>3. PICK number \in [0 .. n -> Nat] :
        /\ number[0] = 0
        /\ \A i \in 1 .. n : number[i] = ByteValues * number[i - 1] + bytes[n - i + 1]
        /\ FromBytes(bytes) = number[n]
  <2> HIDE DEF n, digits
  <2>1. PICK number \in [0 .. n -> Nat] :
          /\ number[0] = 0
          /\ \A i \in 1 .. n : number[i] = ByteValues * number[i - 1] + digits[i]
          /\ Horner(ByteValues, digits) = number[n]
    BY <1>0, <1>1, HornerSteps
  <2>2. \A i \in 1 .. n : number[i] = ByteValues * number[i - 1] + bytes[n - i + 1] BY <1>1, <2>1
  <2>3. FromBytes(bytes) = number[n] BY <2>1 DEF FromBytes, digits
  <2>4. QED BY <2>1, <2>2, <2>3
<1> HIDE DEF n, digits
<1>4. \A i \in 0 .. n : number[i] <= ByteValues ^ i - 1
  <2> DEFINE T == {i \in 0 .. n : number[i] <= ByteValues ^ i - 1}
  <2>1. 0 \in T
    <3>1. number[0] = 0 /\ ByteValues ^ 0 = 1 BY <1>3, PowerAssumption
    <3>2. number[0] <= ByteValues ^ 0 - 1 BY <3>1
    <3>3. QED BY <1>0, <3>2
  <2>2. ASSUME NEW i \in 1 .. n, i - 1 \in T PROVE i \in T
    <3> DEFINE a == number[i - 1]
               p == ByteValues ^ (i - 1)
               b == bytes[n - i + 1]
    <3>1. i - 1 \in 0 .. n /\ i - 1 \in 0 .. 8 /\ i \in 1 .. 8 BY <1>0
    <3>2. a \in Nat /\ p \in Nat /\ a <= p - 1 /\ b \in 0 .. ByteValues - 1
      BY <1>2, <1>3, <2>2, <3>1, PowerAssumption
    <3>3. number[i] = ByteValues * a + b /\ ByteValues ^ i = ByteValues * p
      BY <1>3, <3>1, PowerAssumption
    <3> HIDE DEF a, p, b
    <3>4. ByteValues * a <= ByteValues * (p - 1) BY <1>0, <3>2
    <3>5. ByteValues * (p - 1) = ByteValues * p - ByteValues BY <1>0, <3>2
    <3>6. ByteValues * a \in Nat /\ ByteValues * p \in Nat BY <1>0, <3>2
    <3>7. ByteValues * a + b <= ByteValues * p - 1 BY <1>0, <3>2, <3>4, <3>5, <3>6
    <3>8. number[i] <= ByteValues ^ i - 1 BY <3>3, <3>7
    <3>9. i \in 0 .. n BY <1>0
    <3>10. QED BY <3>8, <3>9
  <2>3. \A i \in 0 .. n : i \in T
    <3> HIDE DEF T
    <3>1. n \in Nat BY <1>0
    <3>2. QED BY <2>1, <2>2, <3>1, UpTo
  <2>4. QED BY <2>3
<1>5. ASSUME NEW k \in 0 .. n
      PROVE  \E rest \in 0 .. ByteValues ^ k - 1 : number[n] = ByteValues ^ k * number[n - k] + rest
  <2> DEFINE T == {j \in 0 .. n : \E rest \in 0 .. ByteValues ^ j - 1 :
                                    number[n] = ByteValues ^ j * number[n - j] + rest}
  <2>1. 0 \in T
    <3>1. number[n] \in Nat /\ n - 0 = n BY <1>0, <1>3
    <3>2. number[n] = 1 * number[n - 0] + 0 BY <3>1
    <3>3. 0 \in 0 .. ByteValues ^ 0 - 1 BY PowerAssumption
    <3>4. QED BY <1>0, <3>2, <3>3, PowerAssumption
  <2>2. ASSUME NEW j \in 1 .. n, j - 1 \in T PROVE j \in T
    <3>1. PICK rest \in 0 .. ByteValues ^ (j - 1) - 1 :
            number[n] = ByteValues ^ (j - 1) * number[n - (j - 1)] + rest
      BY <2>2
    <3> DEFINE i == n - (j - 1)
               p == ByteValues ^ (j - 1)
               a == number[n - j]
               b == bytes[n - i + 1]
    <3>2. i \in 1 .. n /\ i - 1 = n - j /\ n - j \in 0 .. n /\ j \in 1 .. 8 /\ j - 1 \in 0 .. 8 BY <1>0
    <3>3. number[i] = ByteValues * a + b BY <1>3, <3>2
    <3>4. b \in 0 .. ByteValues - 1 /\ a \in Nat /\ p \in Nat /\ p > 0
      <4>1. p \in Nat \ {0} BY <3>2, PowerAssumption
      <4>2. b \in 0 .. ByteValues - 1 BY <1>2, <3>2
      <4>3. a \in Nat BY <1>3, <3>2
      <4> HIDE DEF p, b, a
      <4>4. QED BY <4>1, <4>2, <4>3
    <3>5. ByteValues ^ j = ByteValues * p BY <3>2, PowerAssumption
    <3>6. number[n] = p * number[i] + rest /\ rest \in 0 .. p - 1 BY <3>1
    <3> HIDE DEF i, p, a, b
    <3>7. p * number[i] = (ByteValues * p) * a + p * b
      <4>1. p * (ByteValues * a + b) = p * (ByteValues * a) + p * b BY <1>0, <3>4
      <4>2. p * (ByteValues * a) = (ByteValues * p) * a BY <1>0, <3>4
      <4>3. QED BY <3>3, <4>1, <4>2
    <3>8. p * b + rest \in 0 .. ByteValues * p - 1
      <4>1. p * b <= p * (ByteValues - 1) BY <1>0, <3>4
      <4>2. p * (ByteValues - 1) = ByteValues * p - p BY <1>0, <3>4
      <4>3. p * b \in Nat /\ ByteValues * p \in Nat BY <1>0, <3>4
      <4>4. \A x, y, z, t \in Nat : x <= z - y /\ t <= y - 1 => x + t \in 0 .. z - 1 OBVIOUS
      <4>5. p * b <= ByteValues * p - p BY <4>1, <4>2
      <4>6. rest <= p - 1 /\ rest \in Nat BY <3>4, <3>6
      <4>7. QED BY <3>4, <4>3, <4>4, <4>5, <4>6
    <3>9. number[n] = (ByteValues * p) * a + (p * b + rest)
      <4>1. (ByteValues * p) * a \in Nat /\ p * b \in Nat BY <1>0, <3>4
      <4>2. QED BY <3>6, <3>7, <4>1
    <3>10. number[n] = ByteValues ^ j * number[n - j] + (p * b + rest) BY <3>5, <3>9 DEF a
    <3>11. QED BY <3>5, <3>8, <3>10
  <2>3. k \in T
    <3> HIDE DEF T
    <3>1. n \in Nat BY <1>0
    <3>2. \A i \in 0 .. n : i \in T BY <2>1, <2>2, <3>1, UpTo
    <3>3. QED BY <3>2
  <2>4. QED BY <2>3
<1>6. QED BY <1>3, <1>4, <1>5 DEF n

\* A word of bytes is below the next power, and its bytes can be told from it.
LEMMA WordOfBytes ==
  ASSUME NEW bytes \in Seq(Byte), Len(bytes) <= 8
  PROVE  /\ FromBytes(bytes) \in 0 .. UINT_MAX(Len(bytes))
         /\ ToBytes(FromBytes(bytes), Len(bytes)) = bytes
<1> DEFINE n == Len(bytes)
           w == FromBytes(bytes)
<1>0. n \in 0 .. 8 /\ ByteValues \in Nat \ {0}
  <2>1. n \in Nat OBVIOUS
  <2>2. n <= 8 OBVIOUS
  <2>3. ByteValues \in Nat /\ ByteValues > 1 BY ByteAssumption
  <2> HIDE DEF n
  <2>4. QED BY <2>1, <2>2, <2>3
<1>1. PICK number \in [0 .. n -> Nat] :
        /\ w = number[n]
        /\ \A i \in 0 .. n : number[i] <= ByteValues ^ i - 1
        /\ \A i \in 1 .. n : number[i] = ByteValues * number[i - 1] + bytes[n - i + 1]
        /\ \A k \in 0 .. n : \E rest \in 0 .. ByteValues ^ k - 1 :
             number[n] = ByteValues ^ k * number[n - k] + rest
  BY WordSteps
<1> HIDE DEF w
<1>2. w \in 0 .. UINT_MAX(n)
  <2>1. n \in 0 .. n BY <1>0
  <2> HIDE DEF n
  <2>2. w \in Nat /\ w <= ByteValues ^ n - 1 /\ ByteValues ^ n \in Nat
    BY <1>0, <1>1, <2>1, PowerAssumption
  <2>3. QED BY <2>2 DEF UINT_MAX
<1>3. ASSUME NEW i \in 1 .. n PROVE (w \div ByteValues ^ (i - 1)) % ByteValues = bytes[i]
  <2> DEFINE k == i - 1
             j == n - k
  <2>1. k \in 0 .. n /\ j \in 1 .. n /\ n - j + 1 = i /\ k \in 0 .. 8 /\ j - 1 \in 0 .. n BY <1>0
  <2>2. PICK rest \in 0 .. ByteValues ^ k - 1 : number[n] = ByteValues ^ k * number[j] + rest
    BY <1>1, <2>1
  <2>3. bytes[i] \in 0 .. ByteValues - 1
    <3>1. bytes[i] \in Byte OBVIOUS
    <3>2. QED BY <3>1 DEF Byte
  <2>4. number[j] = ByteValues * number[j - 1] + bytes[i] /\ number[j] \in Nat /\ number[j - 1] \in Nat
    <3>1. j \in 0 .. n BY <1>0, <2>1
    <3> HIDE DEF j, n
    <3>2. number[j] = ByteValues * number[j - 1] + bytes[n - j + 1] BY <1>1, <2>1
    <3>3. QED BY <1>1, <2>1, <3>1, <3>2
  <2>5. ByteValues ^ k \in Nat \ {0} BY <2>1, PowerAssumption
  <2> HIDE DEF k, j, n
  <2>6. w \div ByteValues ^ k = number[j] BY <1>1, <2>2, <2>4, <2>5, Division, ZenonT(60)
  <2>7. number[j] % ByteValues = bytes[i]
    <3> DEFINE q == number[j - 1]
               r == bytes[i]
    <3>1. q \in Nat /\ r \in 0 .. ByteValues - 1 /\ number[j] = ByteValues * q + r BY <2>3, <2>4
    <3> HIDE DEF q, r
    <3>2. (ByteValues * q + r) % ByteValues = r BY <1>0, <3>1, Division
    <3>3. QED BY <3>1, <3>2 DEF r
  <2>8. QED BY <2>6, <2>7 DEF k
<1>4. ToBytes(w, n) = bytes
  <2>1. ToBytes(w, n) = [i \in 1 .. n |-> bytes[i]] BY <1>3 DEF ToBytes
  <2>2. QED BY <2>1
<1>5. QED BY <1>2, <1>4 DEF w

\* The bytes of any stretch of memory, the word they make and a word whose bytes are reversed.
LEMMA PeekType ==
  ASSUME NEW m, m.bytes \in Seq(Byte), NEW p, NEW n \in Nat
  PROVE  Peek(m, p, n) \in Seq(Nat) /\ Len(Peek(m, p, n)) = n
<1>1. \A i \in DOMAIN m.bytes : m.bytes[i] \in Nat
  <2>1. \A i \in DOMAIN m.bytes : m.bytes[i] \in Byte OBVIOUS
  <2>2. Byte \subseteq Nat BY ByteAssumption DEF Byte
  <2>3. QED BY <2>1, <2>2
<1>2. Peek(m, p, n) \in [1 .. n -> Nat]
  BY <1>1 DEF Peek
<1>3. QED BY <1>2

LEMMA FromBytesType ==
  ASSUME NEW bytes \in Seq(Nat)
  PROVE  FromBytes(bytes) \in Nat /\ FromBytes(Reverse(bytes)) \in Nat
<1>1. ASSUME NEW s \in Seq(Nat) PROVE Reverse(s) \in Seq(Nat)
  <2>1. \A i \in 1 .. Len(s) : Len(s) - i + 1 \in 1 .. Len(s) OBVIOUS
  <2>2. \A i \in 1 .. Len(s) : s[Len(s) - i + 1] \in Nat BY <2>1
  <2>3. QED BY <2>2 DEF Reverse
<1>2. QED BY <1>1, HornerType, ByteAssumption DEF FromBytes

LEMMA SwapType ==
  ASSUME NEW m, NEW word \in Nat, NEW width \in 0 .. 8
  PROVE  Swap(m, word, width) \in Nat
<1> DEFINE w == word % ByteValues ^ width
<1>1. w \in Nat
  BY PowerAssumption
<1>2. ToBytes(w, width) \in Seq(Nat)
  <2>1. ASSUME NEW i \in 1 .. width PROVE (w \div ByteValues ^ (i - 1)) % ByteValues \in Nat
    <3>1. i - 1 \in 0 .. 8 OBVIOUS
    <3>2. ByteValues ^ (i - 1) \in Nat \ {0} BY <3>1, PowerAssumption
    <3> HIDE DEF w
    <3>3. w \div ByteValues ^ (i - 1) \in Nat BY <1>1, <3>2
    <3>4. QED BY <3>3, ByteAssumption
  <2> HIDE DEF w
  <2>2. QED BY <2>1 DEF ToBytes
<1>3. QED
  BY <1>1, <1>2, FromBytesType
  DEF Swap, mk_data_model_get_byte_order, mk_byteorder_swapped, mk_byteorder_direct

\* A layout has a size, and a word can be read from each field of it.
Names == {"cmd", "cmdsize", "magic", "cputype", "cpusubtype", "filetype", "ncmds", "sizeofcmds",
          "flags", "reserved", "segname", "vmaddr", "vmsize", "fileoff", "filesize", "maxprot",
          "initprot", "nsects"}
Layout == Seq(Names \X Nat)

LEMMA SizeofType == ASSUME NEW layout \in Layout PROVE Sizeof(layout) \in Nat
<1>1. [i \in 1 .. Len(layout) |-> layout[i][2]] \in Seq(Nat)
  BY DEF Layout
<1>2. QED BY <1>1, HornerType DEF Sizeof, Widths

LEMMA ReadType ==
  ASSUME NEW m, m.bytes \in Seq(Byte), NEW p, NEW layout \in Layout, NEW field,
         HasField(layout, field), NEW width \in 0 .. 8
  PROVE  Read(m, p, layout, field, width) \in Nat
<1>1. FieldIndex(layout, field) \in DOMAIN layout
  BY Zenon DEF HasField, FieldIndex
<1>2. WidthOf(layout, field) \in Nat
  BY <1>1 DEF WidthOf, Layout
<1>3. Raw(m, p, layout, field) \in Nat
  BY <1>2, PeekType, FromBytesType DEF Raw, Load
<1>4. QED BY <1>3, SwapType DEF Read

LEMMA WordsType ==
  ASSUME NEW names \in Seq(Names)
  PROVE  /\ Words(names) \in Layout
         /\ \A i \in 1 .. Len(names) : HasField(Words(names), names[i])
<1>1. Words(names) = [i \in 1 .. Len(names) |-> <<names[i], 4>>]
  BY DEF Words
<1>2. \A i \in 1 .. Len(names) : <<names[i], 4>> \in Names \X Nat OBVIOUS
<1>3. Words(names) \in Layout
  BY <1>1, <1>2 DEF Layout
<1>4. QED BY <1>1, <1>3 DEF HasField

LEMMA KnownLayouts ==
  /\ struct_mach_header \in Layout /\ struct_mach_header_64 \in Layout
  /\ struct_load_command \in Layout
  /\ HasField(struct_mach_header, "sizeofcmds") /\ HasField(struct_load_command, "cmdsize")
<1>1. struct_load_command \in Layout /\ HasField(struct_load_command, "cmdsize")
  <2> DEFINE names == <<"cmd", "cmdsize">>
  <2>1. names \in Seq(Names) /\ 2 \in 1 .. Len(names) /\ names[2] = "cmdsize"
    BY DEF Names
  <2> HIDE DEF names
  <2>2. Words(names) \in Layout /\ HasField(Words(names), "cmdsize") BY <2>1, WordsType
  <2>3. QED BY <2>2 DEF struct_load_command, Header, names
<1>2. struct_mach_header \in Layout /\ HasField(struct_mach_header, "sizeofcmds")
  <2> DEFINE names == <<"magic", "cputype", "cpusubtype", "filetype", "ncmds", "sizeofcmds", "flags">>
  <2>1. names \in Seq(Names) /\ 6 \in 1 .. Len(names) /\ names[6] = "sizeofcmds"
    BY DEF Names
  <2> HIDE DEF names
  <2>2. Words(names) \in Layout /\ HasField(Words(names), "sizeofcmds") BY <2>1, WordsType
  <2>3. QED BY <2>2 DEF struct_mach_header, names
<1>3. struct_mach_header_64 \in Layout
  <2> DEFINE names == <<"magic", "cputype", "cpusubtype", "filetype", "ncmds", "sizeofcmds", "flags",
                        "reserved">>
  <2>1. names \in Seq(Names) BY DEF Names
  <2> HIDE DEF names
  <2>2. Words(names) \in Layout BY <2>1, WordsType
  <2>3. QED BY <2>2 DEF struct_mach_header_64, names
<1>4. QED BY <1>1, <1>2, <1>3

LEMMA SizesAreNumbers ==
  ASSUME file \in Files
  PROVE  /\ \A p : cmdsize(mem, p) \in Nat
         /\ mk_macho_get_sizeofcmds \in Nat
         /\ \A magic : Succeeded(ModelOf(magic)) => ModelOf(magic).value.header_size \in Nat
<1>1. mem.bytes \in Seq(Byte)
  BY ImageAssumption DEF mem
<1>2. \A p : cmdsize(mem, p) \in Nat
  BY <1>1, ReadType, KnownLayouts DEF cmdsize
<1>3. mk_macho_get_sizeofcmds \in Nat
  BY <1>1, ReadType, KnownLayouts DEF mk_macho_get_sizeofcmds, HeaderField
<1>4. ASSUME NEW magic, Succeeded(ModelOf(magic)) PROVE ModelOf(magic).value.header_size \in Nat
  BY <1>4, SizeofType, KnownLayouts DEF ModelOf, Succeeded, Ok, Fails
<1>5. QED BY <1>2, <1>3, <1>4

----------------------------------------------------------------------------
(* The walk.                                                               *)

\* The next command of an image whose header is mapped, from wherever the walk has come to
\* behind the header, is where the header says there are commands, and in the mapping.
LEMMA NextIsMapped ==
  ASSUME file \in Files, NEW macho, NEW locate,
         macho.header_size \in Nat, macho.header_mapping.address = HeaderAddress,
         macho.header_mapping.length \in Nat,
         NEW previous \in Nat,
         previous # NULL => previous >= HeaderAddress + macho.header_size,
         NEW next, next = mk_macho_next_command(macho, previous, locate), next # NULL
  PROVE  /\ next \in Nat
         /\ next >= HeaderAddress + macho.header_size
         /\ next < HeaderAddress + macho.header_size + mk_macho_get_sizeofcmds
         /\ next + cmdsize(mem, next) <= HeaderAddress + macho.header_mapping.length
<1> DEFINE mapping == macho.header_mapping
           first == HeaderAddress + macho.header_size
<1>0. /\ HeaderAddress \in Nat /\ MaxWord \in Nat
      /\ mk_macho_get_sizeofcmds \in Nat /\ cmdsize(mem, next) \in Nat
      /\ previous # NULL => cmdsize(mem, previous) \in Nat
  BY ImageAssumption, WordAssumption, SizesAreNumbers DEF Word
<1>1. /\ next = IF previous = NULL THEN first ELSE previous + cmdsize(mem, previous)
      /\ ~ Past(macho, next) /\ Fits(mapping, next)
  BY DEF mk_macho_next_command, mk_macho_get_header_mapping
<1>2. next \in Nat /\ next >= first
  BY <1>0, <1>1
<1>3. next < first + mk_macho_get_sizeofcmds
  BY <1>0, <1>1, <1>2 DEF Past, mk_macho_get_header_mapping
<1>4. next + cmdsize(mem, next) <= HeaderAddress + mapping.length
  <2> DEFINE size == cmdsize(mem, next)
             limit == HeaderAddress + mapping.length
  <2>1. Succeeded(Locate(mapping.address, mapping.length, 0, next, size))
    BY <1>1 DEF Fits, Within, mk_memory_object_verify_local_pointer
  <2> HIDE DEF size
  <2>2. ~ (Wrap(HeaderAddress + mapping.length) < next + 0 + size)
    BY <2>1 DEF Locate, Succeeded, Fails, Ok
  <2>3. limit \in Nat /\ size \in Nat BY <1>0 DEF size
  <2> HIDE DEF limit
  <2>4. Wrap(limit) \in Word /\ Wrap(limit) <= limit
    <3>1. Wrap(limit) \in Word BY <2>3, WrapBelow
    <3>2. CASE limit \in Word BY <3>2, WordAssumption DEF Wrap, Word
    <3>3. CASE limit \notin Word BY <1>0, <2>3, <3>1, <3>3 DEF Word
    <3>4. QED BY <3>1, <3>2, <3>3
  <2>5. QED BY <1>0, <1>2, <2>2, <2>3, <2>4 DEF limit, size, Word
<1>5. QED BY <1>2, <1>3, <1>4

\* The magic of the header as it is now.
Magic == Raw(mem, HeaderAddress, struct_mach_header, "magic")
Mapped == pc \in {"slide", "open"}

\* Between the two reads of the header the copy and the size that was derived from it belong
\* together; once the header is mapped, it has the magic that was copied.
CopyInv ==
  pc = "copied" =>
    /\ Succeeded(ModelOf(call.magic))
    /\ call.header_size = ModelOf(call.magic).value.header_size
    /\ call.length \in Nat
MappingInv ==
  Mapped =>
    /\ {"header_size", "header_mapping"} \subseteq DOMAIN image
    /\ Succeeded(ModelOf(Magic))
    /\ image.header_size = ModelOf(Magic).value.header_size
    /\ image.header_mapping.address = HeaderAddress
    /\ image.header_mapping.length \in Nat
WalkInv == lc \in Nat /\ (lc # NULL => Mapped)

ImageInv ==
  /\ file \in Files /\ mappings \in Int
  /\ CopyInv /\ MappingInv /\ WalkInv /\ CommandsAreMapped

LEMMA ImageInit == Init => ImageInv
  BY DEF Init, ImageInv, CopyInv, MappingInv, WalkInv, Mapped, CommandsAreMapped, NULL

\* While neither the host nor the file changes, memory does not.
LEMMA SameMemory == UNCHANGED <<cpu, file>> => mem' = mem
  BY DEF mem

\* A step of a loop over the commands moves to the next one.
LEMMA MovesOn ==
  ASSUME ImageInv, Mapped, NEW locate, UNCHANGED <<cpu, file, pc, image, mappings>>,
         lc' = mk_macho_next_command(image, lc, locate), lc' # NULL
  PROVE  ImageInv'
<1>1. mem' = mem /\ Magic' = Magic /\ mk_macho_get_sizeofcmds' = mk_macho_get_sizeofcmds
  BY SameMemory DEF Magic, mk_macho_get_sizeofcmds, HeaderField, mem
<1>2. image.header_size \in Nat
  BY SizesAreNumbers DEF ImageInv, MappingInv
<1>3. lc # NULL => lc >= HeaderAddress + image.header_size
  BY DEF ImageInv, MappingInv, CommandsAreMapped
<1>4. /\ lc' \in Nat
      /\ lc' >= HeaderAddress + image.header_size
      /\ lc' < HeaderAddress + image.header_size + mk_macho_get_sizeofcmds
      /\ lc' + cmdsize(mem, lc') <= HeaderAddress + image.header_mapping.length
  BY <1>2, <1>3, NextIsMapped DEF ImageInv, MappingInv, WalkInv
<1>5. Mapped' /\ pc' # "copied"
  BY DEF Mapped
<1>6. MappingInv'
  BY <1>1 DEF ImageInv, MappingInv
<1>7. CommandsAreMapped'
  BY <1>1, <1>4, <1>6, <1>5 DEF CommandsAreMapped, MappingInv, Magic
<1>8. QED
  BY <1>4, <1>5, <1>6, <1>7 DEF ImageInv, CopyInv, WalkInv

\* So does one that leaves the image closed, or the walk at its beginning.
LEMMA Closes ==
  ASSUME ImageInv, file' \in Files, mappings' \in Int, lc' = NULL, ~ Mapped', pc' # "copied"
  PROVE  ImageInv'
  BY DEF ImageInv, CopyInv, MappingInv, WalkInv, CommandsAreMapped, NULL

\* What a failing call, and mk_macho_free, leave.
LEMMA FreesCloses == ASSUME ImageInv, NEW err, Frees(err) PROVE ImageInv'
<1>1. /\ file' = file /\ mappings' = mappings - 1 /\ lc' = NULL /\ pc' = "closed"
  BY DEF Frees
<1>2. file' \in Files /\ mappings' \in Int /\ ~ Mapped' /\ pc' # "copied"
  BY <1>1 DEF ImageInv, Mapped
<1>3. QED BY <1>1, <1>2, Closes

\* The size of the mapping and the size of the header are derived from the one copy.
LEMMA InitStep ==
  ASSUME ImageInv, NEW derives, NEW slide, mk_macho_init_with_slide(derives, slide)
  PROVE  ImageInv'
<1>1. pc = "closed" /\ lc = NULL
  BY DEF mk_macho_init_with_slide, ImageInv, WalkInv, Mapped
<1>2. ASSUME NEW err, Returns(err) PROVE ImageInv'
  <2>1. file' \in Files /\ mappings' \in Int /\ lc' = NULL /\ ~ Mapped' /\ pc' # "copied"
    BY <1>1, <1>2 DEF Returns, ImageInv, Mapped
  <2>2. QED BY <2>1, Closes
<1> DEFINE magic == Magic
           model == ModelOf(magic)
<1>3. ASSUME Succeeded(model), pc' = "copied",
             call' = [open |-> TRUE, derives |-> derives, slide |-> slide, magic |-> magic,
                      header_size |-> model.value.header_size,
                      length |-> mk_macho_get_sizeofcmds + model.value.header_size],
             UNCHANGED <<cpu, file, image, low, lc, walked, result, mappings>>
      PROVE  ImageInv'
  <2>1. model.value.header_size \in Nat /\ mk_macho_get_sizeofcmds \in Nat
    BY <1>3, SizesAreNumbers DEF ImageInv
  <2>2. CopyInv'
    <3>1. call'.magic = magic /\ call'.header_size = model.value.header_size
      BY <1>3
    <3>2. call'.length \in Nat
      BY <1>3, <2>1
    <3>3. QED BY <1>3, <3>1, <3>2 DEF CopyInv
  <2>3. lc' = NULL /\ ~ Mapped' /\ file' \in Files /\ mappings' \in Int
    BY <1>1, <1>3 DEF Mapped, ImageInv
  <2>4. QED BY <2>2, <2>3 DEF ImageInv, MappingInv, WalkInv, CommandsAreMapped, NULL
<1>4. QED BY <1>2, <1>3 DEF mk_macho_init_with_slide, Magic

\* Mapping the header: only when it has the magic of the copy does an image come of it.
LEMMA MapStep == ASSUME ImageInv, MapHeader PROVE ImageInv'
<1>1. /\ pc = "copied" /\ mappings' = mappings + 1 /\ mappings' \in Int /\ file' = file /\ cpu' = cpu
      /\ lc = NULL
  BY DEF MapHeader, ImageInv, WalkInv, Mapped
<1>2. CASE Magic # call.magic
  <2>1. pc' = "closed" /\ lc' = NULL
    BY <1>1, <1>2 DEF MapHeader, Magic
  <2>2. QED BY <1>1, <2>1, Closes DEF ImageInv, Mapped
<1>3. CASE Magic = call.magic
  <2>1. PICK slack \in Slacks :
          image' = [open |-> TRUE, slide |-> call.slide, header_size |-> call.header_size,
                    header_mapping |-> [target_address |-> LoadAddress, address |-> HeaderAddress,
                                        length |-> call.length + slack]]
    BY <1>3 DEF MapHeader, Magic
  <2>2. pc' # "copied" /\ lc' = NULL
    BY <1>3 DEF MapHeader, Magic
  <2>3. Magic' = Magic
    BY <1>1, SameMemory DEF Magic, Raw
  <2>4. call.length + slack \in Nat
    BY <1>1, ImageAssumption DEF ImageInv, CopyInv, Word
  <2>5. MappingInv'
    <3>1. /\ image'.header_size = call.header_size
          /\ image'.header_mapping.address = HeaderAddress
          /\ image'.header_mapping.length = call.length + slack
          /\ {"header_size", "header_mapping"} \subseteq DOMAIN image'
      BY <2>1
    <3>2. Succeeded(ModelOf(Magic)) /\ call.header_size = ModelOf(Magic).value.header_size
      BY <1>1, <1>3 DEF ImageInv, CopyInv
    <3>3. QED BY <2>3, <2>4, <3>1, <3>2 DEF MappingInv
  <2>6. QED
    BY <1>1, <2>2, <2>5 DEF ImageInv, CopyInv, WalkInv, CommandsAreMapped, NULL
<1>4. QED BY <1>2, <1>3

\* One turn of the loop that derives the slide, and its end.
LEMMA SlideTurns == ASSUME ImageInv, SlideStep PROVE ImageInv'
<1>1. pc = "slide" /\ Mapped
  BY DEF SlideStep, Mapped
<1>2. PICK next \in {mk_macho_next_command(image, lc, FALSE)} \ {NULL} :
        \/ Skip(next)
        \/ Frees("EDERIVED")
        \/ lc' = next /\ UNCHANGED <<cpu, file, pc, call, image, walked, result, mappings>>
  BY DEF SlideStep
<1>3. CASE Frees("EDERIVED")
  BY <1>3, FreesCloses
<1>4. CASE lc' = next /\ UNCHANGED <<cpu, file, pc, image, mappings>>
  BY <1>1, <1>4, MovesOn
<1>5. QED BY <1>2, <1>3, <1>4 DEF Skip

LEMMA SlideStops == ASSUME ImageInv, SlideEnds PROVE ImageInv'
<1>1. CASE Frees("EDERIVED")
  BY <1>1, FreesCloses
<1>2. ASSUME image' = [image EXCEPT !.slide = SlideFrom(low).value], pc' = "open", lc' = NULL,
             UNCHANGED <<cpu, file, mappings>>
      PROVE  ImageInv'
  <2>1. pc = "slide"
    BY DEF SlideEnds
  <2>2. /\ image'.header_size = image.header_size
        /\ image'.header_mapping = image.header_mapping
        /\ DOMAIN image' = DOMAIN image
    <3>1. {"header_size", "header_mapping"} \subseteq DOMAIN image
      BY <2>1 DEF ImageInv, MappingInv, Mapped
    <3>2. QED BY <1>2, <3>1
  <2>3. Magic' = Magic
    BY <1>2, SameMemory DEF Magic, Raw
  <2>4. MappingInv'
    BY <1>2, <2>1, <2>2, <2>3 DEF ImageInv, MappingInv, Mapped
  <2>5. QED
    BY <1>2, <2>4 DEF ImageInv, CopyInv, WalkInv, CommandsAreMapped, NULL
<1>3. QED BY <1>1, <1>2 DEF SlideEnds

LEMMA ImageStep == ImageInv /\ [Next]_vars => ImageInv'
<1> SUFFICES ASSUME ImageInv, [Next]_vars PROVE ImageInv'
  OBVIOUS
<1>1. CASE Open
  BY <1>1, InitStep DEF Open
<1>2. CASE TargetChanges
  <2>1. pc = "copied" /\ UNCHANGED <<pc, call, lc, mappings>>
    BY <1>2 DEF TargetChanges
  <2>2. file' \in Files
    BY <1>2, ImageAssumption DEF TargetChanges
  <2>3. lc = NULL
    BY <2>1 DEF ImageInv, WalkInv, Mapped
  <2>4. CopyInv'
    BY <2>1 DEF ImageInv, CopyInv
  <2>5. QED
    BY <2>1, <2>2, <2>3, <2>4
    DEF ImageInv, MappingInv, WalkInv, CommandsAreMapped, Mapped, NULL
<1>3. CASE MapFails \/ DropWild
  <2>1. pc \in {"copied", "wild"} /\ pc' \in {"wild", "closed"} /\ UNCHANGED <<file, lc, mappings>>
    BY <1>3 DEF MapFails, DropWild
  <2>2. lc' = NULL /\ ~ Mapped' /\ pc' # "copied" /\ file' \in Files /\ mappings' \in Int
    BY <2>1 DEF ImageInv, WalkInv, Mapped
  <2>3. QED BY <2>2, Closes
<1>4. CASE MapHeader
  BY <1>4, MapStep
<1>5. CASE SlideStep
  BY <1>5, SlideTurns
<1>6. CASE SlideEnds
  BY <1>6, SlideStops
<1>7. CASE mk_macho_free
  BY <1>7, FreesCloses DEF mk_macho_free
<1>8. CASE NextCommand
  <2>1. /\ Mapped /\ lc' = mk_macho_next_command(image, lc, TRUE) /\ lc' # NULL
        /\ UNCHANGED <<cpu, file, pc, image, mappings>>
    BY <1>8 DEF NextCommand, Mapped
  <2>2. QED BY <2>1, MovesOn
<1>9. CASE UNCHANGED vars
  <2>1. UNCHANGED <<cpu, file, pc, call, image, lc, mappings>>
    BY <1>9 DEF vars
  <2>2. /\ mem' = mem /\ Magic' = Magic
        /\ mk_macho_get_sizeofcmds' = mk_macho_get_sizeofcmds
    BY <2>1, SameMemory DEF Magic, Raw, mk_macho_get_sizeofcmds, HeaderField
  <2>3. QED
    BY <2>1, <2>2 DEF ImageInv, CopyInv, MappingInv, WalkInv, CommandsAreMapped, Mapped, Magic
<1>10. QED
  BY <1>1, <1>2, <1>3, <1>4, <1>5, <1>6, <1>7, <1>8, <1>9 DEF Next

----------------------------------------------------------------------------
\* A command the walk, or the derivation of the slide, has come to is in the mapping and where
\* the header says there are commands, however large the file, whatever its sizes and however
\* the target changes between the two reads of the header.
THEOREM WalkStaysMapped == Spec => []CommandsAreMapped
<1>1. ImageInv => CommandsAreMapped
  BY DEF ImageInv
<1>2. QED
  BY <1>1, ImageInit, ImageStep, PTL DEF Spec

\* Every call leaves as many header mappings as there are images open: mk_macho_free and each
\* failure of mk_macho_init release the one there is, and only a changed magic leaves one behind.
THEOREM MappingsAreBalanced == Spec => MappingsBalance
<1> DEFINE Balanced == \/ mappings' - mappings = Holds(pc') - Holds(pc)
                       \/ result' = "ECLIENT_INVALID_RESULT" /\ mappings' = mappings + 1
<1>1. ASSUME ImageInv, [Next]_vars PROVE [Balanced]_vars
  <2>0. mappings \in Int
    BY <1>1 DEF ImageInv
  <2>1. ASSUME NEW err, Frees(err), pc \in {"slide", "open"} PROVE Balanced
    <3>1. mappings' = mappings - 1 /\ Holds(pc) = 1 /\ Holds(pc') = 0
      BY <2>1 DEF Frees, Holds
    <3>2. QED BY <2>0, <3>1
  <2>2. ASSUME mappings' = mappings, Holds(pc') = Holds(pc) PROVE Balanced
    BY <2>0, <2>2 DEF Holds
  <2>3. CASE Open
    <3>1. mappings' = mappings /\ Holds(pc') = 0 /\ Holds(pc) = 0
      BY <2>3 DEF Open, mk_macho_init_with_slide, Returns, Holds
    <3>2. QED BY <2>2, <3>1
  <2>4. CASE TargetChanges \/ MapFails \/ DropWild
    <3>1. mappings' = mappings /\ Holds(pc') = Holds(pc)
      BY <2>4 DEF TargetChanges, MapFails, DropWild, Holds
    <3>2. QED BY <2>2, <3>1
  <2>5. CASE MapHeader
    <3>1. mappings' = mappings + 1 /\ Holds(pc) = 0
      BY <2>5 DEF MapHeader, Holds
    <3>2. CASE result' = "ECLIENT_INVALID_RESULT"
      BY <3>1, <3>2
    <3>3. CASE Holds(pc') = 1
      BY <2>0, <3>1, <3>3
    <3>4. QED BY <2>5, <3>2, <3>3 DEF MapHeader, Holds
  <2>6. CASE SlideStep
    <3>1. pc = "slide" /\ (Frees("EDERIVED") \/ UNCHANGED <<pc, mappings>>)
      BY <2>6 DEF SlideStep, Skip
    <3>2. QED BY <2>1, <2>2, <3>1
  <2>7. CASE SlideEnds
    <3>1. pc = "slide" /\ (Frees("EDERIVED") \/ (pc' = "open" /\ mappings' = mappings))
      BY <2>7 DEF SlideEnds
    <3>2. QED BY <2>1, <2>2, <3>1 DEF Holds
  <2>8. CASE mk_macho_free
    BY <2>1, <2>8 DEF mk_macho_free
  <2>9. CASE NextCommand
    <3>1. UNCHANGED <<pc, mappings>> BY <2>9 DEF NextCommand
    <3>2. QED BY <2>2, <3>1
  <2>10. QED
    BY <1>1, <2>3, <2>4, <2>5, <2>6, <2>7, <2>8, <2>9 DEF Next
<1>2. QED
  BY <1>1, ImageInit, ImageStep, PTL DEF Spec, MappingsBalance
----------------------------------------------------------------------------
(* What the library reads is what the file says.                           *)

\* Any stretch of memory is bytes.
LEMMA PeekBytes ==
  ASSUME NEW m, m.bytes \in Seq(Byte), NEW p, NEW n \in Nat
  PROVE  Peek(m, p, n) \in Seq(Byte) /\ Len(Peek(m, p, n)) = n
<1>1. \A i \in DOMAIN m.bytes : m.bytes[i] \in Byte OBVIOUS
<1>2. 0 \in Byte BY ByteAssumption DEF Byte
<1>3. Peek(m, p, n) \in [1 .. n -> Byte] BY <1>1, <1>2 DEF Peek
<1>4. QED BY <1>3

\* Reversing bytes twice leaves them.
LEMMA ReverseTwice ==
  ASSUME NEW S, NEW s \in Seq(S)
  PROVE  Reverse(s) \in Seq(S) /\ Len(Reverse(s)) = Len(s) /\ Reverse(Reverse(s)) = s
<1> DEFINE n == Len(s)
           t == Reverse(s)
<1>1. n \in Nat /\ s = [i \in 1 .. n |-> s[i]] OBVIOUS
<1>2. t = [i \in 1 .. n |-> s[n - i + 1]] BY DEF Reverse
<1> HIDE DEF t
<1>3. \A i \in 1 .. n : n - i + 1 \in 1 .. n /\ s[n - i + 1] \in S OBVIOUS
<1>4. t \in Seq(S) /\ Len(t) = n BY <1>2, <1>3
<1>5. Reverse(t) = [i \in 1 .. n |-> t[n - i + 1]] BY <1>4 DEF Reverse
<1> HIDE DEF n
<1>6. \A i \in 1 .. n : t[n - i + 1] = s[i]
  <2>1. \A i \in 1 .. n : n - i + 1 \in 1 .. n /\ n - (n - i + 1) + 1 = i BY <1>1
  <2>2. QED BY <1>2, <2>1
<1>7. Reverse(t) = s BY <1>1, <1>5, <1>6
<1>8. QED BY <1>4, <1>7 DEF t, n

\* A word that is loaded, and swapped as the data model says, is the one the bytes make from the
\* least significant one on, on a host of either byte order.
LEMMA LoadedWord ==
  ASSUME NEW m, m.bytes \in Seq(Byte), m.cpu \in Cpus, NEW p, NEW n \in 0 .. 8
  PROVE  /\ Swap(m, Load(m.cpu, Peek(m, p, n)), n) = FromBytes(Peek(m, p, n))
         /\ FromBytes(Peek(m, p, n)) \in 0 .. UINT_MAX(n)
<1> DEFINE bytes == Peek(m, p, n)
           turned == Reverse(bytes)
<1>1. bytes \in Seq(Byte) /\ Len(bytes) = n BY PeekBytes
<1> HIDE DEF bytes
<1>2. turned \in Seq(Byte) /\ Len(turned) = n /\ Reverse(turned) = bytes BY <1>1, ReverseTwice
<1> HIDE DEF turned
<1>3. \A s \in Seq(Byte) : Len(s) = n => /\ FromBytes(s) \in 0 .. UINT_MAX(n)
                                         /\ ToBytes(FromBytes(s), n) = s
  <2>1. SUFFICES ASSUME NEW s \in Seq(Byte), Len(s) = n
                 PROVE  FromBytes(s) \in 0 .. UINT_MAX(n) /\ ToBytes(FromBytes(s), n) = s
    OBVIOUS
  <2>2. Len(s) <= 8 BY <2>1
  <2>3. QED BY <2>1, <2>2, WordOfBytes
<1>4. \A w \in 0 .. UINT_MAX(n) : w % ByteValues ^ n = w
  <2>1. ByteValues ^ n \in Nat \ {0} BY PowerAssumption
  <2>2. QED BY <2>1 DEF UINT_MAX
<1>5. CASE m.cpu = "little"
  <2>1. Load(m.cpu, bytes) = FromBytes(bytes) BY <1>5 DEF Load
  <2>2. Swap(m, FromBytes(bytes), n) = FromBytes(bytes)
    BY <1>1, <1>3, <1>4, <1>5 DEF Swap, mk_data_model_get_byte_order, mk_byteorder_direct
  <2>3. QED BY <1>1, <1>3, <2>1, <2>2 DEF bytes
<1>6. CASE m.cpu = "big"
  <2>1. Load(m.cpu, bytes) = FromBytes(turned) BY <1>6 DEF Load, turned
  <2>2. FromBytes(turned) % ByteValues ^ n = FromBytes(turned) /\ ToBytes(FromBytes(turned), n) = turned
    BY <1>2, <1>3, <1>4
  <2>3. Swap(m, FromBytes(turned), n) = FromBytes(Reverse(turned))
    BY <1>6, <2>2 DEF Swap, mk_data_model_get_byte_order, mk_byteorder_swapped
  <2>4. QED BY <1>1, <1>2, <1>3, <2>1, <2>3 DEF bytes
<1>7. QED BY <1>5, <1>6 DEF Cpus

\* The fields of a name have one width.
Wide(layout, field, width) ==
  \A i \in DOMAIN layout : layout[i][1] = field => layout[i][2] = width

LEMMA WidthIs ==
  ASSUME NEW layout, NEW field, NEW width, HasField(layout, field), Wide(layout, field, width)
  PROVE  WidthOf(layout, field) = width
<1>1. FieldIndex(layout, field) \in DOMAIN layout /\ layout[FieldIndex(layout, field)][1] = field
  BY Zenon DEF HasField, FieldIndex
<1>2. QED BY <1>1 DEF WidthOf, Wide

LEMMA WordsWide ==
  ASSUME NEW names \in Seq(Names), NEW field
  PROVE  Wide(Words(names), field, 4)
BY DEF Words, Wide

\* A field of a command or of the header, read with its width, is the file's.
LEMMA ReadIsFile ==
  ASSUME file \in Files, cpu \in Cpus, NEW p, NEW layout, NEW field, NEW width \in 0 .. 8,
         HasField(layout, field), Wide(layout, field, width)
  PROVE  /\ Read(mem, p, layout, field, width) = FileField(p, layout, field)
         /\ FileField(p, layout, field) \in 0 .. UINT_MAX(width)
<1>1. WidthOf(layout, field) = width BY WidthIs
<1>2. mem.bytes \in Seq(Byte) /\ mem.cpu = cpu BY ImageAssumption DEF mem
<1>3. FileField(p, layout, field) = FromBytes(Peek(mem, p + OffsetOf(layout, field), width))
  BY <1>1 DEF FileField, FileWord
<1>4. Read(mem, p, layout, field, width) =
        Swap(mem, Load(mem.cpu, Peek(mem, p + OffsetOf(layout, field), width)), width)
  BY <1>1 DEF Read, Raw
<1>5. QED BY <1>2, <1>3, <1>4, LoadedWord

\* The fields of the header and of a command.
LEMMA HeaderFields ==
  /\ \A f \in {"magic", "ncmds", "sizeofcmds"} :
       HasField(struct_mach_header, f) /\ Wide(struct_mach_header, f, 4)
  /\ \A f \in {"cmd", "cmdsize"} :
       HasField(struct_load_command, f) /\ Wide(struct_load_command, f, 4)
<1>1. \A f \in {"cmd", "cmdsize"} :
       HasField(struct_load_command, f) /\ Wide(struct_load_command, f, 4)
  <2> DEFINE names == <<"cmd", "cmdsize">>
  <2>1. names \in Seq(Names) /\ 1 \in 1 .. Len(names) /\ 2 \in 1 .. Len(names)
        /\ names[1] = "cmd" /\ names[2] = "cmdsize"
    BY DEF Names
  <2> HIDE DEF names
  <2>2. HasField(Words(names), "cmd") /\ HasField(Words(names), "cmdsize") BY <2>1, WordsType
  <2>3. \A f : Wide(Words(names), f, 4) BY <2>1, WordsWide
  <2>4. QED BY <2>2, <2>3 DEF struct_load_command, Header, names
<1>2. \A f \in {"magic", "ncmds", "sizeofcmds"} :
       HasField(struct_mach_header, f) /\ Wide(struct_mach_header, f, 4)
  <2> DEFINE names == <<"magic", "cputype", "cpusubtype", "filetype", "ncmds", "sizeofcmds", "flags">>
  <2>1. names \in Seq(Names) /\ 1 \in 1 .. Len(names) /\ 5 \in 1 .. Len(names) /\ 6 \in 1 .. Len(names)
        /\ names[1] = "magic" /\ names[5] = "ncmds" /\ names[6] = "sizeofcmds"
    BY DEF Names
  <2> HIDE DEF names
  <2>2. HasField(Words(names), "magic") /\ HasField(Words(names), "ncmds")
        /\ HasField(Words(names), "sizeofcmds")
    BY <2>1, WordsType
  <2>3. \A f : Wide(Words(names), f, 4) BY <2>1, WordsWide
  <2>4. QED BY <2>2, <2>3 DEF struct_mach_header, names
<1>3. QED BY <1>1, <1>2

\* So the library and the file agree on the header and on the sizes of the commands.
LEMMA HeaderIsFile ==
  ASSUME file \in Files, cpu \in Cpus
  PROVE  /\ \A f \in {"magic", "ncmds", "sizeofcmds"} :
              HeaderField(f) = FileHeader(f) /\ FileHeader(f) \in 0 .. UINT_MAX(4)
         /\ \A p : cmdsize(mem, p) = FileSize(p) /\ FileSize(p) \in 0 .. UINT_MAX(4)
         /\ \A p : /\ Read(mem, p, struct_load_command, "cmd", 4) = FileField(p, struct_load_command, "cmd")
BY ReadIsFile, HeaderFields DEF HeaderField, FileHeader, cmdsize, FileSize

\* No magic is another one, or another one reversed.
LEMMA MagicsDiffer ==
  /\ MH_MAGIC \notin {MH_MAGIC_64, MH_CIGAM_64} /\ MH_CIGAM \notin {MH_MAGIC_64, MH_CIGAM_64}
<1> DEFINE a == <<2, 3, 1, 5>>
           b == <<3, 3, 1, 5>>
           c == Reverse(a)
           d == Reverse(b)
<1>1. a \in Seq(Byte) /\ b \in Seq(Byte) /\ Len(a) = 4 /\ Len(b) = 4
  <2>1. 1 \in Byte /\ 2 \in Byte /\ 3 \in Byte /\ 5 \in Byte
    BY ByteAssumption, MagicAssumption DEF Byte
  <2>2. QED BY <2>1
<1>2. a[1] = 2 /\ b[1] = 3 /\ a[4] = 5 /\ b[4] = 5 OBVIOUS
<1> HIDE DEF a, b
<1>3. c \in Seq(Byte) /\ d \in Seq(Byte) /\ Len(c) = 4 /\ Len(d) = 4 BY <1>1, ReverseTwice
<1>4. c[1] = 5 /\ d[1] = 5 /\ c[4] = 2 /\ d[4] = 3 BY <1>1, <1>2 DEF Reverse
<1> HIDE DEF c, d
<1>5. \A s \in {a, b, c, d} : ToBytes(FromBytes(s), 4) = s
  <2>1. \A s \in Seq(Byte) : Len(s) = 4 => ToBytes(FromBytes(s), 4) = s
    <3>1. SUFFICES ASSUME NEW s \in Seq(Byte), Len(s) = 4 PROVE ToBytes(FromBytes(s), 4) = s OBVIOUS
    <3>2. Len(s) <= 8 BY <3>1
    <3>3. QED BY <3>1, <3>2, WordOfBytes
  <2>2. QED BY <1>1, <1>3, <2>1
<1>6. MH_CIGAM = FromBytes(c) /\ MH_CIGAM_64 = FromBytes(d)
  BY <1>5 DEF MH_CIGAM, MH_CIGAM_64, MH_MAGIC, MH_MAGIC_64, mk_byteorder_swapped, a, b, c, d
<1>7. MH_MAGIC = FromBytes(a) /\ MH_MAGIC_64 = FromBytes(b) BY DEF MH_MAGIC, MH_MAGIC_64, a, b
<1>8. a # b /\ a # d /\ c # b /\ c # d BY <1>2, <1>4
<1>9. FromBytes(a) # FromBytes(b) /\ FromBytes(a) # FromBytes(d)
      /\ FromBytes(c) # FromBytes(b) /\ FromBytes(c) # FromBytes(d)
  BY <1>5, <1>8
<1>10. QED BY <1>6, <1>7, <1>9

\* The size of the header goes with the file's magic, although the library compares the magic as
\* the processor loads it.
LEMMA MagicIsFile ==
  ASSUME file \in Files, cpu \in Cpus, FileHeader("magic") \in {MH_MAGIC, MH_MAGIC_64}
  PROVE  Succeeded(ModelOf(Magic)) /\ ModelOf(Magic).value.header_size = FileHeaderSize
<1> DEFINE at == HeaderAddress + OffsetOf(struct_mach_header, "magic")
           bytes == Peek(mem, at, 4)
           word == FileHeader("magic")
<1>1. WidthOf(struct_mach_header, "magic") = 4 BY HeaderFields, WidthIs
<1>2. mem.bytes \in Seq(Byte) /\ mem.cpu = cpu BY ImageAssumption DEF mem
<1>3. bytes \in Seq(Byte) /\ Len(bytes) = 4 BY <1>2, PeekBytes
<1>4. word = FromBytes(bytes) BY <1>1 DEF FileHeader, FileField, FileWord
<1>5. Magic = Load(cpu, bytes) BY <1>1, <1>2 DEF Magic, Raw
<1> HIDE DEF bytes, at, word
<1>6. Len(bytes) <= 8 BY <1>3
<1>7. ToBytes(word, 4) = bytes BY <1>3, <1>4, <1>6, WordOfBytes
<1>8. Magic \in {word, mk_byteorder_swapped(word, 4)}
  BY <1>4, <1>5, <1>7 DEF Load, mk_byteorder_swapped
<1>9. CASE word = MH_MAGIC
  <2>1. Magic \in {MH_MAGIC, MH_CIGAM} BY <1>8, <1>9 DEF MH_CIGAM
  <2>2. FileHeaderSize = Sizeof(struct_mach_header)
    BY <1>9, MagicsDiffer DEF FileHeaderSize, word
  <2>3. QED BY <2>1, <2>2 DEF ModelOf, Ok, Succeeded
<1>10. CASE word = MH_MAGIC_64
  <2>1. Magic \in {MH_MAGIC_64, MH_CIGAM_64} BY <1>8, <1>10 DEF MH_CIGAM_64
  <2>2. FileHeaderSize = Sizeof(struct_mach_header_64) BY <1>10 DEF FileHeaderSize, word
  <2>3. QED BY <2>1, <2>2, MagicsDiffer DEF ModelOf, Ok, Succeeded
<1>11. QED BY <1>9, <1>10 DEF word

\* The commands of a file follow each other.
LEMMA ListedSteps ==
  ASSUME file \in Files, cpu \in Cpus
  PROVE  /\ Listed[0] = HeaderAddress + FileHeaderSize
         /\ \A n \in 1 .. UINT_MAX(4) : Listed[n] = Listed[n - 1] + FileSize(Listed[n - 1])
         /\ \A n \in 0 .. UINT_MAX(4) : Listed[n] \in Nat
<1> DEFINE N == UINT_MAX(4)
           first == HeaderAddress + FileHeaderSize
           move == [p \in Nat |-> p + FileSize(p)]
           Obeys(f, k) == f[0] = first /\ \A i \in 1 .. k : f[i] = move[f[i - 1]]
           T == {k \in 0 .. N : \E f \in [0 .. k -> Nat] : Obeys(f, k)}
<1>0. N \in Nat
  <2>1. ByteValues ^ 4 \in Nat \ {0} BY PowerAssumption
  <2>2. QED BY <2>1 DEF UINT_MAX
<1>1. first \in Nat /\ move \in [Nat -> Nat]
  <2>1. \A p : FileSize(p) \in Nat BY HeaderIsFile
  <2>2. HeaderAddress \in Nat BY ImageAssumption, WordAssumption DEF Word
  <2>3. FileHeaderSize \in Nat BY SizeofType, KnownLayouts DEF FileHeaderSize
  <2>4. QED BY <2>1, <2>2, <2>3
<1> HIDE DEF N, first, move
<1>2. 0 \in T
  <2> DEFINE f == [i \in 0 .. 0 |-> first]
  <2>1. f \in [0 .. 0 -> Nat] /\ Obeys(f, 0) BY <1>1
  <2>2. 0 \in 0 .. N BY <1>0
  <2>3. QED BY <2>1, <2>2, Zenon
<1>3. ASSUME NEW k \in 1 .. N, k - 1 \in T PROVE k \in T
  <2>1. PICK f \in [0 .. k - 1 -> Nat] : Obeys(f, k - 1) BY <1>3
  <2> DEFINE g == [i \in 0 .. k |-> IF i = k THEN move[f[k - 1]] ELSE f[i]]
  <2>2. k \in Nat /\ k >= 1 /\ k - 1 \in 0 .. k - 1 BY <1>0
  <2>3. move[f[k - 1]] \in Nat BY <1>1, <2>1, <2>2
  <2>4. g \in [0 .. k -> Nat] BY <2>1, <2>2, <2>3
  <2>5. g[0] = first BY <2>1, <2>2
  <2>6. ASSUME NEW i \in 1 .. k PROVE g[i] = move[g[i - 1]]
    <3>1. CASE i = k
      <4>1. g[i] = move[f[k - 1]] /\ g[i - 1] = f[k - 1] BY <2>2, <3>1
      <4>2. QED BY <4>1
    <3>2. CASE i # k
      <4>1. i \in 1 .. k - 1 /\ g[i] = f[i] /\ g[i - 1] = f[i - 1] BY <2>2, <3>2
      <4>2. QED BY <2>1, <4>1
    <3>3. QED BY <3>1, <3>2
  <2> HIDE DEF g
  <2>7. Obeys(g, k) BY <2>5, <2>6
  <2>8. k \in 0 .. N BY <1>0
  <2>9. QED BY <2>4, <2>7, <2>8, Zenon
<1>4. PICK f \in [0 .. N -> Nat] : Obeys(f, N)
  <2> HIDE DEF T
  <2>1. \A k \in 0 .. N : k \in T BY <1>0, <1>2, <1>3, UpTo
  <2>2. N \in T BY <1>0, <2>1
  <2>3. QED BY <2>2 DEF T
<1> DEFINE Step(h, n) == IF n = 0 THEN first ELSE LET previous == h[n - 1] IN previous + FileSize(previous)
           Is(h) == h = [n \in 0 .. N |-> Step(h, n)]
<1>5. Is(f)
  <2>1. ASSUME NEW n \in 0 .. N PROVE f[n] = Step(f, n)
    <3>1. CASE n = 0 BY <1>4, <3>1
    <3>2. CASE n # 0
      <4>1. n \in 1 .. N /\ n - 1 \in 0 .. N BY <1>0, <3>2
      <4>2. f[n] = move[f[n - 1]] /\ f[n - 1] \in Nat BY <1>4, <4>1
      <4>3. QED BY <3>2, <4>2 DEF move
    <3>3. QED BY <3>1, <3>2
  <2>2. QED BY <1>4, <2>1
<1>6. Listed = CHOOSE h : Is(h) BY DEF Listed, N, first
<1>7. Is(Listed) BY <1>5, <1>6, Zenon
<1>8. \A n \in 0 .. N : Listed[n] = Step(Listed, n) BY <1>7
<1>9. Listed[0] = first BY <1>0, <1>8
<1>10. \A n \in 1 .. N : Listed[n] = Listed[n - 1] + FileSize(Listed[n - 1])
  <2>1. SUFFICES ASSUME NEW n \in 1 .. N
                 PROVE  Listed[n] = Listed[n - 1] + FileSize(Listed[n - 1])
    OBVIOUS
  <2>2. n \in 0 .. N /\ n # 0 BY <1>0
  <2>3. QED BY <1>8, <2>2
<1>11. \A n \in 0 .. N : Listed[n] \in Nat
  <2> DEFINE V == {n \in 0 .. N : Listed[n] \in Nat}
  <2>1. 0 \in V
    <3>1. 0 \in 0 .. N BY <1>0
    <3>2. Listed[0] \in Nat BY <1>1, <1>9
    <3>3. QED BY <3>1, <3>2
  <2>2. ASSUME NEW n \in 1 .. N, n - 1 \in V PROVE n \in V
    <3>1. FileSize(Listed[n - 1]) \in Nat BY HeaderIsFile
    <3>2. n \in 0 .. N BY <1>0
    <3>3. QED BY <1>10, <2>2, <3>1, <3>2
  <2> HIDE DEF V
  <2>3. \A n \in 0 .. N : n \in V BY <1>0, <2>1, <2>2, UpTo
  <2>4. QED BY <2>3 DEF V
<1>12. QED BY <1>9, <1>10, <1>11 DEF N, first
----------------------------------------------------------------------------
(* The numbers of a segment the library reads.                             *)

LEMMA FieldsJoin ==
  ASSUME NEW s \in Layout, NEW t \in Layout, NEW field, NEW width
  PROVE  /\ s \o t \in Layout
         /\ Wide(s, field, width) /\ Wide(t, field, width) => Wide(s \o t, field, width)
         /\ HasField(s, field) \/ HasField(t, field) => HasField(s \o t, field)
<1>1. s \o t \in Layout BY DEF Layout
<1>2. /\ s \in Seq(Names \X Nat) /\ t \in Seq(Names \X Nat)
      /\ Len(s) \in Nat /\ Len(t) \in Nat /\ Len(s \o t) = Len(s) + Len(t)
      /\ DOMAIN s = 1 .. Len(s) /\ DOMAIN t = 1 .. Len(t) /\ DOMAIN (s \o t) = 1 .. Len(s) + Len(t)
  BY DEF Layout
<1>3. \A i \in 1 .. Len(s) + Len(t) :
        (s \o t)[i] = IF i <= Len(s) THEN s[i] ELSE t[i - Len(s)]
  BY <1>2, ConcatProperties
<1> DEFINE u == s \o t
           m == Len(s)
           n == Len(t)
<1> HIDE DEF u, m, n
<1>4. ASSUME Wide(s, field, width), Wide(t, field, width) PROVE Wide(u, field, width)
  <2>1. SUFFICES ASSUME NEW i \in DOMAIN u, u[i][1] = field PROVE u[i][2] = width
    BY DEF Wide
  <2>2. i \in 1 .. m + n /\ m \in Nat /\ n \in Nat BY <1>2 DEF u, m, n
  <2>3. CASE i <= m
    <3>1. u[i] = s[i] /\ i \in DOMAIN s BY <1>2, <1>3, <2>2, <2>3 DEF u, m, n
    <3>2. QED BY <1>4, <2>1, <3>1 DEF Wide
  <2>4. CASE i > m
    <3>1. i - m \in 1 .. n BY <2>2, <2>4
    <3>2. u[i] = t[i - m] BY <1>3, <2>2, <2>4 DEF u, m, n
    <3>3. i - m \in DOMAIN t BY <1>2, <3>1 DEF n
    <3>4. QED BY <1>4, <2>1, <3>2, <3>3 DEF Wide
  <2>5. QED BY <2>2, <2>3, <2>4
<1>5. ASSUME HasField(s, field) PROVE HasField(u, field)
  <2>1. PICK i \in DOMAIN s : s[i][1] = field BY <1>5 DEF HasField
  <2>2. i \in 1 .. m + n /\ i <= m BY <1>2, <2>1 DEF m, n
  <2>3. u[i] = s[i] /\ i \in DOMAIN u BY <1>2, <1>3, <2>2 DEF u, m, n
  <2>4. QED BY <2>1, <2>3 DEF HasField
<1>6. ASSUME HasField(t, field) PROVE HasField(u, field)
  <2>1. PICK i \in DOMAIN t : t[i][1] = field BY <1>6 DEF HasField
  <2>2. m + i \in 1 .. m + n /\ ~ (m + i <= m) /\ m + i - m = i BY <1>2, <2>1 DEF m, n
  <2>3. u[m + i] = t[i] /\ m + i \in DOMAIN u BY <1>2, <1>3, <2>2 DEF u, m, n
  <2>4. QED BY <2>1, <2>3 DEF HasField
<1>7. QED BY <1>1, <1>4, <1>5, <1>6 DEF u

LEMMA WordFields ==
  ASSUME NEW names \in Seq(Names)
  PROVE  /\ Words(names) \in Layout /\ Quads(names) \in Layout
         /\ \A f : Wide(Words(names), f, 4) /\ Wide(Quads(names), f, 8)
         /\ \A i \in 1 .. Len(names) : HasField(Words(names), names[i]) /\ HasField(Quads(names), names[i])
         /\ \A f : (\A i \in 1 .. Len(names) : names[i] # f) =>
              \A w : Wide(Words(names), f, w) /\ Wide(Quads(names), f, w)
<1>1. Words(names) = [i \in 1 .. Len(names) |-> <<names[i], 4>>] BY DEF Words
<1>2. Quads(names) = [i \in 1 .. Len(names) |-> <<names[i], 8>>] BY DEF Quads
<1>3. \A i \in 1 .. Len(names) : <<names[i], 4>> \in Names \X Nat /\ <<names[i], 8>> \in Names \X Nat
  OBVIOUS
<1>4. Words(names) \in Layout /\ Quads(names) \in Layout BY <1>1, <1>2, <1>3 DEF Layout
<1>5. \A f : Wide(Words(names), f, 4) /\ Wide(Quads(names), f, 8) BY <1>1, <1>2 DEF Wide
<1>6. \A i \in 1 .. Len(names) : HasField(Words(names), names[i]) /\ HasField(Quads(names), names[i])
  BY <1>1, <1>2 DEF HasField
<1>7. \A f : (\A i \in 1 .. Len(names) : names[i] # f) =>
        \A w : Wide(Words(names), f, w) /\ Wide(Quads(names), f, w)
  BY <1>1, <1>2 DEF Wide
<1>8. QED BY <1>4, <1>5, <1>6, <1>7

Extents == {"vmaddr", "vmsize", "fileoff", "filesize"}
SlideFields == {"vmaddr", "vmsize", "filesize"}

\* What precedes the numbers of either kind of segment.
LEMMA SegmentBegins ==
  /\ Header \o Chars("segname", 16) \in Layout
  /\ \A f \in Extents : \A w : Wide(Header \o Chars("segname", 16), f, w)
<1> DEFINE names == <<"cmd", "cmdsize">>
           rest == Chars("segname", 16)
<1>1. names \in Seq(Names) /\ \A i \in 1 .. Len(names) : names[i] \in {"cmd", "cmdsize"} BY DEF Names
<1> HIDE DEF names
<1>2. Words(names) \in Layout BY <1>1, WordFields
<1>3. \A f \in Extents : \A w : Wide(Words(names), f, w)
  <2>1. \A f \in Extents : \A i \in 1 .. Len(names) : names[i] # f BY <1>1 DEF Extents
  <2>2. QED BY <1>1, <2>1, WordFields
<1>4. rest = <<<<"segname", 16>>>> /\ rest \in Layout BY DEF Chars, Layout, Names
<1>5. \A f \in Extents : \A w : Wide(rest, f, w) BY <1>4 DEF Wide, Extents
<1>6. Words(names) = Header BY DEF Header, names
<1> HIDE DEF rest
<1>7. QED BY <1>2, <1>3, <1>4, <1>5, <1>6, FieldsJoin DEF rest

LEMMA SegmentLayouts ==
  \A f \in Extents :
    /\ HasField(struct_segment_command, f) /\ Wide(struct_segment_command, f, 4)
    /\ HasField(struct_segment_command_64, f) /\ Wide(struct_segment_command_64, f, 8)
<1> DEFINE begin == Header \o Chars("segname", 16)
<1>0. begin \in Layout /\ \A f \in Extents : \A w : Wide(begin, f, w) BY SegmentBegins
<1>1. \A f \in Extents : HasField(struct_segment_command, f) /\ Wide(struct_segment_command, f, 4)
  <2> DEFINE names == <<"vmaddr", "vmsize", "fileoff", "filesize", "maxprot", "initprot", "nsects", "flags">>
  <2>1. names \in Seq(Names) /\ Len(names) = 8
        /\ names[1] = "vmaddr" /\ names[2] = "vmsize" /\ names[3] = "fileoff" /\ names[4] = "filesize"
    BY DEF Names
  <2>2. struct_segment_command = begin \o Words(names) BY DEF struct_segment_command
  <2> HIDE DEF names, begin
  <2>3. Words(names) \in Layout /\ \A f : Wide(Words(names), f, 4) BY <2>1, WordFields
  <2>4. \A f \in Extents : HasField(Words(names), f)
    <3>1. 1 \in 1 .. Len(names) /\ 2 \in 1 .. Len(names)
          /\ 3 \in 1 .. Len(names) /\ 4 \in 1 .. Len(names)
      BY <2>1
    <3>2. QED BY <2>1, <3>1, WordFields DEF Extents
  <2>5. QED BY <1>0, <2>2, <2>3, <2>4, FieldsJoin
<1>2. \A f \in Extents :
        HasField(struct_segment_command_64, f) /\ Wide(struct_segment_command_64, f, 8)
  <2> DEFINE quads == <<"vmaddr", "vmsize", "fileoff", "filesize">>
             words == <<"maxprot", "initprot", "nsects", "flags">>
  <2>1. quads \in Seq(Names) /\ Len(quads) = 4
        /\ quads[1] = "vmaddr" /\ quads[2] = "vmsize" /\ quads[3] = "fileoff" /\ quads[4] = "filesize"
    BY DEF Names
  <2>2. words \in Seq(Names)
        /\ \A i \in 1 .. Len(words) : words[i] \in {"maxprot", "initprot", "nsects", "flags"}
    BY DEF Names
  <2>3. struct_segment_command_64 = (begin \o Quads(quads)) \o Words(words)
    BY DEF struct_segment_command_64
  <2> HIDE DEF quads, words, begin
  <2>4. Quads(quads) \in Layout /\ \A f : Wide(Quads(quads), f, 8) BY <2>1, WordFields
  <2>5. \A f \in Extents : HasField(Quads(quads), f)
    <3>1. 1 \in 1 .. Len(quads) /\ 2 \in 1 .. Len(quads)
          /\ 3 \in 1 .. Len(quads) /\ 4 \in 1 .. Len(quads)
      BY <2>1
    <3>2. QED BY <2>1, <3>1, WordFields DEF Extents
  <2>6. Words(words) \in Layout /\ \A f \in Extents : Wide(Words(words), f, 8)
    <3>1. \A f \in Extents : \A i \in 1 .. Len(words) : words[i] # f BY <2>2 DEF Extents
    <3>2. QED BY <2>2, <3>1, WordFields
  <2>7. begin \o Quads(quads) \in Layout
        /\ \A f \in Extents : /\ HasField(begin \o Quads(quads), f)
                                  /\ Wide(begin \o Quads(quads), f, 8)
    BY <1>0, <2>4, <2>5, FieldsJoin
  <2>8. QED BY <2>3, <2>6, <2>7, FieldsJoin
<1>3. QED BY <1>1, <1>2

\* Either class of segments reads those numbers with its width, and a getter that is called with
\* a command of another class returns one that no other result is taken for.
ReadsExtent(class, f, width) ==
  /\ f \in DOMAIN class.reads /\ class.reads[f] = width
  /\ HasField(class.layout, f) /\ Wide(class.layout, f, width)
  /\ class.otherwise[f] = UINT_MAX(width)

LEMMA ExtentsRead ==
  \A f \in Extents : /\ ReadsExtent(mk_load_command_segment, f, 4)
                     /\ ReadsExtent(mk_load_command_segment_64, f, 8)
<1>1. SUFFICES ASSUME NEW f \in Extents
               PROVE  /\ ReadsExtent(mk_load_command_segment, f, 4)
                      /\ ReadsExtent(mk_load_command_segment_64, f, 8)
  OBVIOUS
<1>2. LET class == mk_load_command_segment
      IN  /\ f \in DOMAIN class.reads /\ class.reads[f] = 4 /\ class.layout = struct_segment_command
          /\ class.otherwise[f] = UINT_MAX(4)
  BY DEF mk_load_command_segment, Class, swap32, Extents
<1>3. LET class == mk_load_command_segment_64
      IN  /\ f \in DOMAIN class.reads /\ class.reads[f] = 8
          /\ class.layout = struct_segment_command_64 /\ class.otherwise[f] = UINT_MAX(8)
  <2> DEFINE addresses == {"vmaddr", "vmsize", "fileoff", "filesize"}
             numbers == {"maxprot", "initprot", "nsects", "flags"}
             reads == swap(numbers, addresses)
             class == Class("SEGMENT_64", struct_segment_command_64,
                            swap({"cmd", "cmdsize"} \union numbers, addresses), reads)
  <2>1. reads = [g \in numbers \union addresses |-> IF g \in numbers THEN 4 ELSE 8]
    BY DEF swap
  <2>2. f \in DOMAIN reads /\ reads[f] = 8 BY <2>1 DEF Extents
  <2>3. f # "maxprot" /\ f # "initprot" BY DEF Extents
  <2>4. mk_load_command_segment_64 =
          [class EXCEPT !.bytes = {"segname"}, !.otherwise["maxprot"] = UINT_MAX(4) \div 2,
                        !.otherwise["initprot"] = UINT_MAX(4) \div 2]
    BY DEF mk_load_command_segment_64
  <2> HIDE DEF reads
  <2>5. /\ class.reads = reads /\ class.layout = struct_segment_command_64
        /\ class.otherwise = [g \in DOMAIN reads |-> UINT_MAX(reads[g])]
        /\ {"reads", "layout", "otherwise", "bytes"} \subseteq DOMAIN class
    BY DEF Class
  <2> HIDE DEF class
  <2>6. QED BY <2>2, <2>3, <2>4, <2>5
<1>4. QED BY <1>2, <1>3, SegmentLayouts DEF ReadsExtent

\* So does the class of the image's kind.
LEMMA SegmentReads ==
  \A f \in SlideFields :
    /\ SegmentClass.reads[f] \in {4, 8}
    /\ HasField(SegmentClass.layout, f) /\ Wide(SegmentClass.layout, f, SegmentClass.reads[f])
    /\ SegmentClass.otherwise[f] = UINT_MAX(SegmentClass.reads[f])
BY ExtentsRead DEF ReadsExtent, SegmentClass, SlideFields, Extents
----------------------------------------------------------------------------
(* The walk of an image whose header adds up.                              *)

Count == FileHeader("ncmds")
WidthOfCommand == Sizeof(struct_load_command)

LEMMA CommandWidth == WidthOfCommand \in Nat \ {0}
<1> DEFINE layout == struct_load_command
           widths == [i \in 1 .. Len(layout) |-> layout[i][2]]
<1>1. layout = <<<<"cmd", 4>>, <<"cmdsize", 4>>>>
  BY DEF struct_load_command, Header, Words
<1>2. widths \in Seq(Nat) /\ Len(widths) = 2 /\ widths[1] = 4 /\ widths[2] = 4 BY <1>1
<1>3. WidthOfCommand = Horner(1, widths) BY DEF WidthOfCommand, Sizeof, Widths
<1> HIDE DEF widths
<1>4. PICK number \in [0 .. Len(widths) -> Nat] :
        /\ \A i \in 1 .. Len(widths) : number[i] = 1 * number[i - 1] + widths[i]
        /\ Horner(1, widths) = number[Len(widths)]
  BY <1>2, HornerSteps
<1>5. number[2] = 1 * number[1] + 4 /\ number[1] \in Nat BY <1>2, <1>4
<1>6. QED BY <1>2, <1>3, <1>4, <1>5

\* The commands of such a file lie one behind the other, up to where the header says they end.
LEMMA CommandsFollow ==
  ASSUME file \in Files, cpu \in Cpus, WellFormed
  PROVE  /\ Count \in 0 .. UINT_MAX(4) /\ Listed[0] = HeaderAddress + FileHeaderSize
         /\ HeaderAddress \in Nat \ {0} /\ FileHeaderSize \in Nat /\ FileHeader("sizeofcmds") \in Nat
         /\ Listed[Count] = Listed[0] + FileHeader("sizeofcmds")
         /\ \A n \in 0 .. Count : Listed[n] \in Nat /\ Listed[0] <= Listed[n]
         /\ \A n \in 0 .. Count - 1 :
              /\ FileSize(Listed[n]) \in Nat /\ FileSize(Listed[n]) >= WidthOfCommand
              /\ Listed[n + 1] = Listed[n] + FileSize(Listed[n])
              /\ Listed[n + 1] <= Listed[Count]
<1> DEFINE N == UINT_MAX(4)
<1>1. Count \in 0 .. N /\ FileHeader("sizeofcmds") \in Nat /\ N \in Nat
  <2>1. ByteValues ^ 4 \in Nat \ {0} BY PowerAssumption
  <2>2. N \in Nat BY <2>1 DEF UINT_MAX
  <2>3. QED BY <2>2, HeaderIsFile DEF Count
<1>2. HeaderAddress \in Nat \ {0} BY ImageAssumption, WordAssumption DEF Word, NULL
<1>3. FileHeaderSize \in Nat BY SizeofType, KnownLayouts DEF FileHeaderSize
<1> HIDE DEF N
<1>4. Listed[0] = HeaderAddress + FileHeaderSize BY ListedSteps
<1>5. \A n \in 1 .. N : Listed[n] = Listed[n - 1] + FileSize(Listed[n - 1]) BY ListedSteps DEF N
<1>6. \A n \in 0 .. N : Listed[n] \in Nat BY ListedSteps DEF N
<1>7. Listed[Count] = Listed[0] + FileHeader("sizeofcmds")
  BY <1>1, <1>2, <1>3, <1>4 DEF WellFormed, Count
<1>8. \A p : FileSize(p) \in Nat BY HeaderIsFile
<1>9. \A n \in 0 .. Count - 1 : FileSize(Listed[n]) >= WidthOfCommand
  BY DEF WellFormed, Count, WidthOfCommand
<1>10. \A n \in 0 .. Count : Listed[n] \in Nat BY <1>1, <1>6
<1>11. \A n \in 0 .. Count - 1 :
         Listed[n + 1] = Listed[n] + FileSize(Listed[n]) /\ Listed[n] <= Listed[n + 1]
  <2>1. SUFFICES ASSUME NEW n \in 0 .. Count - 1
                 PROVE  Listed[n + 1] = Listed[n] + FileSize(Listed[n]) /\ Listed[n] <= Listed[n + 1]
    OBVIOUS
  <2>2. n + 1 \in 1 .. N /\ n + 1 - 1 = n /\ n \in 0 .. Count BY <1>1
  <2>3. Listed[n + 1] = Listed[n] + FileSize(Listed[n]) BY <1>5, <2>2
  <2>4. Listed[n] \in Nat /\ FileSize(Listed[n]) \in Nat BY <1>8, <1>10, <2>2
  <2>5. QED BY <2>3, <2>4
<1>12. \A n \in 0 .. Count : Listed[0] <= Listed[n]
  <2> DEFINE T == {n \in 0 .. Count : Listed[0] <= Listed[n]}
  <2>1. 0 \in T
    <3>1. 0 \in 0 .. Count /\ Listed[0] \in Nat BY <1>1, <1>10
    <3>2. QED BY <3>1
  <2>2. ASSUME NEW n \in 1 .. Count, n - 1 \in T PROVE n \in T
    <3>1. n - 1 \in 0 .. Count - 1 /\ n - 1 + 1 = n /\ n \in 0 .. Count /\ n - 1 \in 0 .. Count
          /\ 0 \in 0 .. Count
      BY <1>1
    <3>2. Listed[n - 1] <= Listed[n] BY <1>11, <3>1
    <3>3. Listed[0] <= Listed[n - 1] BY <2>2
    <3>4. Listed[0] \in Nat /\ Listed[n] \in Nat /\ Listed[n - 1] \in Nat BY <1>10, <3>1
    <3>5. Listed[0] <= Listed[n] BY <3>2, <3>3, <3>4
    <3>6. QED BY <3>1, <3>5
  <2> HIDE DEF T
  <2>3. Count \in Nat BY <1>1
  <2>4. \A n \in 0 .. Count : n \in T BY <2>1, <2>2, <2>3, UpTo
  <2>5. QED BY <2>4 DEF T
<1>13. \A n \in 0 .. Count : Listed[n] <= Listed[Count]
  <2> DEFINE T == {k \in 0 .. Count : Listed[Count - k] <= Listed[Count]}
  <2>0. Count \in Nat /\ Count \in 0 .. Count /\ Count - 0 = Count BY <1>1
  <2>1. 0 \in T
    <3>1. Listed[Count] \in Nat /\ 0 \in 0 .. Count BY <1>10, <2>0
    <3>2. Listed[Count - 0] <= Listed[Count] BY <2>0, <3>1
    <3>3. QED BY <3>1, <3>2
  <2>2. ASSUME NEW k \in 1 .. Count, k - 1 \in T PROVE k \in T
    <3> DEFINE n == Count - k
    <3>1. n \in 0 .. Count - 1 /\ Count - (k - 1) = n + 1 /\ n \in 0 .. Count /\ n + 1 \in 0 .. Count
          /\ k \in 0 .. Count
      BY <2>0
    <3>2. Listed[Count - (k - 1)] <= Listed[Count] BY <2>2
    <3> HIDE DEF n
    <3>3. Listed[n] <= Listed[n + 1] BY <1>11, <3>1
    <3>4. Listed[n] \in Nat /\ Listed[n + 1] \in Nat /\ Listed[Count] \in Nat BY <1>10, <2>0, <3>1
    <3>5. Listed[n + 1] <= Listed[Count] BY <3>1, <3>2
    <3>6. Listed[n] <= Listed[Count] BY <3>3, <3>4, <3>5
    <3>7. QED BY <3>1, <3>6 DEF n
  <2> HIDE DEF T
  <2>3. \A k \in 0 .. Count : k \in T BY <2>0, <2>1, <2>2, UpTo
  <2>4. SUFFICES ASSUME NEW n \in 0 .. Count PROVE Listed[n] <= Listed[Count] OBVIOUS
  <2>5. Count - n \in 0 .. Count /\ Count - (Count - n) = n BY <2>0
  <2>6. Listed[Count - (Count - n)] <= Listed[Count] BY <2>3, <2>5 DEF T
  <2>7. QED BY <2>5, <2>6
<1>14. \A n \in 0 .. Count - 1 : Listed[n + 1] <= Listed[Count]
  <2>1. \A n \in 0 .. Count - 1 : n + 1 \in 0 .. Count BY <1>1
  <2>2. QED BY <1>13, <2>1
<1>15. QED BY <1>1, <1>2, <1>3, <1>4, <1>7, <1>8, <1>9, <1>10, <1>11, <1>12, <1>14 DEF N

\* What lies in a mapping that does not wrap is found to be in it, and has an address in the target.
LEMMA LiesInMapping ==
  ASSUME NEW mapping, mapping.address = HeaderAddress, mapping.length \in Nat,
         HeaderAddress \in Nat, HeaderAddress + mapping.length <= MaxWord,
         NEW p \in Nat, NEW length \in Nat, p >= HeaderAddress,
         p + length <= HeaderAddress + mapping.length
  PROVE  /\ Within(mapping, p, length)
         /\ Succeeded(mk_memory_object_unmap_address(mapping, 0, p, length))
<1> DEFINE limit == HeaderAddress + mapping.length
<1>1. limit \in Nat /\ limit <= MaxWord /\ MaxWord \in Nat /\ p + length <= limit /\ p >= HeaderAddress
      /\ limit = mapping.address + mapping.length
  BY WordAssumption
<1>2. Wrap(limit) = limit BY <1>1, WrapBelow
<1> HIDE DEF limit
<1>3. /\ ~ (MaxWord - 0 < p) /\ ~ (MaxWord - length < p + 0) /\ ~ (p + 0 < HeaderAddress)
      /\ ~ (limit < p + 0 + length)
  BY <1>1
<1>4. Locate(mapping.address, mapping.length, 0, p, length) = Ok(p + 0)
  BY <1>1, <1>2, <1>3 DEF Locate
<1>5. /\ ~ (MaxWord - p < 0) /\ ~ (MaxWord - length < 0 + p) /\ ~ (0 + p < HeaderAddress)
      /\ ~ (limit < 0 + p + length)
  BY <1>1
<1>6. Locate(mapping.address, mapping.length, p, 0, length) = Ok(0 + p)
  BY <1>1, <1>2, <1>5 DEF Locate
<1>7. Within(mapping, p, length)
  BY <1>4 DEF Within, mk_memory_object_verify_local_pointer, Succeeded, Ok
<1>8. Succeeded(mk_memory_object_unmap_address(mapping, 0, p, length))
  BY <1>6 DEF mk_memory_object_unmap_address, mk_memory_object_verify_local_pointer, Succeeded, Ok
<1>9. QED BY <1>7, <1>8

\* From the n-th command, or the beginning, the next one is the (n+1)-th, and there is none after
\* the last.
Position(n) == IF n = 0 THEN NULL ELSE Listed[n - 1]

LEMMA NextIsListed ==
  ASSUME file \in Files, cpu \in Cpus, Whole,
         image.header_size = FileHeaderSize, image.header_mapping.address = HeaderAddress,
         image.header_mapping.length \in Nat,
         HeaderAddress + image.header_mapping.length <= MaxWord,
         NEW n \in 0 .. Count, NEW previous, previous = Position(n), NEW locate \in BOOLEAN
  PROVE  /\ n < Count => mk_macho_next_command(image, previous, locate) = Listed[n]
         /\ n = Count => mk_macho_next_command(image, previous, locate) = NULL
         /\ n < Count => Listed[n] # NULL
<1> DEFINE mapping == image.header_mapping
           limit == HeaderAddress + mapping.length
           next == IF previous = NULL THEN mapping.address + image.header_size
                   ELSE previous + cmdsize(mem, previous)
           end == Listed[Count]
           width == WidthOfCommand
<1>0. WellFormed /\ mapping.length >= image.header_size + FileHeader("sizeofcmds") BY DEF Whole
<1>1. /\ Count \in Nat /\ Listed[0] = HeaderAddress + FileHeaderSize
      /\ HeaderAddress \in Nat \ {0} /\ FileHeaderSize \in Nat /\ FileHeader("sizeofcmds") \in Nat
      /\ end = Listed[0] + FileHeader("sizeofcmds")
  BY <1>0, CommandsFollow
<1>2. \A k \in 0 .. Count : Listed[k] \in Nat /\ Listed[0] <= Listed[k] /\ Listed[k] >= HeaderAddress
                            /\ Listed[k] # NULL
  <2>1. \A k \in 0 .. Count : Listed[k] \in Nat /\ Listed[0] <= Listed[k] BY <1>0, CommandsFollow
  <2>2. 0 \in 0 .. Count BY <1>1
  <2>3. QED BY <1>1, <2>1, <2>2 DEF NULL
<1>3. \A k \in 0 .. Count - 1 :
        /\ FileSize(Listed[k]) \in Nat /\ FileSize(Listed[k]) >= width
        /\ Listed[k + 1] = Listed[k] + FileSize(Listed[k])
        /\ Listed[k + 1] <= end
  BY <1>0, CommandsFollow
<1>4. width \in Nat \ {0} BY CommandWidth
<1>5. \A p : cmdsize(mem, p) = FileSize(p) BY HeaderIsFile
<1>6. mk_macho_get_ncmds = Count /\ mk_macho_get_sizeofcmds = FileHeader("sizeofcmds")
  BY HeaderIsFile DEF mk_macho_get_ncmds, mk_macho_get_sizeofcmds, Count
<1>7. end <= limit /\ limit \in Nat /\ end \in Nat
  <2>1. Count \in 0 .. Count BY <1>1
  <2>2. QED BY <1>0, <1>1, <1>2, <2>1
<1> HIDE DEF mapping, limit, end, width
<1>8. mapping.address = HeaderAddress /\ mapping.length \in Nat /\ HeaderAddress + mapping.length <= MaxWord
  BY DEF mapping
<1>9. \A k \in 0 .. Count - 1 :
        /\ Within(mapping, Listed[k], width) /\ Within(mapping, Listed[k], FileSize(Listed[k]))
        /\ Succeeded(mk_memory_object_unmap_address(mapping, 0, Listed[k], width))
  <2>1. SUFFICES ASSUME NEW k \in 0 .. Count - 1
                 PROVE  /\ Within(mapping, Listed[k], width)
                        /\ Within(mapping, Listed[k], FileSize(Listed[k]))
                        /\ Succeeded(mk_memory_object_unmap_address(mapping, 0, Listed[k], width))
    OBVIOUS
  <2> DEFINE p == Listed[k]
             size == FileSize(Listed[k])
  <2>2. k \in 0 .. Count BY <1>1
  <2>3. p \in Nat /\ p >= HeaderAddress BY <1>2, <2>2
  <2>4. size \in Nat /\ size >= width /\ p + size <= end
    <3>1. size \in Nat /\ size >= width /\ Listed[k + 1] = p + size /\ Listed[k + 1] <= end BY <1>3
    <3>2. QED BY <3>1
  <2> HIDE DEF p, size
  <2>5. p + size <= limit /\ p + width <= limit BY <1>4, <1>7, <2>3, <2>4
  <2>6. Within(mapping, p, size) BY <1>1, <1>8, <2>3, <2>4, <2>5, LiesInMapping DEF limit
  <2>7. Within(mapping, p, width) /\ Succeeded(mk_memory_object_unmap_address(mapping, 0, p, width))
    BY <1>1, <1>4, <1>8, <2>3, <2>5, LiesInMapping DEF limit
  <2>8. QED BY <2>6, <2>7 DEF p, size
<1>10. next = Listed[n] /\ (previous = NULL <=> n = 0)
  <2>1. CASE n = 0
    <3>1. previous = NULL BY <2>1 DEF Position
    <3>2. QED BY <1>1, <1>8, <2>1, <3>1
  <2>2. CASE n # 0
    <3>1. n - 1 \in 0 .. Count - 1 /\ n - 1 \in 0 .. Count /\ n - 1 + 1 = n BY <1>1, <2>2
    <3>2. previous = Listed[n - 1] /\ previous # NULL BY <1>2, <2>2, <3>1 DEF Position
    <3>3. Listed[n - 1 + 1] = Listed[n - 1] + FileSize(Listed[n - 1]) BY <1>3, <3>1
    <3>4. QED BY <1>5, <2>2, <3>1, <3>2, <3>3
  <2>3. QED BY <2>1, <2>2
<1> HIDE DEF next
<1>11. Past(image, next) <=> Listed[n] >= end
  BY <1>1, <1>6, <1>8, <1>10 DEF Past, mk_macho_get_header_mapping, mapping
<1>12. mk_macho_next_command(image, previous, locate) =
         IF \/ previous = NULL /\ (mk_macho_get_ncmds = 0 \/ mk_macho_get_sizeofcmds < width)
            \/ previous # NULL /\ ~Within(mapping, previous, width)
            \/ Past(image, next)
            \/ ~Fits(mapping, next)
            \/ locate /\ ~Succeeded(mk_memory_object_unmap_address(mapping, 0, next, width))
         THEN NULL ELSE next
  BY DEF mk_macho_next_command, mk_macho_get_header_mapping, next, mapping, width, WidthOfCommand
<1>13. CASE n = Count
  <2>1. Listed[n] >= end BY <1>7, <1>13 DEF end
  <2>2. QED BY <1>11, <1>12, <1>13, <2>1
<1>14. CASE n # Count
  <2>1. n \in 0 .. Count - 1 /\ n < Count BY <1>1, <1>14
  <2>2. Listed[n] \in Nat /\ FileSize(Listed[n]) \in Nat /\ FileSize(Listed[n]) >= width
        /\ Listed[n] + FileSize(Listed[n]) <= end
    <3>1. /\ FileSize(Listed[n]) \in Nat /\ FileSize(Listed[n]) >= width
          /\ Listed[n + 1] = Listed[n] + FileSize(Listed[n]) /\ Listed[n + 1] <= end
      BY <1>3, <2>1
    <3>2. QED BY <1>2, <3>1
  <2>3. ~ Past(image, next) BY <1>4, <1>7, <1>11, <2>2
  <2>4. Fits(mapping, next) BY <1>5, <1>9, <1>10, <2>1 DEF Fits, width, WidthOfCommand
  <2>5. Succeeded(mk_memory_object_unmap_address(mapping, 0, next, width)) BY <1>9, <1>10, <2>1
  <2>6. ~ (previous = NULL /\ (mk_macho_get_ncmds = 0 \/ mk_macho_get_sizeofcmds < width))
    <3>1. SUFFICES ASSUME previous = NULL
                   PROVE  mk_macho_get_ncmds # 0 /\ ~ (mk_macho_get_sizeofcmds < width)
      OBVIOUS
    <3>2. n = 0 BY <1>10, <3>1
    <3>3. Listed[0] + FileSize(Listed[0]) <= end /\ Listed[0] \in Nat BY <2>2, <3>2
    <3>4. FileSize(Listed[0]) <= FileHeader("sizeofcmds") /\ FileSize(Listed[0]) >= width
          /\ FileSize(Listed[0]) \in Nat
      BY <1>1, <2>2, <3>2, <3>3
    <3>5. QED BY <1>1, <1>4, <1>6, <2>1, <3>2, <3>4
  <2>7. ~ (previous # NULL /\ ~Within(mapping, previous, width))
    <3>1. SUFFICES ASSUME previous # NULL PROVE Within(mapping, previous, width) OBVIOUS
    <3>2. n # 0 BY <1>10, <3>1
    <3>3. n - 1 \in 0 .. Count - 1 BY <1>1, <3>2
    <3>4. previous = Listed[n - 1] BY <3>2 DEF Position
    <3>5. QED BY <1>9, <3>3, <3>4
  <2>8. mk_macho_next_command(image, previous, locate) = next
    BY <1>12, <2>3, <2>4, <2>5, <2>6, <2>7
  <2>9. Listed[n] # NULL BY <1>2
  <2>10. QED BY <1>10, <1>14, <2>8, <2>9
<1>15. QED BY <1>13, <1>14
----------------------------------------------------------------------------
(* Types.                                                                  *)

\* The type, with what it takes to keep it: the slide that will be the image's, the mapping within
\* the address space, the mapping there is to free, and a walk that begins with the image.
SlideInv == pc = "copied" => call.slide \in Slide
WindowInv ==
  Mapped => /\ {"open", "slide"} \subseteq DOMAIN image
            /\ image.open /\ image.slide \in Slide /\ image.header_mapping \in mk_memory_object
            /\ image.header_mapping.target_address = LoadAddress
            /\ HeaderAddress + image.header_mapping.length <= MaxWord
            /\ LoadAddress + image.header_mapping.length <= MaxWord
HeldInv == Holds(pc) <= mappings
BeginInv == pc # "open" => walked = <<>>

Typed == TypeOK /\ SlideInv /\ WindowInv /\ HeldInv /\ BeginInv

LEMMA TypedInit == Init => Typed
<1> SUFFICES ASSUME Init PROVE Typed OBVIOUS
<1>1. 0 \in Word /\ MaxMappings \in Nat BY WordAssumption, ImageAssumption DEF Word
<1>2. TypeOK BY <1>1 DEF Init, TypeOK, Pcs, Results, NULL
<1>3. pc = "closed" /\ mappings = 0 /\ walked = <<>> BY DEF Init
<1>4. QED BY <1>2, <1>3 DEF Typed, SlideInv, WindowInv, HeldInv, BeginInv, Mapped, Holds

\* What a loop over the commands comes to is a word.
LEMMA NextIsWord ==
  ASSUME ImageInv, Typed, Mapped, NEW locate, NEW next,
         next = mk_macho_next_command(image, lc, locate), next # NULL
  PROVE  next \in Word
<1>1. /\ file \in Files /\ image.header_mapping.address = HeaderAddress
      /\ image.header_mapping.length \in Nat /\ lc \in Nat
      /\ image.header_size \in Nat
  BY SizesAreNumbers DEF ImageInv, MappingInv, WalkInv
<1>2. lc # NULL => lc >= HeaderAddress + image.header_size
  BY DEF ImageInv, MappingInv, CommandsAreMapped
<1>3. /\ next \in Nat
      /\ next + cmdsize(mem, next) <= HeaderAddress + image.header_mapping.length
  BY <1>1, <1>2, NextIsMapped
<1>4. cmdsize(mem, next) \in Nat BY <1>1, SizesAreNumbers
<1>5. HeaderAddress + image.header_mapping.length <= MaxWord BY DEF Typed, WindowInv
<1>6. HeaderAddress \in Nat /\ MaxWord \in Nat BY ImageAssumption, WordAssumption DEF Word
<1>7. QED BY <1>1, <1>3, <1>4, <1>5, <1>6 DEF Word

\* What leaves no image open.
LEMMA ClosesTyped ==
  ASSUME Typed, cpu' = cpu, file' = file, pc' \in Pcs \ {"copied", "slide", "open"}, result' \in Results,
         image' = image \/ image' = NoImage, low' \in Word, lc' \in Word, walked' = <<>>,
         mappings' \in 0 .. MaxMappings
  PROVE  Typed'
<1>1. TypeOK'
  <2>1. \/ image' = NoImage
        \/ image'.open /\ image'.slide \in Slide /\ image'.header_mapping \in mk_memory_object
    BY DEF Typed, TypeOK
  <2>2. cpu' \in Cpus /\ file' \in Files BY DEF Typed, TypeOK
  <2>3. walked' \in Seq(Word) OBVIOUS
  <2>4. QED BY <2>1, <2>2, <2>3 DEF TypeOK, Files
<1>2. ~ Mapped' /\ Holds(pc') = 0 BY DEF Mapped, Holds
<1>3. SlideInv' /\ WindowInv' /\ BeginInv' BY <1>2 DEF SlideInv, WindowInv, BeginInv
<1>4. HeldInv' BY <1>2 DEF HeldInv
<1>5. QED BY <1>1, <1>3, <1>4 DEF Typed

LEMMA FreesTyped ==
  ASSUME Typed, Mapped, NEW err \in {"none", "EDERIVED"}, Frees(err)
  PROVE  Typed'
<1>1. mappings \in 0 .. MaxMappings /\ Holds(pc) = 1 /\ MaxMappings \in Nat
  BY ImageAssumption DEF Typed, TypeOK, Mapped, Holds
<1>2. mappings >= 1 BY <1>1 DEF Typed, HeldInv
<1>3. mappings - 1 \in 0 .. MaxMappings BY <1>1, <1>2
<1>4. 0 \in Word BY WordAssumption DEF Word
<1>5. /\ mappings' = mappings - 1 /\ pc' = "closed" /\ result' = err /\ image' = NoImage
      /\ low' = 0 /\ lc' = NULL /\ walked' = <<>> /\ cpu' = cpu /\ file' = file
  BY DEF Frees
<1>6. pc' \in Pcs \ {"copied", "slide", "open"} /\ result' \in Results /\ lc' \in Word
  BY <1>4, <1>5 DEF Pcs, Results, NULL
<1>7. QED BY <1>3, <1>4, <1>5, <1>6, ClosesTyped

LEMMA InitTyped ==
  ASSUME Typed, NEW derives, NEW slide \in Slide, mk_macho_init_with_slide(derives, slide)
  PROVE  Typed'
<1>1. pc = "closed" /\ walked = <<>>
  BY DEF mk_macho_init_with_slide, Typed, BeginInv
<1>2. ASSUME NEW err \in {"EINVAL", "EBAD_ACCESS", "EINVALID_DATA"}, Returns(err) PROVE Typed'
  <2>1. /\ pc' = "closed" /\ result' = err
        /\ cpu' = cpu /\ file' = file /\ image' = image /\ low' = low /\ lc' = lc
        /\ walked' = walked /\ mappings' = mappings
    BY <1>2 DEF Returns
  <2>2. pc' \in Pcs \ {"copied", "slide", "open"} /\ result' \in Results BY <2>1 DEF Pcs, Results
  <2>3. low \in Word /\ lc \in Word /\ mappings \in 0 .. MaxMappings BY DEF Typed, TypeOK
  <2>4. QED BY <1>1, <2>1, <2>2, <2>3, ClosesTyped
<1>3. ASSUME pc' = "copied", call'.slide = slide,
             UNCHANGED <<cpu, file, image, low, lc, walked, result, mappings>>
      PROVE  Typed'
  <2>1. TypeOK' BY <1>3 DEF Typed, TypeOK, Pcs, Files
  <2>2. ~ Mapped' /\ Holds(pc') = 0 /\ Holds(pc) = 0 BY <1>1, <1>3 DEF Mapped, Holds
  <2>3. HeldInv' BY <1>3, <2>2 DEF Typed, HeldInv
  <2>4. QED BY <1>1, <1>3, <2>1, <2>2, <2>3 DEF Typed, SlideInv, WindowInv, BeginInv
<1>4. ASSUME NEW model, NEW magic,
             call' = [open |-> TRUE, derives |-> derives, slide |-> slide, magic |-> magic,
                      header_size |-> model.value.header_size,
                      length |-> mk_macho_get_sizeofcmds + model.value.header_size]
      PROVE  call'.slide = slide
  BY <1>4
<1>5. QED BY <1>2, <1>3, <1>4 DEF mk_macho_init_with_slide

\* The mapping is as long as what the target has, and the slack, so it does not wrap.
LEMMA MapTyped == ASSUME ImageInv, Typed, MapHeader PROVE Typed'
<1>1. /\ pc = "copied" /\ TargetHas(call.length) /\ mappings < MaxMappings /\ mappings' = mappings + 1
      /\ cpu' = cpu /\ file' = file
  BY DEF MapHeader
<1>2. mappings' \in 0 .. MaxMappings /\ walked = <<>>
  BY <1>1, ImageAssumption DEF Typed, TypeOK, BeginInv
<1>3. low \in Word /\ lc \in Word BY DEF Typed, TypeOK
<1>4. CASE Magic # call.magic
  <2>1. /\ pc' = "closed" /\ result' = "ECLIENT_INVALID_RESULT"
        /\ image' = image /\ low' = low /\ lc' = lc /\ walked' = walked
    BY <1>4 DEF MapHeader, Magic
  <2>2. pc' \in Pcs \ {"copied", "slide", "open"} /\ result' \in Results BY <2>1 DEF Pcs, Results
  <2>3. QED BY <1>1, <1>2, <1>3, <2>1, <2>2, ClosesTyped
<1>5. CASE Magic = call.magic
  <2>1. PICK slack \in Slacks :
          image' = [open |-> TRUE, slide |-> call.slide, header_size |-> call.header_size,
                    header_mapping |-> [target_address |-> LoadAddress, address |-> HeaderAddress,
                                        length |-> call.length + slack]]
    BY <1>5 DEF MapHeader, Magic
  <2>2. /\ pc' \in {"slide", "open"} /\ result' \in {"none", "ESUCCESS"} /\ lc' = NULL /\ walked' = <<>>
        /\ low' \in {0, MaxWord}
    BY <1>5 DEF MapHeader, Magic
  <2> DEFINE length == call.length + slack
  <2>3. length \in Word /\ HeaderAddress + length <= MaxWord /\ LoadAddress + length <= MaxWord
    <3>1. slack \in Nat /\ HeaderAddress \in Nat /\ LoadAddress \in Nat
      BY ImageAssumption, WordAssumption DEF Word
    <3>2. call.length \in Nat BY <1>1 DEF ImageInv, CopyInv
    <3>3. call.length <= Len(Contents[file]) BY <1>1 DEF TargetHas
    <3>4. file \in Files BY DEF ImageInv
    <3>5. Len(Contents[file]) \in Nat BY <3>4, ImageAssumption
    <3>6. /\ HeaderAddress + Len(Contents[file]) + slack <= MaxWord
          /\ LoadAddress + Len(Contents[file]) + slack <= MaxWord
      BY <3>4, ImageAssumption
    <3>7. \A a, b, c, d, m \in Nat : b <= c /\ a + c + d <= m => a + (b + d) <= m /\ b + d \in 0 .. m
      OBVIOUS
    <3>8. MaxWord \in Nat BY WordAssumption
    <3>9. QED BY <3>1, <3>2, <3>3, <3>5, <3>6, <3>7, <3>8 DEF Word
  <2> HIDE DEF length
  <2>4. [target_address |-> LoadAddress, address |-> HeaderAddress, length |-> length] \in mk_memory_object
    BY <2>3, ImageAssumption DEF mk_memory_object
  <2>5. call.slide \in Slide BY <1>1 DEF Typed, SlideInv
  <2> DEFINE made == [open |-> TRUE, slide |-> call.slide, header_size |-> call.header_size,
                      header_mapping |-> [target_address |-> LoadAddress, address |-> HeaderAddress,
                                          length |-> length]]
  <2>6. image' = made BY <2>1 DEF length
  <2>7. /\ {"open", "slide"} \subseteq DOMAIN made /\ made.open /\ made.slide = call.slide
        /\ made.header_mapping =
             [target_address |-> LoadAddress, address |-> HeaderAddress, length |-> length]
        /\ made.header_mapping.length = length /\ made.header_mapping.target_address = LoadAddress
    OBVIOUS
  <2> HIDE DEF made
  <2>8. WindowInv' BY <2>3, <2>4, <2>5, <2>6, <2>7 DEF WindowInv
  <2>9. TypeOK'
    <3>1. image'.open /\ image'.slide \in Slide /\ image'.header_mapping \in mk_memory_object
      BY <2>4, <2>5, <2>6, <2>7
    <3>2. pc' \in Pcs /\ result' \in Results BY <2>2 DEF Pcs, Results
    <3>3. low' \in Word /\ lc' \in Word /\ walked' \in Seq(Word)
      BY <2>2, WordAssumption DEF Word, NULL
    <3>4. cpu' \in Cpus /\ file' \in Files BY <1>1 DEF Typed, TypeOK
    <3>5. QED BY <1>2, <3>1, <3>2, <3>3, <3>4 DEF TypeOK, Files
  <2>10. HeldInv'
    <3>1. mappings \in Nat /\ Holds(pc') = 1 BY <2>2 DEF Typed, TypeOK, Holds
    <3>2. QED BY <1>1, <3>1 DEF HeldInv
  <2>11. QED BY <2>2, <2>8, <2>9, <2>10 DEF Typed, SlideInv, BeginInv
<1>6. QED BY <1>4, <1>5

\* What the loop that derives the slide reads of a segment.
LEMMA SegmentNumbers ==
  ASSUME file \in Files, cpu \in Cpus, NEW command, NEW f \in SlideFields
  PROVE  LET read == getter(mem, command, SegmentClass, f)
         IN  /\ read \in Nat
             /\ read # UINT_MAX(SegmentClass.reads[f]) =>
                  read = FileField(command.mach_load_command, SegmentClass.layout, f)
<1> DEFINE width == SegmentClass.reads[f]
<1>1. width \in 0 .. 8 /\ HasField(SegmentClass.layout, f) /\ Wide(SegmentClass.layout, f, width)
      /\ SegmentClass.otherwise[f] = UINT_MAX(width)
  <2>1. width \in {4, 8} BY SegmentReads
  <2> HIDE DEF width
  <2>2. QED BY <2>1, SegmentReads DEF width
<1>2. UINT_MAX(width) \in Nat
  <2> HIDE DEF width
  <2>1. ByteValues ^ width \in Nat \ {0} BY <1>1, PowerAssumption
  <2>2. QED BY <2>1 DEF UINT_MAX
<1> HIDE DEF width
<1>3. \A p : /\ Read(mem, p, SegmentClass.layout, f, width) = FileField(p, SegmentClass.layout, f)
             /\ FileField(p, SegmentClass.layout, f) \in 0 .. UINT_MAX(width)
  BY <1>1, ReadIsFile
<1>4. getter(mem, command, SegmentClass, f) =
        IF IsA(command, SegmentClass)
        THEN Read(mem, command.mach_load_command, SegmentClass.layout, f, width)
        ELSE UINT_MAX(width)
  BY <1>1 DEF getter, width
<1>5. QED BY <1>2, <1>3, <1>4 DEF width
IsSegment(p) == FileField(p, struct_load_command, "cmd") = LC[SegmentClass.name]
Number(p, f) == FileField(p, SegmentClass.layout, f)
First(p) == ~ IsPageZero(Number(p, "vmaddr"), Number(p, "vmsize"), Number(p, "filesize"))

\* One turn of that loop: a command of another kind, a failure, or a segment with its numbers as
\* the file has them.
LEMMA SlideTurn ==
  ASSUME file \in Files, cpu \in Cpus, SlideStep
  PROVE  LET next == mk_macho_next_command(image, lc, FALSE)
         IN  /\ pc = "slide" /\ next # NULL
             /\ \/ Frees("EDERIVED")
                \/ /\ lc' = next /\ UNCHANGED <<cpu, file, pc, call, image, walked, result, mappings>>
                   /\ \/ ~ IsSegment(next) /\ low' = low
                      \/ /\ IsSegment(next) /\ Number(next, "vmaddr") \in Nat
                         /\ low' = IF First(next) THEN Smaller(Number(next, "vmaddr"), low) ELSE low
<1> DEFINE next == mk_macho_next_command(image, lc, FALSE)
<1>1. pc = "slide" /\ next # NULL BY DEF SlideStep
<1>2. Read(mem, next, struct_load_command, "cmd", 4) = FileField(next, struct_load_command, "cmd")
  BY HeaderIsFile
<1> DEFINE command == mk_load_command_init(mem, image.header_mapping, next)
           Segment(field) == getter(mem, command.value, SegmentClass, field)
<1>3. \/ ~ IsSegment(next) /\ Skip(next)
      \/ Frees("EDERIVED")
      \/ /\ IsSegment(next) /\ Succeeded(command)
         /\ \A f \in SlideFields : Segment(f) # UINT_MAX(SegmentClass.reads[f])
         /\ lc' = next
         /\ low' = IF IsPageZero(Segment("vmaddr"), Segment("vmsize"), Segment("filesize"))
                   THEN low ELSE Smaller(Segment("vmaddr"), low)
         /\ UNCHANGED <<cpu, file, pc, call, image, walked, result, mappings>>
  BY <1>2 DEF SlideStep, IsSegment, SlideFields
<1>4. CASE Frees("EDERIVED") BY <1>1, <1>4
<1>5. CASE ~ IsSegment(next) /\ Skip(next) BY <1>1, <1>5 DEF Skip
<1>6. CASE /\ IsSegment(next) /\ Succeeded(command)
           /\ \A f \in SlideFields : Segment(f) # UINT_MAX(SegmentClass.reads[f])
           /\ lc' = next
           /\ low' = IF IsPageZero(Segment("vmaddr"), Segment("vmsize"), Segment("filesize"))
                     THEN low ELSE Smaller(Segment("vmaddr"), low)
           /\ UNCHANGED <<cpu, file, pc, call, image, walked, result, mappings>>
  <2>1. command.value.mach_load_command = next
    <3> DEFINE classes == ClassOf(Raw(mem, next, struct_load_command, "cmd"))
               opened == {[vtable |-> class, mach_load_command |-> next] : class \in classes}
    <3>1. \A c \in opened : c.mach_load_command = next
      <4> HIDE DEF classes, next
      <4>1. QED OBVIOUS
    <3>2. \/ command = Fails("EINVALID_DATA")
          \/ opened # {} /\ command = Ok(CHOOSE c \in opened : TRUE)
      BY DEF mk_load_command_init
    <3> HIDE DEF opened, command
    <3>3. opened # {} /\ command.value = CHOOSE c \in opened : TRUE
      BY <1>6, <3>2 DEF Succeeded, Ok, Fails
    <3>4. command.value \in opened BY <3>3
    <3>5. QED BY <3>1, <3>4
  <2>2. \A f \in SlideFields : Segment(f) = Number(next, f) /\ Segment(f) \in Nat
    BY <1>6, <2>1, SegmentNumbers DEF Number
  <2>3. {"vmaddr", "vmsize", "filesize"} \subseteq SlideFields BY DEF SlideFields
  <2> HIDE DEF command, Segment, next
  <2>4. /\ Segment("vmaddr") = Number(next, "vmaddr") /\ Segment("vmsize") = Number(next, "vmsize")
        /\ Segment("filesize") = Number(next, "filesize") /\ Number(next, "vmaddr") \in Nat
    BY <2>2, <2>3
  <2>5. low' = IF First(next) THEN Smaller(Number(next, "vmaddr"), low) ELSE low
    BY <1>6, <2>4 DEF First
  <2>6. QED BY <1>1, <1>6, <2>4, <2>5 DEF next
<1>7. QED BY <1>3, <1>4, <1>5, <1>6

\* A step of the loop or of the walk keeps the types.
LEMMA MovesTyped ==
  ASSUME ImageInv, Typed, Mapped, NEW locate, UNCHANGED <<cpu, file, pc, image, mappings, result>>,
         lc' = mk_macho_next_command(image, lc, locate), lc' # NULL,
         low' \in Word, walked' = walked \/ (pc = "open" /\ walked' = Append(walked, lc'))
  PROVE  Typed'
<1>1. lc' \in Word BY NextIsWord
<1>2. walked' \in Seq(Word) BY <1>1 DEF Typed, TypeOK
<1>3. TypeOK' BY <1>1, <1>2 DEF Typed, TypeOK, Files
<1>4. WindowInv' BY DEF Typed, WindowInv, Mapped
<1>5. pc' # "copied" BY DEF Mapped
<1>6. QED BY <1>3, <1>4, <1>5 DEF Typed, SlideInv, HeldInv, BeginInv, Holds

LEMMA TypedStep == ImageInv /\ Typed /\ [Next]_vars => Typed'
<1> SUFFICES ASSUME ImageInv, Typed, [Next]_vars PROVE Typed'
  OBVIOUS
<1>0. file \in Files /\ cpu \in Cpus /\ low \in Word /\ lc \in Word /\ mappings \in 0 .. MaxMappings
  BY DEF Typed, TypeOK
<1>1. CASE Open
  <2>1. Slides \subseteq Slide /\ 0 \in Slide
    BY ImageAssumption, MaxSlideBounds DEF Slide
  <2>2. QED BY <1>1, <2>1, InitTyped DEF Open
<1>2. CASE TargetChanges
  <2>1. /\ pc = "copied" /\ UNCHANGED <<cpu, pc, call, image, low, lc, walked, result, mappings>>
        /\ file' \in Files
    BY <1>2, ImageAssumption DEF TargetChanges
  <2>2. TypeOK' BY <2>1 DEF Typed, TypeOK, Files
  <2>3. ~ Mapped' BY <2>1 DEF Mapped
  <2>4. QED BY <2>1, <2>2, <2>3 DEF Typed, SlideInv, WindowInv, HeldInv, BeginInv, Holds
<1>3. CASE MapFails \/ DropWild
  <2>1. /\ pc \in {"copied", "wild"} /\ pc' \in {"wild", "closed"}
        /\ result' \in {"ESUCCESS", "garbage", "none"}
        /\ UNCHANGED <<cpu, file, image, low, lc, walked, mappings>>
    BY <1>3 DEF MapFails, DropWild
  <2>2. walked' = <<>> BY <2>1 DEF Typed, BeginInv
  <2>3. pc' \in Pcs \ {"copied", "slide", "open"} /\ result' \in Results BY <2>1 DEF Pcs, Results
  <2>4. QED BY <1>0, <2>1, <2>2, <2>3, ClosesTyped
<1>4. CASE MapHeader BY <1>4, MapTyped
<1>5. CASE SlideStep
  <2> DEFINE next == mk_macho_next_command(image, lc, FALSE)
  <2>1. /\ pc = "slide" /\ next # NULL
        /\ \/ Frees("EDERIVED")
           \/ /\ lc' = next /\ UNCHANGED <<cpu, file, pc, call, image, walked, result, mappings>>
              /\ \/ low' = low
                 \/ /\ Number(next, "vmaddr") \in Nat
                    /\ low' = IF First(next) THEN Smaller(Number(next, "vmaddr"), low) ELSE low
    BY <1>0, <1>5, SlideTurn
  <2>2. Mapped BY <2>1 DEF Mapped
  <2>3. CASE Frees("EDERIVED") BY <2>2, <2>3, FreesTyped
  <2>4. CASE ~ Frees("EDERIVED")
    <3>1. \A n \in Nat : Smaller(n, low) \in Word BY <1>0, WordAssumption DEF Smaller, Word
    <3>2. low' \in Word BY <1>0, <2>1, <2>4, <3>1
    <3>3. /\ lc' = mk_macho_next_command(image, lc, FALSE) /\ lc' # NULL
          /\ UNCHANGED <<cpu, file, pc, image, mappings, result>> /\ walked' = walked
      BY <2>1, <2>4
    <3> HIDE DEF next
    <3>4. walked' = walked \/ (pc = "open" /\ walked' = Append(walked, lc')) BY <3>3
    <3>5. QED BY <2>2, <3>2, <3>3, <3>4, MovesTyped, Zenon
  <2>5. QED BY <2>3, <2>4
<1>6. CASE SlideEnds
  <2>1. pc = "slide" /\ Mapped BY <1>6 DEF SlideEnds, Mapped
  <2>2. CASE Frees("EDERIVED") BY <2>1, <2>2, FreesTyped
  <2>3. ASSUME Succeeded(SlideFrom(low)), image' = [image EXCEPT !.slide = SlideFrom(low).value],
               pc' = "open", result' = "ESUCCESS", lc' = NULL,
               UNCHANGED <<cpu, file, call, low, walked, mappings>>
        PROVE  Typed'
    <3>1. SlideFrom(low).value \in Slide
      BY <1>0, <2>3, SignedDifference, ImageAssumption DEF SlideFrom
    <3>2. WindowInv BY DEF Typed
    <3>3. /\ {"open", "slide"} \subseteq DOMAIN image /\ image.open
          /\ image.header_mapping \in mk_memory_object
          /\ image.header_mapping.target_address = LoadAddress
          /\ HeaderAddress + image.header_mapping.length <= MaxWord
          /\ LoadAddress + image.header_mapping.length <= MaxWord
      BY <2>1, <3>2 DEF WindowInv
    <3>4. /\ {"open", "slide"} \subseteq DOMAIN image' /\ image'.open = image.open
          /\ image'.slide = SlideFrom(low).value /\ image'.header_mapping = image.header_mapping
      <4> DEFINE v == SlideFrom(low).value
      <4>1. image' = [image EXCEPT !.slide = v] BY <2>3
      <4> HIDE DEF v
      <4>2. "header_mapping" \in DOMAIN image BY <2>1 DEF ImageInv, MappingInv
      <4>3. /\ {"open", "slide"} \subseteq DOMAIN image' /\ image'.open = image.open
            /\ image'.slide = v /\ image'.header_mapping = image.header_mapping
        BY <3>3, <4>1, <4>2
      <4>4. QED BY <4>3 DEF v
    <3>5. WindowInv' BY <3>1, <3>3, <3>4 DEF WindowInv
    <3>6. TypeOK'
      <4>1. image'.open /\ image'.slide \in Slide /\ image'.header_mapping \in mk_memory_object
        BY <3>1, <3>3, <3>4
      <4>2. pc' \in Pcs /\ result' \in Results /\ lc' \in Word
        BY <2>3, WordAssumption DEF Pcs, Results, Word, NULL
      <4>3. walked' \in Seq(Word) /\ cpu' \in Cpus /\ file' \in Files /\ low' \in Word
            /\ mappings' \in 0 .. MaxMappings
        BY <2>3 DEF Typed, TypeOK
      <4>4. QED BY <4>1, <4>2, <4>3 DEF TypeOK, Files
    <3>7. HeldInv' BY <2>1, <2>3 DEF Typed, HeldInv, Holds
    <3>8. QED BY <2>3, <3>5, <3>6, <3>7 DEF Typed, SlideInv, BeginInv
  <2>4. QED BY <1>6, <2>2, <2>3 DEF SlideEnds
<1>7. CASE mk_macho_free BY <1>7, FreesTyped DEF mk_macho_free, Mapped
<1>8. CASE NextCommand
  <2>1. /\ Mapped /\ lc' = mk_macho_next_command(image, lc, TRUE) /\ lc' # NULL
        /\ pc = "open" /\ walked' = Append(walked, lc')
        /\ UNCHANGED <<cpu, file, pc, image, low, mappings, result>>
    BY <1>8 DEF NextCommand, Mapped
  <2>2. low' \in Word BY <1>0, <2>1
  <2>3. QED BY <2>1, <2>2, MovesTyped
<1>9. CASE UNCHANGED vars
  <2>1. UNCHANGED <<cpu, file, pc, call, image, low, lc, walked, result, mappings>> BY <1>9 DEF vars
  <2>2. QED BY <2>1 DEF Typed, TypeOK, SlideInv, WindowInv, HeldInv, BeginInv, Mapped, Files
<1>10. QED
  BY <1>1, <1>2, <1>3, <1>4, <1>5, <1>6, <1>7, <1>8, <1>9 DEF Next

LEMMA AlwaysTyped == Spec => [](ImageInv /\ Typed)
  BY ImageInit, ImageStep, TypedInit, TypedStep, PTL DEF Spec

\* The state of an image has its type, whatever the target holds: in particular every command the
\* walk comes to has an address, a derived slide is a signed word, and no mapping is freed that is
\* not there.
THEOREM TypeCorrect == Spec => []TypeOK
<1>1. Typed => TypeOK BY DEF Typed
<1>2. QED BY <1>1, AlwaysTyped, PTL
----------------------------------------------------------------------------
(* Where the loop and the walk stand.                                      *)

\* The n-th command is one the slide is derived from, and `lowest' is the least address of those
\* among the first n, or the largest word when there is none.
IsFirst(n) == IsSegment(Listed[n]) /\ First(Listed[n])
Lowest(n, lowest) ==
  /\ \A i \in 0 .. n - 1 : IsFirst(i) => /\ Number(Listed[i], "vmaddr") \in Nat
                                         /\ lowest <= Number(Listed[i], "vmaddr")
  /\ lowest = MaxWord \/ \E i \in 0 .. n - 1 : IsFirst(i) /\ Number(Listed[i], "vmaddr") = lowest

\* In an image whose header adds up the walk has visited the first commands, and the loop has
\* looked at them; when the loop is over, it has looked at all of them.
Walked ==
  pc = "open" /\ Whole =>
    /\ Len(walked) \in 0 .. Count /\ lc = Position(Len(walked))
    /\ \A i \in 1 .. Len(walked) : walked[i] = Listed[i - 1]
Sliding ==
  pc = "slide" /\ Whole => \E n \in 0 .. Count : lc = Position(n) /\ Lowest(n, low)
Slid ==
  pc = "open" /\ call.derives /\ Whole =>
    Lowest(Count, low) /\ low # MaxWord /\ image.slide = LoadAddress - low

Placed == Walked /\ Sliding /\ Slid

\* While neither the host nor the file changes, what the file says does not.
LEMMA SameFile ==
  ASSUME UNCHANGED <<cpu, file>>
  PROVE  /\ Listed' = Listed /\ Count' = Count /\ (WellFormed' <=> WellFormed)
         /\ \A n : (Position(n)' = Position(n)) /\ (IsFirst(n)' <=> IsFirst(n))
         /\ \A p, f : Number(p, f)' = Number(p, f)
         /\ FileHeader("sizeofcmds")' = FileHeader("sizeofcmds")
<1>1. mem' = mem /\ file' = file BY SameMemory
<1>2. \A p, layout, f : FileField(p, layout, f)' = FileField(p, layout, f)
  BY <1>1 DEF FileField, FileWord
<1>3. \A f : FileHeader(f)' = FileHeader(f) BY <1>2 DEF FileHeader
<1>4. \A p : FileSize(p)' = FileSize(p) BY <1>2 DEF FileSize
<1>5. FileHeaderSize' = FileHeaderSize BY <1>3 DEF FileHeaderSize
<1>6. Listed' = Listed BY <1>4, <1>5 DEF Listed
<1>7. Count' = Count BY <1>3 DEF Count
<1>8. WellFormed' <=> WellFormed BY <1>1, <1>3, <1>4, <1>5, <1>6 DEF WellFormed
<1>9. SegmentClass' = SegmentClass
  BY <1>1 DEF SegmentClass, mk_macho_is_64_bit, HeaderField
<1>10. \A p : IsSegment(p)' <=> IsSegment(p) BY <1>2, <1>9 DEF IsSegment
<1>11. \A p, f : Number(p, f)' = Number(p, f) BY <1>2, <1>9 DEF Number
<1>12. \A p : First(p)' <=> First(p) BY <1>11 DEF First
<1>13. \A n : IsFirst(n)' <=> IsFirst(n) BY <1>6, <1>10, <1>12 DEF IsFirst
<1>14. \A n : Position(n)' = Position(n) BY <1>6 DEF Position
<1>15. QED BY <1>3, <1>6, <1>7, <1>8, <1>11, <1>13, <1>14

\* Nor does it matter that the slide of the image is set.
LEMMA SameWhole ==
  ASSUME UNCHANGED <<cpu, file>>, image'.header_mapping = image.header_mapping,
         image'.header_size = image.header_size
  PROVE  Whole' <=> Whole
  BY SameFile DEF Whole

\* The numbers of commands are those of the walk.
LEMMA NextListed ==
  ASSUME ImageInv, Typed, Mapped, Whole, NEW n \in 0 .. Count, lc = Position(n),
         NEW locate \in BOOLEAN
  PROVE  /\ n < Count => mk_macho_next_command(image, lc, locate) = Listed[n]
         /\ n = Count => mk_macho_next_command(image, lc, locate) = NULL
         /\ n < Count => Listed[n] # NULL
<1>1. file \in Files /\ cpu \in Cpus BY DEF Typed, TypeOK
<1>2. /\ image.header_mapping.address = HeaderAddress /\ image.header_mapping.length \in Nat
      /\ image.header_size = ModelOf(Magic).value.header_size
  BY DEF ImageInv, MappingInv
<1>3. FileHeader("magic") \in {MH_MAGIC, MH_MAGIC_64} BY DEF Whole, WellFormed
<1>4. image.header_size = FileHeaderSize BY <1>1, <1>2, <1>3, MagicIsFile
<1>5. HeaderAddress + image.header_mapping.length <= MaxWord BY DEF Typed, WindowInv
<1>6. QED BY <1>1, <1>2, <1>4, <1>5, NextIsListed

\* How many commands there are is a number.
LEMMA CountType == ASSUME Typed, Whole PROVE Count \in Nat
<1>1. file \in Files /\ cpu \in Cpus /\ WellFormed BY DEF Typed, TypeOK, Whole
<1>2. Count \in 0 .. UINT_MAX(4) BY <1>1, CommandsFollow
<1>3. QED BY <1>2

\* The next command is the one after those that were looked at.
LEMMA LowestGrows ==
  ASSUME NEW n \in Nat, NEW lowest \in Word, NEW next, Lowest(n, lowest),
         \/ ~ IsFirst(n) /\ next = lowest
         \/ /\ IsFirst(n) /\ Number(Listed[n], "vmaddr") \in Nat
            /\ next = Smaller(Number(Listed[n], "vmaddr"), lowest)
  PROVE  Lowest(n + 1, next)
<1> DEFINE v(i) == Number(Listed[i], "vmaddr")
           F(i) == IsFirst(i)
<1>1. lowest \in Nat BY WordAssumption DEF Word
<1>2. /\ \A i \in 0 .. n - 1 : F(i) => v(i) \in Nat /\ lowest <= v(i)
      /\ lowest = MaxWord \/ \E i \in 0 .. n - 1 : F(i) /\ v(i) = lowest
  BY DEF Lowest
<1>3. \/ ~ F(n) /\ next = lowest
      \/ F(n) /\ v(n) \in Nat /\ next = Smaller(v(n), lowest)
  OBVIOUS
<1> HIDE DEF v, F
<1>4. n \in 0 .. n /\ (\A i \in 0 .. n : i = n \/ i \in 0 .. n - 1) /\ 0 .. n - 1 \subseteq 0 .. n
      /\ n + 1 - 1 = n
  OBVIOUS
<1>5. next <= lowest /\ next \in Nat /\ (F(n) => next <= v(n) /\ v(n) \in Nat)
      /\ (next = lowest \/ (F(n) /\ v(n) = next))
  BY <1>1, <1>3 DEF Smaller
<1>6. \A i \in 0 .. n : F(i) => v(i) \in Nat /\ next <= v(i)
  <2>1. \A i \in 0 .. n - 1 : F(i) => v(i) \in Nat /\ next <= v(i) BY <1>1, <1>2, <1>5
  <2>2. QED BY <1>4, <1>5, <2>1
<1>7. next = MaxWord \/ \E i \in 0 .. n : F(i) /\ v(i) = next BY <1>2, <1>4, <1>5
<1>8. QED BY <1>4, <1>6, <1>7 DEF Lowest, v, F

LEMMA PlacedInit == Init => Placed
  BY DEF Init, Placed, Walked, Sliding, Slid

\* What leaves no image mapped says nothing of it.
LEMMA ClosedPlaced == ASSUME pc' \notin {"slide", "open"} PROVE Placed'
  BY DEF Placed, Walked, Sliding, Slid

\* A new image is at its beginning.
LEMMA MapPlaced == ASSUME ImageInv, Typed, MapHeader PROVE Placed'
<1>1. CASE Magic # call.magic
  <2>1. pc' = "closed" BY <1>1 DEF MapHeader, Magic
  <2>2. QED BY <2>1, ClosedPlaced
<1>2. CASE Magic = call.magic
  <2>1. /\ pc' = (IF call.derives THEN "slide" ELSE "open") /\ call' = call
        /\ low' = (IF call.derives THEN MaxWord ELSE 0) /\ lc' = NULL /\ walked' = <<>>
    BY <1>2 DEF MapHeader, Magic
  <2>2. Typed' BY MapTyped
  <2>3. ASSUME Whole' PROVE Count' \in Nat
    <3>1. file' \in Files /\ cpu' \in Cpus BY <2>2 DEF Typed, TypeOK, Files
    <3>2. file \in Files /\ cpu \in Cpus /\ UNCHANGED <<cpu, file>>
      BY <3>1, <1>2 DEF MapHeader, Magic, ImageInv, Typed, TypeOK
    <3>3. WellFormed BY <2>3, <3>2, SameFile DEF Whole
    <3>4. Count \in 0 .. UINT_MAX(4) BY <3>2, <3>3, CommandsFollow
    <3>5. QED BY <3>2, <3>4, SameFile
  <2>4. Position(0)' = NULL BY DEF Position
  <2>5. ASSUME Whole' PROVE Walked'
    <3>1. Len(walked') = 0 BY <2>1
    <3>2. 0 \in 0 .. Count' BY <2>3, <2>5
    <3>3. QED BY <2>1, <2>4, <3>1, <3>2 DEF Walked, Position
  <2>6. ASSUME pc' = "slide", Whole' PROVE Sliding'
    <3>1. low' = MaxWord BY <2>1, <2>6
    <3>2. 0 \in 0 .. Count' BY <2>3, <2>6
    <3>3. Lowest(0, low)' BY <3>1 DEF Lowest
    <3>4. QED BY <2>1, <2>4, <3>2, <3>3 DEF Sliding
  <2>7. Slid' BY <2>1 DEF Slid
  <2>8. QED BY <2>5, <2>6, <2>7 DEF Placed, Walked, Sliding
<1>3. QED BY <1>1, <1>2

\* A turn of the loop looks at one command more.
LEMMA SlidePlaced == ASSUME ImageInv, Typed, Placed, SlideStep PROVE Placed'
<1> DEFINE next == mk_macho_next_command(image, lc, FALSE)
<1>0. file \in Files /\ cpu \in Cpus /\ low \in Word BY DEF Typed, TypeOK
<1>1. /\ pc = "slide" /\ next # NULL
      /\ \/ Frees("EDERIVED")
         \/ /\ lc' = next /\ UNCHANGED <<cpu, file, pc, call, image, walked, result, mappings>>
            /\ \/ ~ IsSegment(next) /\ low' = low
               \/ /\ IsSegment(next) /\ Number(next, "vmaddr") \in Nat
                  /\ low' = IF First(next) THEN Smaller(Number(next, "vmaddr"), low) ELSE low
  BY <1>0, SlideTurn
<1>2. CASE Frees("EDERIVED")
  <2>1. pc' = "closed" BY <1>2 DEF Frees
  <2>2. QED BY <2>1, ClosedPlaced
<1>3. CASE ~ Frees("EDERIVED")
  <2>1. UNCHANGED <<cpu, file, pc, call, image>> /\ lc' = next /\ pc' = "slide" BY <1>1, <1>3
  <2>2. SUFFICES ASSUME Whole' PROVE Sliding' BY <2>1 DEF Placed, Walked, Sliding, Slid
  <2>3. Whole BY <2>1, <2>2, SameWhole
  <2>4. PICK n \in 0 .. Count : lc = Position(n) /\ Lowest(n, low)
    BY <1>1, <2>3 DEF Placed, Sliding
  <2>5. Count \in Nat BY <2>3, CountType
  <2>6. /\ n < Count => next = Listed[n]
        /\ n = Count => next = NULL
    <3>1. Mapped /\ FALSE \in BOOLEAN BY <1>1 DEF Mapped
    <3>2. QED BY <2>3, <2>4, <3>1, NextListed
  <2> HIDE DEF next
  <2>7. n < Count /\ next = Listed[n]
    <3>1. next # NULL BY <1>1
    <3>2. n \in 0 .. Count BY <2>4
    <3>3. QED BY <2>5, <2>6, <3>1, <3>2
  <2>8. n \in Nat /\ n + 1 \in 0 .. Count /\ n + 1 - 1 = n /\ n + 1 # 0 BY <2>5, <2>7
  <2>9. \/ ~ IsFirst(n) /\ low' = low
        \/ /\ IsFirst(n) /\ Number(Listed[n], "vmaddr") \in Nat
           /\ low' = Smaller(Number(Listed[n], "vmaddr"), low)
    BY <1>1, <1>3, <2>7 DEF IsFirst
  <2>10. Lowest(n + 1, low') BY <1>0, <2>4, <2>8, <2>9, LowestGrows
  <2>11. lc' = Position(n + 1) BY <2>1, <2>7, <2>8 DEF Position
  <2>12. n + 1 \in 0 .. Count' /\ lc' = Position(n + 1)' /\ Lowest(n + 1, low)'
    <3>1. Count' = Count /\ Position(n + 1)' = Position(n + 1) BY <2>1, SameFile
    <3>2. Lowest(n + 1, low)'
      <4>1. Listed' = Listed /\ (\A i : IsFirst(i)' <=> IsFirst(i)) BY <2>1, SameFile
      <4>2. \A p, f : Number(p, f)' = Number(p, f) BY <2>1, SameFile
      <4>3. QED BY <2>10, <4>1, <4>2 DEF Lowest
    <3>3. QED BY <2>8, <2>11, <3>1, <3>2
  <2>13. QED BY <2>12 DEF Sliding
<1>4. QED BY <1>2, <1>3

\* The loop ends behind the last command.
LEMMA EndsPlaced == ASSUME ImageInv, Typed, Placed, SlideEnds PROVE Placed'
<1>0. low \in Word BY DEF Typed, TypeOK
<1>1. pc = "slide" /\ mk_macho_next_command(image, lc, FALSE) = NULL BY DEF SlideEnds
<1>2. CASE Frees("EDERIVED")
  <2>1. pc' = "closed" BY <1>2 DEF Frees
  <2>2. QED BY <2>1, ClosedPlaced
<1>3. CASE ~ Frees("EDERIVED")
  <2> DEFINE v == SlideFrom(low).value
  <2>1. /\ Succeeded(SlideFrom(low)) /\ image' = [image EXCEPT !.slide = v]
        /\ pc' = "open" /\ lc' = NULL /\ UNCHANGED <<cpu, file, call, low, walked>>
    BY <1>3 DEF SlideEnds
  <2>2. /\ v = LoadAddress - low /\ low # MaxWord
    <3>1. SlideFrom(low) = Ok(LoadAddress - low) /\ ~ (low > MaxSlide)
      BY <2>1 DEF SlideFrom, mk_vm_address_difference, Succeeded, Ok, Fails
    <3>2. v = LoadAddress - low BY <3>1 DEF Ok
    <3>3. MaxWord > MaxSlide BY MaxSlideBounds
    <3>4. QED BY <3>1, <3>2, <3>3
  <2> HIDE DEF v
  <2>3. Mapped BY <1>1 DEF Mapped
  <2>4. {"header_size", "header_mapping", "slide"} \subseteq DOMAIN image
    BY <2>3 DEF ImageInv, MappingInv, Typed, WindowInv
  <2>5. /\ image'.header_size = image.header_size /\ image'.header_mapping = image.header_mapping
        /\ image'.slide = v
    BY <2>1, <2>4
  <2>6. walked' = <<>> BY <1>1, <2>1 DEF Typed, BeginInv
  <2>7. SUFFICES ASSUME Whole' PROVE Walked' /\ Slid'
    BY <2>1 DEF Placed, Walked, Sliding, Slid
  <2>8. Whole BY <2>1, <2>5, <2>7, SameWhole
  <2>9. PICK n \in 0 .. Count : lc = Position(n) /\ Lowest(n, low)
    BY <1>1, <2>8 DEF Placed, Sliding
  <2>10. Count \in Nat BY <2>8, CountType
  <2>11. n = Count
    <3> DEFINE next == mk_macho_next_command(image, lc, FALSE)
    <3>1. FALSE \in BOOLEAN OBVIOUS
    <3>2. (n < Count => next = Listed[n]) /\ (n < Count => Listed[n] # NULL)
      BY <2>3, <2>8, <2>9, <3>1, NextListed
    <3>3. next = NULL BY <1>1
    <3> HIDE DEF next
    <3>4. n \in 0 .. Count BY <2>9
    <3>5. QED BY <2>10, <3>2, <3>3, <3>4
  <2>12. Lowest(Count, low)'
    <3>1. Count' = Count /\ Listed' = Listed /\ (\A i : IsFirst(i)' <=> IsFirst(i))
          /\ \A p, f : Number(p, f)' = Number(p, f)
      BY <2>1, SameFile
    <3>2. Lowest(Count, low) BY <2>9, <2>11
    <3>3. QED BY <2>1, <3>1, <3>2 DEF Lowest
  <2>13. Slid' BY <2>1, <2>2, <2>5, <2>12 DEF Slid
  <2>14. Walked'
    <3>1. Count' \in Nat BY <2>1, <2>10, SameFile
    <3>2. Len(walked') = 0 /\ 0 \in 0 .. Count' BY <2>6, <3>1
    <3>3. lc' = Position(0)' BY <2>1 DEF Position
    <3>4. QED BY <3>2, <3>3 DEF Walked, Position
  <2>15. QED BY <2>13, <2>14
<1>4. QED BY <1>2, <1>3

\* A call of the walk visits one command more.
LEMMA WalkPlaced == ASSUME ImageInv, Typed, Placed, NextCommand PROVE Placed'
<1> DEFINE next == mk_macho_next_command(image, lc, TRUE)
           n == Len(walked)
<1>1. /\ pc = "open" /\ pc' = pc /\ next # NULL /\ lc' = next /\ walked' = Append(walked, next)
      /\ UNCHANGED <<cpu, file, call, image, low>>
  BY Zenon DEF NextCommand
<1>2. SUFFICES ASSUME Whole' PROVE Walked' /\ Slid'
  BY <1>1 DEF Placed, Walked, Sliding, Slid
<1>3. Whole /\ Mapped BY <1>1, <1>2, SameWhole DEF Mapped
<1>4. /\ n \in 0 .. Count /\ lc = Position(n)
      /\ \A i \in 1 .. n : walked[i] = Listed[i - 1]
  BY <1>1, <1>3 DEF Placed, Walked
<1>5. Count \in Nat BY <1>3, CountType
<1>6. walked \in Seq(Word) BY DEF Typed, TypeOK
<1>7. n < Count /\ next = Listed[n]
  <2>1. TRUE \in BOOLEAN OBVIOUS
  <2> HIDE DEF n
  <2>2. (n < Count => next = Listed[n]) /\ (n = Count => next = NULL)
    BY <1>3, <1>4, <2>1, NextListed
  <2> HIDE DEF next
  <2>3. QED BY <1>1, <1>4, <1>5, <2>2
<1> HIDE DEF next
<1>8. Len(walked') = n + 1 /\ (\A i \in 1 .. n : walked'[i] = walked[i]) /\ walked'[n + 1] = next
  BY <1>1, <1>6
<1> HIDE DEF n
<1>9. n \in Nat /\ n + 1 \in 0 .. Count /\ n + 1 - 1 = n /\ n + 1 # 0
      /\ \A i \in 1 .. n + 1 : i \in 1 .. n \/ i = n + 1
  BY <1>4, <1>5, <1>7
<1>10. \A i \in 1 .. n + 1 : walked'[i] = Listed[i - 1] BY <1>4, <1>7, <1>8, <1>9
<1>11. /\ Count' = Count /\ Listed' = Listed
       /\ \A i : Position(i)' = Position(i)
       /\ \A i : IsFirst(i)' <=> IsFirst(i)
       /\ \A p, f : Number(p, f)' = Number(p, f)
  <2>1. UNCHANGED <<cpu, file>> BY <1>1
  <2>2. QED BY <2>1, SameFile, Zenon
<1>12. Walked'
  <2>1. lc' = Listed'[Len(walked') - 1] /\ Len(walked') # 0 BY <1>1, <1>7, <1>8, <1>9, <1>11
  <2>2. lc' = Position(Len(walked))' BY <2>1 DEF Position
  <2>3. QED BY <1>8, <1>9, <1>10, <1>11, <2>2 DEF Walked
<1>13. Slid'
  <2>1. SUFFICES ASSUME call'.derives PROVE Lowest(Count, low)' /\ low' # MaxWord
                                           /\ image'.slide = LoadAddress - low'
    BY DEF Slid
  <2>2. Lowest(Count, low) /\ low # MaxWord /\ image.slide = LoadAddress - low
    BY <1>1, <1>3, <2>1 DEF Placed, Slid
  <2>3. Lowest(Count, low)' BY <1>1, <1>11, <2>2 DEF Lowest
  <2>4. QED BY <1>1, <2>2, <2>3
<1>14. QED BY <1>12, <1>13

LEMMA PlacedStep == ImageInv /\ Typed /\ Placed /\ [Next]_vars => Placed'
<1> SUFFICES ASSUME ImageInv, Typed, Placed, [Next]_vars PROVE Placed'
  OBVIOUS
<1>1. CASE Open
  <2>1. pc' \in {"closed", "copied"} BY <1>1 DEF Open, mk_macho_init_with_slide, Returns
  <2>2. QED BY <2>1, ClosedPlaced
<1>2. CASE TargetChanges \/ MapFails \/ DropWild \/ mk_macho_free
  <2>1. pc' \in {"closed", "copied", "wild"}
    BY <1>2 DEF TargetChanges, MapFails, DropWild, mk_macho_free, Frees
  <2>2. QED BY <2>1, ClosedPlaced
<1>3. CASE MapHeader BY <1>3, MapPlaced
<1>4. CASE SlideStep BY <1>4, SlidePlaced
<1>5. CASE SlideEnds BY <1>5, EndsPlaced
<1>6. CASE NextCommand BY <1>6, WalkPlaced
<1>7. CASE UNCHANGED vars
  <2>1. UNCHANGED <<cpu, file, pc, call, image, low, lc, walked>> BY <1>7 DEF vars
  <2>2. Count' = Count /\ Listed' = Listed /\ (\A i : IsFirst(i)' <=> IsFirst(i))
        /\ (\A p, f : Number(p, f)' = Number(p, f)) /\ (\A i : Position(i)' = Position(i))
    BY <2>1, SameFile
  <2>3. Whole' <=> Whole BY <2>1, SameWhole
  <2>4. Walked' BY <2>1, <2>2, <2>3 DEF Placed, Walked, Position
  <2>5. \A n : Lowest(n, low)' <=> Lowest(n, low) BY <2>1, <2>2 DEF Lowest
  <2>6. Slid'
    <3>1. Lowest(Count, low)' <=> Lowest(Count, low) BY <2>1, <2>2 DEF Lowest
    <3>2. QED BY <2>1, <2>3, <3>1 DEF Placed, Slid
  <2>7. Sliding' BY <2>1, <2>2, <2>3, <2>5 DEF Placed, Sliding
  <2>8. QED BY <2>4, <2>6, <2>7 DEF Placed
<1>8. QED BY <1>1, <1>2, <1>3, <1>4, <1>5, <1>6, <1>7 DEF Next

LEMMA AlwaysPlaced == Spec => [](ImageInv /\ Typed /\ Placed)
  BY ImageInit, ImageStep, TypedInit, TypedStep, PlacedInit, PlacedStep, PTL DEF Spec

\* The walk of an image whose header adds up visits every command once, in order, and nothing
\* else, on either kind of host, wherever the commands lie and however long they are.
\* (macho_image.c:305-368)
THEOREM WalkCompletes == Spec => []WalkIsComplete
<1>1. ASSUME ImageInv, Typed, Placed PROVE WalkIsComplete
  <2> DEFINE next == mk_macho_next_command(image, lc, TRUE)
             n == Len(walked)
  <2>1. SUFFICES ASSUME pc = "open", Whole
                 PROVE  /\ IsPrefix(walked, FileCommands)
                        /\ next = NULL => walked = FileCommands
    BY DEF WalkIsComplete
  <2>2. n \in 0 .. Count /\ lc = Position(n) /\ \A i \in 1 .. n : walked[i] = Listed[i - 1]
    BY <1>1, <2>1 DEF Placed, Walked
  <2>3. Count \in Nat BY <1>1, <2>1, CountType
  <2>4. walked \in Seq(Word) BY <1>1 DEF Typed, TypeOK
  <2>5. FileCommands = [i \in 1 .. Count |-> Listed[i - 1]] BY DEF FileCommands, Count
  <2>6. walked = [i \in 1 .. n |-> Listed[i - 1]]
    <3>1. walked = [i \in 1 .. n |-> walked[i]] BY <2>4
    <3>2. QED BY <2>2, <3>1
  <2>7. IsPrefix(walked, FileCommands)
    <3>1. Len(FileCommands) = Count BY <2>3, <2>5
    <3>2. n <= Count /\ n \in Nat BY <2>2
    <3> HIDE DEF n
    <3>3. SubSeq(walked, 1, n) = [i \in 1 .. n |-> Listed[i - 1]] BY <2>6, <3>2
    <3>4. SubSeq(FileCommands, 1, n) = [i \in 1 .. n |-> Listed[i - 1]] BY <2>3, <2>5, <3>1, <3>2
    <3>5. QED BY <3>1, <3>2, <3>3, <3>4 DEF IsPrefix, n
  <2>8. next = NULL => n = Count
    <3>1. TRUE \in BOOLEAN /\ Mapped BY <2>1 DEF Mapped
    <3>2. (n < Count => next = Listed[n]) /\ (n < Count => Listed[n] # NULL)
      BY <1>1, <2>1, <2>2, <3>1, NextListed
    <3> HIDE DEF next, n
    <3>3. QED BY <2>2, <2>3, <3>2
  <2>9. QED BY <2>5, <2>6, <2>7, <2>8
<1>2. QED BY <1>1, AlwaysPlaced, PTL

\* The slide that was derived from an image whose header adds up takes its lowest segment, and
\* no other, to the load address; nothing is derived when there is no segment in the file, which
\* the loop finds out by the address it began with.  (macho_image.c:153-216)
THEOREM SlideDerived == Spec => []SlideMovesImage
<1>1. ASSUME ImageInv, Typed, Placed PROVE SlideMovesImage
  <2>1. SUFFICES ASSUME pc = "open", call.derives, Whole
                 PROVE  /\ \E p \in FirstSegments : Number(p, "vmaddr") + image.slide = LoadAddress
                        /\ \A p \in FirstSegments : Number(p, "vmaddr") + image.slide >= LoadAddress
    BY DEF SlideMovesImage, Number
  <2>2. Lowest(Count, low) /\ low # MaxWord /\ image.slide = LoadAddress - low
    BY <1>1, <2>1 DEF Placed, Slid
  <2>3. Count \in Nat BY <1>1, <2>1, CountType
  <2>4. low \in Nat /\ LoadAddress \in Nat
    BY <1>1, ImageAssumption, WordAssumption DEF Typed, TypeOK, Word
  <2>5. \A p : p \in FirstSegments <=> \E n \in 0 .. Count - 1 : p = Listed[n] /\ IsFirst(n)
    <3> DEFINE listed == {FileCommands[i] : i \in DOMAIN FileCommands}
    <3>1. FileCommands = [i \in 1 .. Count |-> Listed[i - 1]] BY DEF FileCommands, Count
    <3>2. \A p : p \in listed <=> \E n \in 0 .. Count - 1 : p = Listed[n]
      <4>1. DOMAIN FileCommands = 1 .. Count /\ \A i \in 1 .. Count : FileCommands[i] = Listed[i - 1]
        BY <3>1
      <4>2. \A n \in 0 .. Count - 1 : n + 1 \in 1 .. Count /\ n + 1 - 1 = n BY <2>3
      <4>3. \A i \in 1 .. Count : i - 1 \in 0 .. Count - 1 BY <2>3
      <4>4. \A n \in 0 .. Count - 1 : Listed[n] = FileCommands[n + 1] BY <4>1, <4>2
      <4>5. QED BY <4>1, <4>2, <4>3, <4>4
    <3>3. \A p : p \in Segments <=> p \in listed /\ IsSegment(p) BY DEF Segments, IsSegment
    <3> HIDE DEF listed
    <3>4. \A p : p \in FirstSegments <=> p \in Segments /\ First(p)
      BY DEF FirstSegments, First, Number, IsPageZero
    <3>5. QED BY <3>2, <3>3, <3>4 DEF IsFirst
  <2>6. \E n \in 0 .. Count - 1 : IsFirst(n) /\ Number(Listed[n], "vmaddr") = low
    BY <2>2 DEF Lowest
  <2>7. \A n \in 0 .. Count - 1 : IsFirst(n) => /\ Number(Listed[n], "vmaddr") \in Nat
                                                /\ low <= Number(Listed[n], "vmaddr")
    BY <2>2 DEF Lowest
  <2>8. \A v \in Nat : low <= v => v + image.slide >= LoadAddress BY <2>2, <2>4
  <2>9. low + image.slide = LoadAddress BY <2>2, <2>4
  <2>10. QED BY <2>5, <2>6, <2>7, <2>8, <2>9
<1>2. QED BY <1>1, AlwaysPlaced, PTL

----------------------------------------------------------------------------
(* The structures the classes read.                                        *)

\* What a structure is made of: the names of its numbers of four and of eight bytes, and of the
\* rest.
Laid(layout, words, quads, others) ==
  /\ layout \in Seq((words \union quads \union others) \X Nat)
  /\ \A i \in DOMAIN layout : \/ layout[i][1] \in words /\ layout[i][2] = 4
                              \/ layout[i][1] \in quads /\ layout[i][2] = 8
                              \/ layout[i][1] \in others
  /\ \A f \in words \union quads : HasField(layout, f)

LEMMA LaidJoin ==
  ASSUME NEW s, NEW w, NEW q, NEW o, Laid(s, w, q, o),
         NEW t, NEW x, NEW r, NEW p, Laid(t, x, r, p)
  PROVE  Laid(s \o t, w \union x, q \union r, o \union p)
<1> DEFINE u == s \o t
           m == Len(s)
           n == Len(t)
           S == ((w \union x) \union (q \union r) \union (o \union p)) \X Nat
<1>1. s \in Seq(S) /\ t \in Seq(S)
  <2>1. (w \union q \union o) \X Nat \subseteq S /\ (x \union r \union p) \X Nat \subseteq S OBVIOUS
  <2> HIDE DEF S
  <2>2. QED BY <2>1 DEF Laid
<1> HIDE DEF S
<1>2. /\ u \in Seq(S) /\ m \in Nat /\ n \in Nat /\ Len(u) = m + n
      /\ DOMAIN s = 1 .. m /\ DOMAIN t = 1 .. n /\ DOMAIN u = 1 .. m + n
  BY <1>1
<1>3. \A i \in 1 .. m + n : u[i] = IF i <= m THEN s[i] ELSE t[i - m] BY <1>1, ConcatProperties
<1> HIDE DEF u, m, n
<1>4. \A i \in DOMAIN u : (\E j \in DOMAIN s : u[i] = s[j]) \/ (\E j \in DOMAIN t : u[i] = t[j])
  <2> SUFFICES ASSUME NEW i \in DOMAIN u
               PROVE  (\E j \in DOMAIN s : u[i] = s[j]) \/ (\E j \in DOMAIN t : u[i] = t[j])
    OBVIOUS
  <2>1. CASE i <= m BY <1>2, <1>3, <2>1
  <2>2. CASE i > m
    <3>1. i - m \in DOMAIN t /\ u[i] = t[i - m] BY <1>2, <1>3, <2>2
    <3>2. QED BY <3>1
  <2>3. QED BY <1>2, <2>1, <2>2
<1>5. \A j \in DOMAIN s : \E i \in DOMAIN u : u[i] = s[j]
  <2>1. \A j \in DOMAIN s : j \in DOMAIN u /\ u[j] = s[j] BY <1>2, <1>3
  <2>2. QED BY <2>1
<1>6. \A j \in DOMAIN t : \E i \in DOMAIN u : u[i] = t[j]
  <2>1. \A j \in DOMAIN t : m + j \in DOMAIN u /\ u[m + j] = t[j]
    <3> SUFFICES ASSUME NEW j \in DOMAIN t PROVE m + j \in DOMAIN u /\ u[m + j] = t[j] OBVIOUS
    <3>1. m + j \in 1 .. m + n /\ ~ (m + j <= m) /\ m + j - m = j BY <1>2
    <3>2. QED BY <1>2, <1>3, <3>1
  <2>2. QED BY <2>1
<1>7. \A i \in DOMAIN u : \/ u[i][1] \in w \union x /\ u[i][2] = 4
                          \/ u[i][1] \in q \union r /\ u[i][2] = 8
                          \/ u[i][1] \in o \union p
  BY <1>4 DEF Laid
<1>8. \A f \in (w \union x) \union (q \union r) : HasField(u, f)
  BY <1>5, <1>6 DEF Laid, HasField
<1>9. QED BY <1>2, <1>7, <1>8 DEF Laid, S, u

LEMMA LaidNames ==
  ASSUME NEW S, NEW names \in Seq(S), \A f \in S : \E i \in 1 .. Len(names) : names[i] = f
  PROVE  Laid(Words(names), S, {}, {}) /\ Laid(Quads(names), {}, S, {})
<1> DEFINE T == S \X Nat
<1>1. Words(names) = [i \in 1 .. Len(names) |-> <<names[i], 4>>] BY DEF Words
<1>2. Quads(names) = [i \in 1 .. Len(names) |-> <<names[i], 8>>] BY DEF Quads
<1>3. \A i \in 1 .. Len(names) : <<names[i], 4>> \in T /\ <<names[i], 8>> \in T
  <2>1. \A i \in 1 .. Len(names) : names[i] \in S OBVIOUS
  <2>2. 4 \in Nat /\ 8 \in Nat OBVIOUS
  <2>3. QED BY <2>1, <2>2, Zenon
<1>4. Words(names) \in Seq(T) /\ Quads(names) \in Seq(T)
  <2> HIDE DEF T
  <2>1. QED BY <1>1, <1>2, <1>3
<1>5. \A f \in S : HasField(Words(names), f) /\ HasField(Quads(names), f)
  <2> SUFFICES ASSUME NEW f \in S PROVE HasField(Words(names), f) /\ HasField(Quads(names), f) OBVIOUS
  <2>1. PICK i \in 1 .. Len(names) : names[i] = f OBVIOUS
  <2>2. i \in DOMAIN Words(names) /\ Words(names)[i][1] = f BY <1>1, <2>1
  <2>3. i \in DOMAIN Quads(names) /\ Quads(names)[i][1] = f BY <1>2, <2>1
  <2>4. QED BY <2>2, <2>3 DEF HasField
<1>6. S \union {} \union {} = S /\ {} \union S \union {} = S OBVIOUS
<1>7. \A i \in DOMAIN Words(names) : Words(names)[i][1] \in S /\ Words(names)[i][2] = 4 BY <1>1
<1>8. \A i \in DOMAIN Quads(names) : Quads(names)[i][1] \in S /\ Quads(names)[i][2] = 8 BY <1>2
<1>9. QED BY <1>4, <1>5, <1>6, <1>7, <1>8 DEF Laid

LEMMA LaidChars ==
  ASSUME NEW name, NEW width \in Nat
  PROVE  Laid(Chars(name, width), {}, {}, {name})
<1>1. Chars(name, width) = <<<<name, width>>>> BY DEF Chars
<1>2. <<name, width>> \in {name} \X Nat OBVIOUS
<1>3. {} \union {} \union {name} = {name} OBVIOUS
<1>4. QED BY <1>1, <1>2, <1>3 DEF Laid

\* A command begins with its id and its size.
LEMMA LaidCommand ==
  ASSUME NEW rest, NEW w, NEW q, NEW o, Laid(rest, w, q, o)
  PROVE  Laid(Header \o rest, {"cmd", "cmdsize"} \union w, q, o)
<1> DEFINE names == <<"cmd", "cmdsize">>
           S == {"cmd", "cmdsize"}
<1>1. names \in Seq(S) /\ \A f \in S : \E i \in 1 .. Len(names) : names[i] = f OBVIOUS
<1>2. Header = Words(names) BY DEF Header
<1> HIDE DEF names, S
<1>3. Laid(Header, S, {}, {}) BY <1>1, <1>2, LaidNames
<1>4. Laid(Header \o rest, S \union w, {} \union q, {} \union o) BY <1>3, LaidJoin
<1>5. {} \union q = q /\ {} \union o = o OBVIOUS
<1>6. QED BY <1>4, <1>5 DEF S

\* A class goes with its structure: its numbers have the widths they are swapped with, and
\* copy_native leaves out nothing but the string and the padding.
Numbered(widths, words, quads) ==
  \A f \in DOMAIN widths : (f \in words /\ widths[f] = 4) \/ (f \in quads /\ widths[f] = 8)
HasString(class) == class.string # ""
Describes(class, words, quads, others) ==
  /\ Laid(class.layout, words, quads, others)
  /\ words \intersect (quads \union others) = {} /\ quads \intersect others = {}
  /\ Numbered(class.reads, words, quads) /\ Numbered(class.swaps, words, quads)
  /\ class.refuses # "none" =>
       words \union quads \union others \subseteq
         DOMAIN class.swaps \union class.bytes \union {class.string, "pad"}
  /\ class.command_base_size = Sizeof(class.layout)
  /\ HasString(class) => class.string \in words
Faithful(class) == \E words, quads, others : Describes(class, words, quads, others)

\* The vtable and the numbers most files fill in like each other.
Vtable(class, layout, swaps, reads, bytes, string, refuses) ==
  /\ class.layout = layout /\ class.command_base_size = Sizeof(layout)
  /\ class.swaps = swaps /\ class.reads = reads
  /\ class.bytes = bytes /\ class.string = string /\ class.refuses = refuses

LEMMA ClassVtable ==
  ASSUME NEW name, NEW layout, NEW swaps, NEW reads, NEW x, NEW y
  PROVE  /\ Vtable(Class(name, layout, swaps, reads), layout, swaps, reads, {}, "", "EINVAL")
         /\ Vtable([Class(name, layout, swaps, reads) EXCEPT !.string = x],
                   layout, swaps, reads, {}, x, "EINVAL")
         /\ Vtable([Class(name, layout, swaps, reads) EXCEPT !.refuses = x],
                   layout, swaps, reads, {}, "", x)
         /\ Vtable([[Class(name, layout, swaps, reads) EXCEPT !.string = x] EXCEPT !.refuses = y],
                   layout, swaps, reads, {}, x, y)
         /\ Vtable([Class(name, layout, swaps, reads) EXCEPT !.bytes = x],
                   layout, swaps, reads, x, "", "EINVAL")
         /\ Vtable([Class(name, layout, swaps, reads) EXCEPT !.bytes = x, !.parts = y],
                   layout, swaps, reads, x, "", "EINVAL")
         /\ Vtable([Class(name, layout, swaps, reads) EXCEPT !.parts = y],
                   layout, swaps, reads, {}, "", "EINVAL")
         /\ Vtable([Class(name, layout, swaps, reads) EXCEPT !.otherwise = y],
                   layout, swaps, reads, {}, "", "EINVAL")
         /\ \A f : Vtable([Class(name, layout, swaps, reads) EXCEPT !.otherwise[f] = y],
                         layout, swaps, reads, {}, "", "EINVAL")
         /\ \A f, g : Vtable([Class(name, layout, swaps, reads) EXCEPT !.bytes = x,
                              !.otherwise[f] = y, !.otherwise[g] = y],
                            layout, swaps, reads, x, "", "EINVAL")
<1> DEFINE c == Class(name, layout, swaps, reads)
<1>1. Vtable(c, layout, swaps, reads, {}, "", "EINVAL") BY DEF Class, Vtable
<1>2. DOMAIN c = {"name", "layout", "command_base_size", "swaps", "bytes", "reads",
                  "parts", "otherwise", "string", "refuses"}
  BY DEF Class
<1> HIDE DEF c
<1>3. /\ Vtable([c EXCEPT !.string = x], layout, swaps, reads, {}, x, "EINVAL")
      /\ Vtable([c EXCEPT !.refuses = x], layout, swaps, reads, {}, "", x)
  BY <1>1, <1>2 DEF Vtable
<1>4. Vtable([[c EXCEPT !.string = x] EXCEPT !.refuses = y], layout, swaps, reads, {}, x, y)
  BY <1>1, <1>2 DEF Vtable
<1>5. /\ Vtable([c EXCEPT !.bytes = x], layout, swaps, reads, x, "", "EINVAL")
      /\ Vtable([c EXCEPT !.bytes = x, !.parts = y], layout, swaps, reads, x, "", "EINVAL")
  BY <1>1, <1>2 DEF Vtable
<1>6. /\ Vtable([c EXCEPT !.parts = y], layout, swaps, reads, {}, "", "EINVAL")
      /\ Vtable([c EXCEPT !.otherwise = y], layout, swaps, reads, {}, "", "EINVAL")
  BY <1>1, <1>2 DEF Vtable
<1>7. \A f : Vtable([c EXCEPT !.otherwise[f] = y], layout, swaps, reads, {}, "", "EINVAL")
  BY <1>1, <1>2 DEF Vtable
<1>8. \A f, g : Vtable([c EXCEPT !.bytes = x, !.otherwise[f] = y, !.otherwise[g] = y],
                      layout, swaps, reads, x, "", "EINVAL")
  BY <1>1, <1>2 DEF Vtable
<1>9. QED BY <1>1, <1>3, <1>4, <1>5, <1>6, <1>7, <1>8 DEF c

LEMMA SwapWidths ==
  /\ \A F : DOMAIN swap32(F) = F /\ \A f \in F : swap32(F)[f] = 4
  /\ \A F : DOMAIN swap64(F) = F /\ \A f \in F : swap64(F)[f] = 8
  /\ \A F, G : DOMAIN swap(F, G) = F \union G
               /\ \A f \in F \union G : swap(F, G)[f] = IF f \in F THEN 4 ELSE 8
  /\ DOMAIN Nothing = {}
BY DEF swap32, swap64, swap, Nothing

\* A command of words, all of which its copy_native swaps.
LEMMA FaithfulWords ==
  ASSUME NEW S, NEW names, NEW class, NEW R, NEW W, NEW string, NEW refuses,
         Vtable(class, Header \o Words(names), swap32(W), swap32(R), {}, string, refuses),
         names \in Seq(S), \A f \in S : \E i \in 1 .. Len(names) : names[i] = f,
         R \subseteq S, W \subseteq {"cmd", "cmdsize"} \union S,
         refuses # "none" => {"cmd", "cmdsize"} \union S \subseteq W \union {string, "pad"},
         string # "" => string \in S
  PROVE  Faithful(class)
<1> DEFINE words == {"cmd", "cmdsize"} \union S
<1>1. Laid(Header \o Words(names), words, {}, {}) BY LaidNames, LaidCommand
<1>2. /\ Numbered(swap32(R), words, {}) /\ Numbered(swap32(W), words, {}) /\ DOMAIN swap32(W) = W
  <2>1. R \subseteq words /\ W \subseteq words OBVIOUS
  <2>2. \A F : DOMAIN swap32(F) = F /\ \A f \in F : swap32(F)[f] = 4 BY SwapWidths
  <2> HIDE DEF words
  <2>3. QED BY <2>1, <2>2, Zenon DEF Numbered
<1>3. refuses # "none" =>
        words \union {} \union {} \subseteq DOMAIN swap32(W) \union {} \union {string, "pad"}
  BY <1>2
<1>4. string # "" => string \in words OBVIOUS
<1> HIDE DEF words
<1>5. words \intersect ({} \union {}) = {} /\ {} \intersect {} = {} OBVIOUS
<1>6. /\ class.layout = Header \o Words(names) /\ class.command_base_size = Sizeof(class.layout)
      /\ class.swaps = swap32(W) /\ class.reads = swap32(R)
      /\ class.bytes = {} /\ class.string = string /\ class.refuses = refuses
  BY DEF Vtable
<1>7. HasString(class) => class.string \in words BY <1>4, <1>6, Zenon DEF HasString
<1>8. Describes(class, words, {}, {})
  BY <1>1, <1>2, <1>3, <1>5, <1>6, <1>7, Zenon DEF Describes
<1>9. QED BY <1>8 DEF Faithful

LEMMA LinkeditFaithful == ASSUME NEW name PROVE Faithful(LinkeditClass(name))
<1> DEFINE names == <<"dataoff", "datasize">>
           S == {"dataoff", "datasize"}
           R == S
           W == {"cmd", "cmdsize", "dataoff", "datasize"}
           class == LinkeditClass(name)
<1>1. names \in Seq(S) /\ \A f \in S : \E i \in 1 .. Len(names) : names[i] = f OBVIOUS
<1>3. Vtable(class, Header \o Words(names), swap32(W), swap32(R), {}, "", "EINVAL")
  <2> DEFINE layout == Header \o Words(names)
  <2>1. layout = struct_linkedit_data_command BY DEF struct_linkedit_data_command
  <2> HIDE DEF layout
  <2>2. class = Class(name, layout, swap32(W), swap32(R))
    BY <2>1 DEF LinkeditClass
  <2> HIDE DEF class, R, W
  <2>3. QED BY <2>2, ClassVtable DEF layout
<1>4. /\ R \subseteq S /\ W \subseteq {"cmd", "cmdsize"} \union S
      /\ "EINVAL" # "none" => {"cmd", "cmdsize"} \union S \subseteq W \union {"", "pad"}
      /\ "" # "" => "" \in S
  OBVIOUS
<1> HIDE DEF names, S, R, W, class
<1>5. Faithful(class) BY <1>1, <1>3, <1>4, FaithfulWords
<1>6. QED BY <1>5 DEF class

LEMMA DyldInfoFaithful == ASSUME NEW name PROVE Faithful(DyldInfoClass(name))
<1> DEFINE names == <<"rebase_off", "rebase_size", "bind_off", "bind_size", "weak_bind_off",
                      "weak_bind_size", "lazy_bind_off", "lazy_bind_size", "export_off", "export_size">>
           S == {"rebase_off", "rebase_size", "bind_off", "bind_size", "weak_bind_off",
                 "weak_bind_size", "lazy_bind_off", "lazy_bind_size", "export_off", "export_size"}
           R == S
           W == {"cmd", "cmdsize"} \union S
           class == DyldInfoClass(name)
<1>1. names \in Seq(S) OBVIOUS
<1>2. \A f \in S : \E i \in 1 .. Len(names) : names[i] = f OBVIOUS
<1>3. Vtable(class, Header \o Words(names), swap32(W), swap32(R), {}, "", "EINVAL")
  <2> DEFINE layout == Header \o Words(names)
  <2>1. layout = struct_dyld_info_command BY DEF struct_dyld_info_command
  <2> HIDE DEF layout
  <2>2. class = Class(name, layout, swap32(W), swap32(R))
    BY <2>1 DEF DyldInfoClass
  <2> HIDE DEF class, R, W
  <2>3. QED BY <2>2, ClassVtable DEF layout
<1>4. /\ R \subseteq S /\ W \subseteq {"cmd", "cmdsize"} \union S
      /\ "EINVAL" # "none" => {"cmd", "cmdsize"} \union S \subseteq W \union {"", "pad"}
      /\ "" # "" => "" \in S
  OBVIOUS
<1> HIDE DEF names, S, R, W, class
<1>5. Faithful(class) BY <1>1, <1>2, <1>3, <1>4, FaithfulWords
<1>6. QED BY <1>5 DEF class

LEMMA DylibFaithful == ASSUME NEW name PROVE Faithful(DylibClass(name))
<1> DEFINE names == <<"name", "timestamp", "current_version", "compatibility_version">>
           S == {"name", "timestamp", "current_version", "compatibility_version"}
           R == {"timestamp", "current_version", "compatibility_version"}
           W == {"cmd", "cmdsize"} \union R
           class == DylibClass(name)
<1>1. names \in Seq(S) /\ \A f \in S : \E i \in 1 .. Len(names) : names[i] = f OBVIOUS
<1>3. Vtable(class, Header \o Words(names), swap32(W), swap32(R), {}, "name", "EINVAL")
  <2> DEFINE layout == Header \o Words(names)
  <2>1. layout = struct_dylib_command BY DEF struct_dylib_command
  <2> HIDE DEF layout
  <2>2. class = [Class(name, layout, swap32(W), swap32(R)) EXCEPT !.string = "name"]
    BY <2>1 DEF DylibClass
  <2> HIDE DEF class, R, W
  <2>3. QED BY <2>2, ClassVtable DEF layout
<1>4. /\ R \subseteq S /\ W \subseteq {"cmd", "cmdsize"} \union S
      /\ "EINVAL" # "none" => {"cmd", "cmdsize"} \union S \subseteq W \union {"name", "pad"}
      /\ "name" # "" => "name" \in S
  OBVIOUS
<1> HIDE DEF names, S, R, W, class
<1>5. Faithful(class) BY <1>1, <1>3, <1>4, FaithfulWords
<1>6. QED BY <1>5 DEF class

LEMMA DylinkerFaithful == ASSUME NEW name PROVE Faithful(DylinkerClass(name))
<1> DEFINE names == <<"name">>
           S == {"name"}
           R == {}
           W == {"cmd", "cmdsize"}
           class == DylinkerClass(name)
<1>1. names \in Seq(S) /\ \A f \in S : \E i \in 1 .. Len(names) : names[i] = f OBVIOUS
<1>3. Vtable(class, Header \o Words(names), swap32(W), swap32(R), {}, "name", "EINVAL")
  <2> DEFINE layout == Header \o Words(names)
  <2>1. layout = struct_dylinker_command BY DEF struct_dylinker_command
  <2>2. Nothing = swap32(R) BY DEF Nothing, swap32
  <2> HIDE DEF layout
  <2>3. class = [Class(name, layout, swap32(W), swap32(R)) EXCEPT !.string = "name"]
    BY <2>1, <2>2 DEF DylinkerClass
  <2> HIDE DEF class, R, W
  <2>4. QED BY <2>3, ClassVtable DEF layout
<1>4. /\ R \subseteq S /\ W \subseteq {"cmd", "cmdsize"} \union S
      /\ "EINVAL" # "none" => {"cmd", "cmdsize"} \union S \subseteq W \union {"name", "pad"}
      /\ "name" # "" => "name" \in S
  OBVIOUS
<1> HIDE DEF names, S, R, W, class
<1>5. Faithful(class) BY <1>1, <1>3, <1>4, FaithfulWords
<1>6. QED BY <1>5 DEF class

LEMMA DylinkerOther ==
  ASSUME NEW name, NEW refuses
  PROVE  Faithful([DylinkerClass(name) EXCEPT !.refuses = refuses])
<1> DEFINE names == <<"name">>
           S == {"name"}
           R == {}
           W == {"cmd", "cmdsize"}
           class == [DylinkerClass(name) EXCEPT !.refuses = refuses]
<1>1. names \in Seq(S) /\ \A f \in S : \E i \in 1 .. Len(names) : names[i] = f OBVIOUS
<1>3. Vtable(class, Header \o Words(names), swap32(W), swap32(R), {}, "name", refuses)
  <2> DEFINE layout == Header \o Words(names)
  <2>1. layout = struct_dylinker_command BY DEF struct_dylinker_command
  <2>2. Nothing = swap32(R) BY DEF Nothing, swap32
  <2> HIDE DEF layout
  <2>3. class = [[Class(name, layout, swap32(W), swap32(R)) EXCEPT !.string = "name"]
                   EXCEPT !.refuses = refuses]
    BY <2>1, <2>2 DEF DylinkerClass
  <2> HIDE DEF class, R, W
  <2>4. QED BY <2>3, ClassVtable DEF layout
<1>4. /\ R \subseteq S /\ W \subseteq {"cmd", "cmdsize"} \union S
      /\ refuses # "none" => {"cmd", "cmdsize"} \union S \subseteq W \union {"name", "pad"}
      /\ "name" # "" => "name" \in S
  OBVIOUS
<1> HIDE DEF names, S, R, W, class
<1>5. Faithful(class) BY <1>1, <1>3, <1>4, FaithfulWords
<1>6. QED BY <1>5 DEF class

LEMMA RpathFaithful == Faithful(mk_load_command_rpath)
<1> DEFINE names == <<"path">>
           S == {"path"}
           R == {}
           W == {"cmd", "cmdsize"}
           class == mk_load_command_rpath
<1>1. names \in Seq(S) /\ \A f \in S : \E i \in 1 .. Len(names) : names[i] = f OBVIOUS
<1>3. Vtable(class, Header \o Words(names), swap32(W), swap32(R), {}, "path", "EINVAL")
  <2> DEFINE layout == Header \o Words(names)
  <2>1. layout = struct_rpath_command BY DEF struct_rpath_command
  <2>2. Nothing = swap32(R) BY DEF Nothing, swap32
  <2> HIDE DEF layout
  <2>3. class = [Class("RPATH", layout, swap32(W), swap32(R)) EXCEPT !.string = "path"]
    BY <2>1, <2>2 DEF mk_load_command_rpath, StringClass
  <2> HIDE DEF class, R, W
  <2>4. QED BY <2>3, ClassVtable DEF layout
<1>4. /\ R \subseteq S /\ W \subseteq {"cmd", "cmdsize"} \union S
      /\ "EINVAL" # "none" => {"cmd", "cmdsize"} \union S \subseteq W \union {"path", "pad"}
      /\ "path" # "" => "path" \in S
  OBVIOUS
<1> HIDE DEF names, S, R, W, class
<1>5. Faithful(class) BY <1>1, <1>3, <1>4, FaithfulWords
<1>6. QED BY <1>5 DEF class

LEMMA SubFrameworkFaithful == Faithful(mk_load_command_sub_framework)
<1> DEFINE names == <<"umbrella">>
           S == {"umbrella"}
           R == {}
           W == {"cmd", "cmdsize"}
           class == mk_load_command_sub_framework
<1>1. names \in Seq(S) /\ \A f \in S : \E i \in 1 .. Len(names) : names[i] = f OBVIOUS
<1>3. Vtable(class, Header \o Words(names), swap32(W), swap32(R), {}, "umbrella", "EINVAL")
  <2> DEFINE layout == Header \o Words(names)
  <2>1. layout = struct_sub_framework_command BY DEF struct_sub_framework_command
  <2>2. Nothing = swap32(R) BY DEF Nothing, swap32
  <2> HIDE DEF layout
  <2>3. class = [Class("SUB_FRAMEWORK", layout, swap32(W), swap32(R)) EXCEPT !.string = "umbrella"]
    BY <2>1, <2>2 DEF mk_load_command_sub_framework, StringClass
  <2> HIDE DEF class, R, W
  <2>4. QED BY <2>3, ClassVtable DEF layout
<1>4. /\ R \subseteq S /\ W \subseteq {"cmd", "cmdsize"} \union S
      /\ "EINVAL" # "none" => {"cmd", "cmdsize"} \union S \subseteq W \union {"umbrella", "pad"}
      /\ "umbrella" # "" => "umbrella" \in S
  OBVIOUS
<1> HIDE DEF names, S, R, W, class
<1>5. Faithful(class) BY <1>1, <1>3, <1>4, FaithfulWords
<1>6. QED BY <1>5 DEF class

LEMMA SubClientFaithful == Faithful(mk_load_command_sub_client)
<1> DEFINE names == <<"client">>
           S == {"client"}
           R == {}
           W == {"cmd", "cmdsize"}
           class == mk_load_command_sub_client
<1>1. names \in Seq(S) /\ \A f \in S : \E i \in 1 .. Len(names) : names[i] = f OBVIOUS
<1>3. Vtable(class, Header \o Words(names), swap32(W), swap32(R), {}, "client", "EINVAL")
  <2> DEFINE layout == Header \o Words(names)
  <2>1. layout = struct_sub_client_command BY DEF struct_sub_client_command
  <2>2. Nothing = swap32(R) BY DEF Nothing, swap32
  <2> HIDE DEF layout
  <2>3. class = [Class("SUB_CLIENT", layout, swap32(W), swap32(R)) EXCEPT !.string = "client"]
    BY <2>1, <2>2 DEF mk_load_command_sub_client, StringClass
  <2> HIDE DEF class, R, W
  <2>4. QED BY <2>3, ClassVtable DEF layout
<1>4. /\ R \subseteq S /\ W \subseteq {"cmd", "cmdsize"} \union S
      /\ "EINVAL" # "none" => {"cmd", "cmdsize"} \union S \subseteq W \union {"client", "pad"}
      /\ "client" # "" => "client" \in S
  OBVIOUS
<1> HIDE DEF names, S, R, W, class
<1>5. Faithful(class) BY <1>1, <1>3, <1>4, FaithfulWords
<1>6. QED BY <1>5 DEF class

LEMMA SubLibraryFaithful == Faithful(mk_load_command_sub_library)
<1> DEFINE names == <<"sub_library">>
           S == {"sub_library"}
           R == {}
           W == {"cmd", "cmdsize"}
           class == mk_load_command_sub_library
<1>1. names \in Seq(S) /\ \A f \in S : \E i \in 1 .. Len(names) : names[i] = f OBVIOUS
<1>3. Vtable(class, Header \o Words(names), swap32(W), swap32(R), {}, "sub_library", "EINVAL")
  <2> DEFINE layout == Header \o Words(names)
  <2>1. layout = struct_sub_library_command BY DEF struct_sub_library_command
  <2>2. Nothing = swap32(R) BY DEF Nothing, swap32
  <2> HIDE DEF layout
  <2>3. class = [Class("SUB_LIBRARY", layout, swap32(W), swap32(R)) EXCEPT !.string = "sub_library"]
    BY <2>1, <2>2 DEF mk_load_command_sub_library, StringClass
  <2> HIDE DEF class, R, W
  <2>4. QED BY <2>3, ClassVtable DEF layout
<1>4. /\ R \subseteq S /\ W \subseteq {"cmd", "cmdsize"} \union S
      /\ "EINVAL" # "none" => {"cmd", "cmdsize"} \union S \subseteq W \union {"sub_library", "pad"}
      /\ "sub_library" # "" => "sub_library" \in S
  OBVIOUS
<1> HIDE DEF names, S, R, W, class
<1>5. Faithful(class) BY <1>1, <1>3, <1>4, FaithfulWords
<1>6. QED BY <1>5 DEF class

LEMMA LinkerOptionFaithful == Faithful(mk_load_command_linker_option)
<1> DEFINE names == <<"count">>
           S == {"count"}
           R == S
           W == {}
           class == mk_load_command_linker_option
<1>1. names \in Seq(S) /\ \A f \in S : \E i \in 1 .. Len(names) : names[i] = f OBVIOUS
<1>3. Vtable(class, Header \o Words(names), swap32(W), swap32(R), {}, "", "none")
  <2> DEFINE layout == Header \o Words(names)
  <2>1. layout = struct_linker_option_command BY DEF struct_linker_option_command
  <2>2. Nothing = swap32(W) BY DEF Nothing, swap32
  <2> HIDE DEF layout
  <2>3. class = [Class("LINKER_OPTION", layout, swap32(W), swap32(R)) EXCEPT !.refuses = "none"]
    BY <2>1, <2>2 DEF mk_load_command_linker_option
  <2> HIDE DEF class, R, W
  <2>4. QED BY <2>3, ClassVtable DEF layout
<1>4. /\ R \subseteq S /\ W \subseteq {"cmd", "cmdsize"} \union S
      /\ "none" # "none" => {"cmd", "cmdsize"} \union S \subseteq W \union {"", "pad"}
      /\ "" # "" => "" \in S
  OBVIOUS
<1> HIDE DEF names, S, R, W, class
<1>5. Faithful(class) BY <1>1, <1>3, <1>4, FaithfulWords
<1>6. QED BY <1>5 DEF class

LEMMA SymtabFaithful == Faithful(mk_load_command_symtab)
<1> DEFINE names == <<"symoff", "nsyms", "stroff", "strsize">>
           S == {"symoff", "nsyms", "stroff", "strsize"}
           R == S
           W == {"cmd", "cmdsize"} \union S
           class == mk_load_command_symtab
<1>1. names \in Seq(S) /\ \A f \in S : \E i \in 1 .. Len(names) : names[i] = f OBVIOUS
<1>3. Vtable(class, Header \o Words(names), swap32(W), swap32(R), {}, "", "EINVAL")
  <2> DEFINE layout == Header \o Words(names)
  <2>1. layout = struct_symtab_command BY DEF struct_symtab_command
  <2> HIDE DEF layout
  <2>2. class = Class("SYMTAB", layout, swap32(W), swap32(R))
    BY <2>1 DEF mk_load_command_symtab
  <2> HIDE DEF class, R, W
  <2>3. QED BY <2>2, ClassVtable DEF layout
<1>4. /\ R \subseteq S /\ W \subseteq {"cmd", "cmdsize"} \union S
      /\ "EINVAL" # "none" => {"cmd", "cmdsize"} \union S \subseteq W \union {"", "pad"}
      /\ "" # "" => "" \in S
  OBVIOUS
<1> HIDE DEF names, S, R, W, class
<1>5. Faithful(class) BY <1>1, <1>3, <1>4, FaithfulWords
<1>6. QED BY <1>5 DEF class

LEMMA DysymtabFaithful == Faithful(mk_load_command_dysymtab)
<1> DEFINE names == <<"ilocalsym", "nlocalsym", "iextdefsym", "nextdefsym", "iundefsym", "nundefsym",
                      "tocoff", "ntoc", "modtaboff", "nmodtab", "extrefsymoff", "nextrefsyms",
                      "indirectsymoff", "nindirectsyms", "extreloff", "nextrel", "locreloff",
                      "nlocrel">>
           S == {"ilocalsym", "nlocalsym", "iextdefsym", "nextdefsym", "iundefsym", "nundefsym",
                 "tocoff", "ntoc", "modtaboff", "nmodtab", "extrefsymoff", "nextrefsyms",
                 "indirectsymoff", "nindirectsyms", "extreloff", "nextrel", "locreloff", "nlocrel"}
           R == S
           W == {"cmd", "cmdsize"} \union S
           class == mk_load_command_dysymtab
<1>1. names \in Seq(S) OBVIOUS
<1>2. \A f \in S : \E i \in 1 .. Len(names) : names[i] = f OBVIOUS
<1>3. Vtable(class, Header \o Words(names), swap32(W), swap32(R), {}, "", "EINVAL")
  <2> DEFINE layout == Header \o Words(names)
  <2>1. layout = struct_dysymtab_command BY DEF struct_dysymtab_command
  <2> HIDE DEF layout
  <2>2. class = Class("DYSYMTAB", layout, swap32(W), swap32(R))
    BY <2>1 DEF mk_load_command_dysymtab,
       mk_load_command_dysymtab_copy_native, mk_load_command_dysymtab_getters, dysymtab_numbers
  <2> HIDE DEF class, R, W
  <2>3. QED BY <2>2, ClassVtable DEF layout
<1>4. /\ R \subseteq S /\ W \subseteq {"cmd", "cmdsize"} \union S
      /\ "EINVAL" # "none" => {"cmd", "cmdsize"} \union S \subseteq W \union {"", "pad"}
      /\ "" # "" => "" \in S
  OBVIOUS
<1> HIDE DEF names, S, R, W, class
<1>5. Faithful(class) BY <1>1, <1>2, <1>3, <1>4, FaithfulWords
<1>6. QED BY <1>5 DEF class

LEMMA RoutinesFaithful == Faithful(mk_load_command_routines)
<1> DEFINE names == <<"init_address", "init_module", "reserved1", "reserved2", "reserved3",
                      "reserved4", "reserved5", "reserved6">>
           S == {"init_address", "init_module", "reserved1", "reserved2", "reserved3", "reserved4",
                 "reserved5", "reserved6"}
           R == {"init_address", "init_module"}
           W == {"cmd", "cmdsize"} \union R \union {"reserved1", "reserved2", "reserved3", "reserved4",
                 "reserved5", "reserved6"}
           class == mk_load_command_routines
<1>1. names \in Seq(S) OBVIOUS
<1>2. \A f \in S : \E i \in 1 .. Len(names) : names[i] = f OBVIOUS
<1>3. Vtable(class, Header \o Words(names), swap32(W), swap32(R), {}, "", "EINVAL")
  <2> DEFINE layout == Header \o Words(names)
  <2>1. layout = struct_routines_command BY DEF struct_routines_command
  <2> HIDE DEF layout
  <2>2. class = Class("ROUTINES", layout, swap32(W), swap32(R))
    BY <2>1 DEF mk_load_command_routines
  <2> HIDE DEF class, R, W
  <2>3. QED BY <2>2, ClassVtable DEF layout
<1>4. /\ R \subseteq S /\ W \subseteq {"cmd", "cmdsize"} \union S
      /\ "EINVAL" # "none" => {"cmd", "cmdsize"} \union S \subseteq W \union {"", "pad"}
      /\ "" # "" => "" \in S
  OBVIOUS
<1> HIDE DEF names, S, R, W, class
<1>5. Faithful(class) BY <1>1, <1>2, <1>3, <1>4, FaithfulWords
<1>6. QED BY <1>5 DEF class

LEMMA TwolevelHintsFaithful == Faithful(mk_load_command_twolevel_hints)
<1> DEFINE names == <<"offset", "nhints">>
           S == {"offset", "nhints"}
           R == S
           W == {"cmd", "cmdsize"} \union S
           class == mk_load_command_twolevel_hints
<1>1. names \in Seq(S) /\ \A f \in S : \E i \in 1 .. Len(names) : names[i] = f OBVIOUS
<1>3. Vtable(class, Header \o Words(names), swap32(W), swap32(R), {}, "", "EINVAL")
  <2> DEFINE layout == Header \o Words(names)
  <2>1. layout = struct_twolevel_hints_command BY DEF struct_twolevel_hints_command
  <2> HIDE DEF layout
  <2>2. class = [Class("TWOLEVEL_HINTS", layout, swap32(W), swap32(R))
                 EXCEPT !.otherwise = [f \in R |-> UINT_MAX(1)]]
    BY <2>1 DEF mk_load_command_twolevel_hints
  <2> HIDE DEF class, R, W
  <2>3. QED BY <2>2, ClassVtable DEF layout
<1>4. /\ R \subseteq S /\ W \subseteq {"cmd", "cmdsize"} \union S
      /\ "EINVAL" # "none" => {"cmd", "cmdsize"} \union S \subseteq W \union {"", "pad"}
      /\ "" # "" => "" \in S
  OBVIOUS
<1> HIDE DEF names, S, R, W, class
<1>5. Faithful(class) BY <1>1, <1>3, <1>4, FaithfulWords
<1>6. QED BY <1>5 DEF class

LEMMA PrebindCksumFaithful == Faithful(mk_load_command_prebind_cksum)
<1> DEFINE names == <<"cksum">>
           S == {"cksum"}
           R == S
           W == {"cmd", "cmdsize", "cksum"}
           class == mk_load_command_prebind_cksum
<1>1. names \in Seq(S) /\ \A f \in S : \E i \in 1 .. Len(names) : names[i] = f OBVIOUS
<1>3. Vtable(class, Header \o Words(names), swap32(W), swap32(R), {}, "", "EINVAL")
  <2> DEFINE layout == Header \o Words(names)
  <2>1. layout = struct_prebind_cksum_command BY DEF struct_prebind_cksum_command
  <2> HIDE DEF layout
  <2>2. class = [Class("PREBIND_CKSUM", layout, swap32(W), swap32(R))
                   EXCEPT !.otherwise["cksum"] = UINT_MAX(1)]
    BY <2>1 DEF mk_load_command_prebind_cksum
  <2> HIDE DEF class, R, W
  <2>3. QED BY <2>2, ClassVtable DEF layout
<1>4. /\ R \subseteq S /\ W \subseteq {"cmd", "cmdsize"} \union S
      /\ "EINVAL" # "none" => {"cmd", "cmdsize"} \union S \subseteq W \union {"", "pad"}
      /\ "" # "" => "" \in S
  OBVIOUS
<1> HIDE DEF names, S, R, W, class
<1>5. Faithful(class) BY <1>1, <1>3, <1>4, FaithfulWords
<1>6. QED BY <1>5 DEF class

LEMMA EncryptionInfoFaithful == Faithful(mk_load_command_encryption_info)
<1> DEFINE names == <<"cryptoff", "cryptsize", "cryptid">>
           S == {"cryptoff", "cryptsize", "cryptid"}
           R == S
           W == {"cmd", "cmdsize"} \union S
           class == mk_load_command_encryption_info
<1>1. names \in Seq(S) /\ \A f \in S : \E i \in 1 .. Len(names) : names[i] = f OBVIOUS
<1>3. Vtable(class, Header \o Words(names), swap32(W), swap32(R), {}, "", "EINVAL")
  <2> DEFINE layout == Header \o Words(names)
  <2>1. layout = struct_encryption_info_command BY DEF struct_encryption_info_command
  <2> HIDE DEF layout
  <2>2. class = Class("ENCRYPTION_INFO", layout, swap32(W), swap32(R))
    BY <2>1 DEF mk_load_command_encryption_info
  <2> HIDE DEF class, R, W
  <2>3. QED BY <2>2, ClassVtable DEF layout
<1>4. /\ R \subseteq S /\ W \subseteq {"cmd", "cmdsize"} \union S
      /\ "EINVAL" # "none" => {"cmd", "cmdsize"} \union S \subseteq W \union {"", "pad"}
      /\ "" # "" => "" \in S
  OBVIOUS
<1> HIDE DEF names, S, R, W, class
<1>5. Faithful(class) BY <1>1, <1>3, <1>4, FaithfulWords
<1>6. QED BY <1>5 DEF class

LEMMA EncryptionInfo64Faithful == Faithful(mk_load_command_encryption_info_64)
<1> DEFINE names == <<"cryptoff", "cryptsize", "cryptid", "pad">>
           S == {"cryptoff", "cryptsize", "cryptid", "pad"}
           R == {"cryptoff", "cryptsize", "cryptid"}
           W == {"cmd", "cmdsize"} \union R
           class == mk_load_command_encryption_info_64
<1>1. names \in Seq(S) /\ \A f \in S : \E i \in 1 .. Len(names) : names[i] = f OBVIOUS
<1>3. Vtable(class, Header \o Words(names), swap32(W), swap32(R), {}, "", "EINVAL")
  <2> DEFINE layout == Header \o Words(names)
  <2>1. layout = struct_encryption_info_command_64 BY DEF struct_encryption_info_command_64
  <2> HIDE DEF layout
  <2>2. class = Class("ENCRYPTION_INFO_64", layout, swap32(W), swap32(R))
    BY <2>1 DEF mk_load_command_encryption_info_64
  <2> HIDE DEF class, R, W
  <2>3. QED BY <2>2, ClassVtable DEF layout
<1>4. /\ R \subseteq S /\ W \subseteq {"cmd", "cmdsize"} \union S
      /\ "EINVAL" # "none" => {"cmd", "cmdsize"} \union S \subseteq W \union {"", "pad"}
      /\ "" # "" => "" \in S
  OBVIOUS
<1> HIDE DEF names, S, R, W, class
<1>5. Faithful(class) BY <1>1, <1>3, <1>4, FaithfulWords
<1>6. QED BY <1>5 DEF class

VersionMinParts ==
  LET part(field, from) == Part(field, from, NibbleValues, UINT_MAX(1))
  IN  [version_primary |-> part("version", ByteValues ^ 2),
       version_major |-> part("version", ByteValues), version_minor |-> part("version", 1),
       sdk_primary |-> part("sdk", ByteValues ^ 2),
       sdk_major |-> part("sdk", ByteValues), sdk_minor |-> part("sdk", 1)]

LEMMA VersionMinFaithful == ASSUME NEW name PROVE Faithful(VersionMinClass(name))
<1> DEFINE names == <<"version", "sdk">>
           S == {"version", "sdk"}
           R == {}
           W == {"cmd", "cmdsize", "version", "sdk"}
           class == VersionMinClass(name)
<1>1. names \in Seq(S) /\ \A f \in S : \E i \in 1 .. Len(names) : names[i] = f OBVIOUS
<1>3. Vtable(class, Header \o Words(names), swap32(W), swap32(R), {}, "", "EINVAL")
  <2> DEFINE layout == Header \o Words(names)
  <2>1. layout = struct_version_min_command BY DEF struct_version_min_command
  <2>2. Nothing = swap32(R) BY DEF Nothing, swap32
  <2> HIDE DEF layout
  <2>3. class = [Class(name, layout, swap32(W), swap32(R)) EXCEPT !.parts = VersionMinParts]
    BY <2>1, <2>2 DEF VersionMinClass, VersionMinParts
  <2> HIDE DEF class, R, W
  <2>4. QED BY <2>3, ClassVtable DEF layout
<1>4. /\ R \subseteq S /\ W \subseteq {"cmd", "cmdsize"} \union S
      /\ "EINVAL" # "none" => {"cmd", "cmdsize"} \union S \subseteq W \union {"", "pad"}
      /\ "" # "" => "" \in S
  OBVIOUS
<1> HIDE DEF names, S, R, W, class
<1>5. Faithful(class) BY <1>1, <1>3, <1>4, FaithfulWords
<1>6. QED BY <1>5 DEF class

BuildVersionParts ==
  LET primary(field) == Part(field, ByteValues ^ 2, ByteValues ^ 2, UINT_MAX(2))
      nibble(field, from) == Part(field, from, NibbleValues, UINT_MAX(1))
  IN  [minos_primary |-> primary("minos"),
       minos_major |-> nibble("minos", ByteValues), minos_minor |-> nibble("minos", 1),
       sdk_primary |-> primary("sdk"),
       sdk_major |-> nibble("sdk", ByteValues), sdk_minor |-> nibble("sdk", 1)]

LEMMA BuildVersionFaithful == Faithful(mk_load_command_build_version)
<1> DEFINE names == <<"platform", "minos", "sdk", "ntools">>
           S == {"platform", "minos", "sdk", "ntools"}
           R == {"platform", "ntools"}
           W == {"cmd", "cmdsize", "minos", "sdk"} \union R
           class == mk_load_command_build_version
<1>1. names \in Seq(S) /\ \A f \in S : \E i \in 1 .. Len(names) : names[i] = f OBVIOUS
<1>3. Vtable(class, Header \o Words(names), swap32(W), swap32(R), {}, "", "EINVAL")
  <2> DEFINE layout == Header \o Words(names)
  <2>1. layout = struct_build_version_command BY DEF struct_build_version_command
  <2> HIDE DEF layout
  <2>2. class = [Class("BUILD_VERSION", layout, swap32(W), swap32(R)) EXCEPT !.parts = BuildVersionParts]
    BY <2>1 DEF mk_load_command_build_version, BuildVersionParts
  <2> HIDE DEF class, R, W
  <2>3. QED BY <2>2, ClassVtable DEF layout
<1>4. /\ R \subseteq S /\ W \subseteq {"cmd", "cmdsize"} \union S
      /\ "EINVAL" # "none" => {"cmd", "cmdsize"} \union S \subseteq W \union {"", "pad"}
      /\ "" # "" => "" \in S
  OBVIOUS
<1> HIDE DEF names, S, R, W, class
<1>5. Faithful(class) BY <1>1, <1>3, <1>4, FaithfulWords
<1>6. QED BY <1>5 DEF class

\* The commands of numbers of four and of eight bytes, and of bytes.
LEMMA SwapForms ==
  /\ \A F : swap32(F) = swap(F, {})
  /\ \A F : swap64(F) = swap({}, F)
  /\ Nothing = swap({}, {})
<1>1. ASSUME NEW F PROVE swap32(F) = swap(F, {})
  <2>1. F \union {} = F OBVIOUS
  <2>2. QED BY <2>1 DEF swap32, swap
<1>2. ASSUME NEW F PROVE swap64(F) = swap({}, F)
  <2>1. {} \union F = F OBVIOUS
  <2>2. QED BY <2>1 DEF swap64, swap
<1>3. Nothing = swap({}, {})
  <2>1. {} \union {} = {} OBVIOUS
  <2>2. QED BY <2>1 DEF Nothing, swap
<1>4. QED BY <1>1, <1>2, <1>3

Covered(words, quads, others, W, Q, R, P, bytes, string) ==
  /\ words \intersect (quads \union others) = {} /\ quads \intersect others = {}
  /\ W \subseteq words /\ Q \subseteq quads /\ R \subseteq words /\ P \subseteq quads
  /\ words \union quads \union others \subseteq W \union Q \union bytes \union {string, "pad"}
  /\ string # "" => string \in words

LEMMA FaithfulMixed ==
  ASSUME NEW class, NEW layout, NEW W, NEW Q, NEW R, NEW P, NEW bytes, NEW string, NEW refuses,
         Vtable(class, layout, swap(W, Q), swap(R, P), bytes, string, refuses),
         NEW words, NEW quads, NEW others, Laid(layout, words, quads, others),
         Covered(words, quads, others, W, Q, R, P, bytes, string)
  PROVE  Faithful(class)
<1> USE DEF Covered
<1>1. Numbered(swap(W, Q), words, quads) /\ Numbered(swap(R, P), words, quads)
      /\ DOMAIN swap(W, Q) = W \union Q
  <2>1. ASSUME NEW F, NEW G, F \subseteq words, G \subseteq quads
        PROVE  Numbered(swap(F, G), words, quads)
    <3>1. /\ DOMAIN swap(F, G) = F \union G
          /\ \A f \in F \union G : swap(F, G)[f] = IF f \in F THEN 4 ELSE 8
      BY DEF swap
    <3>2. QED BY <2>1, <3>1 DEF Numbered
  <2>2. QED BY <2>1 DEF swap
<1>2. refuses # "none" =>
        words \union quads \union others \subseteq
          DOMAIN swap(W, Q) \union bytes \union {string, "pad"}
  BY <1>1
<1>3. string # "" => string \in words BY DEF Covered
<1>4. words \intersect (quads \union others) = {} /\ quads \intersect others = {} BY DEF Covered
<1> HIDE DEF Covered
<1>5. /\ class.layout = layout /\ class.command_base_size = Sizeof(class.layout)
      /\ class.swaps = swap(W, Q) /\ class.reads = swap(R, P)
      /\ class.bytes = bytes /\ class.string = string /\ class.refuses = refuses
  BY DEF Vtable
<1>6. HasString(class) => class.string \in words BY <1>3, <1>5, Zenon DEF HasString
<1>7. Describes(class, words, quads, others)
  BY <1>1, <1>2, <1>4, <1>5, <1>6, Zenon DEF Describes
<1>8. QED BY <1>7 DEF Faithful

\* A command with sixteen bytes behind its header.
LEMMA LaidTagged ==
  ASSUME NEW tag, NEW rest, NEW w, NEW q, NEW o, Laid(rest, w, q, o)
  PROVE  Laid(Header \o Chars(tag, 16) \o rest, {"cmd", "cmdsize"} \union w, q, {tag} \union o)
<1> DEFINE H == {"cmd", "cmdsize"}
<1> HIDE DEF H
<1>1. Laid(Header \o Chars(tag, 16), H \union {}, {}, {tag}) BY LaidChars, LaidCommand DEF H
<1>2. Laid(Header \o Chars(tag, 16) \o rest, (H \union {}) \union w, {} \union q, {tag} \union o)
  BY <1>1, LaidJoin
<1>3. (H \union {}) \union w = H \union w /\ {} \union q = q OBVIOUS
<1>4. QED BY <1>2, <1>3 DEF H

LEMMA SegmentFaithful == Faithful(mk_load_command_segment)
<1> DEFINE layout == struct_segment_command
           words == {"cmd", "cmdsize", "vmaddr", "vmsize", "fileoff", "filesize", "maxprot",
                     "initprot", "nsects", "flags"}
           quads == {}
           others == {"segname"}
           R == {"vmaddr", "vmsize", "fileoff", "filesize", "maxprot", "initprot", "nsects", "flags"}
           P == {}
           W == {"cmd", "cmdsize"} \union R
           Q == {}
           bytes == {"segname"}
           class == mk_load_command_segment
<1>1. Laid(layout, words, quads, others)
  <2> DEFINE names == <<"vmaddr", "vmsize", "fileoff", "filesize", "maxprot", "initprot", "nsects", "flags">>
             S == {"vmaddr", "vmsize", "fileoff", "filesize", "maxprot", "initprot", "nsects", "flags"}
  <2>1. names \in Seq(S) OBVIOUS
  <2>2. \A f \in S : \E i \in 1 .. Len(names) : names[i] = f OBVIOUS
  <2>3. layout = Header \o Chars("segname", 16) \o Words(names) BY DEF struct_segment_command
  <2>4. words = {"cmd", "cmdsize"} \union S /\ quads = {} /\ others = {"segname"} \union {} OBVIOUS
  <2> HIDE DEF layout, words, quads, others, names, S
  <2>5. Laid(Words(names), S, {}, {}) BY <2>1, <2>2, LaidNames
  <2>6. QED BY <2>3, <2>4, <2>5, LaidTagged
<1>2. Covered(words, quads, others, W, Q, R, P, bytes, "") BY DEF Covered
<1>3. Vtable(class, layout, swap(W, Q), swap(R, P), bytes, "", "EINVAL")
  <2>1. swap32(W) = swap(W, Q) /\ swap32(R) = swap(R, P) BY SwapForms
  <2> HIDE DEF layout
  <2>2. class = [Class("SEGMENT", layout, swap(W, Q), swap(R, P)) EXCEPT !.bytes = bytes,
                 !.otherwise["maxprot"] = UINT_MAX(4) \div 2, !.otherwise["initprot"] = UINT_MAX(4) \div 2]
    BY <2>1 DEF mk_load_command_segment, layout
  <2> HIDE DEF class, W, Q, R, P, bytes
  <2>3. QED BY <2>2, ClassVtable
<1> HIDE DEF layout, words, quads, others, W, Q, R, P, bytes, class
<1>4. Faithful(class) BY <1>1, <1>2, <1>3, FaithfulMixed
<1>5. QED BY <1>4 DEF class

LEMMA Segment64Faithful == Faithful(mk_load_command_segment_64)
<1> DEFINE layout == struct_segment_command_64
           words == {"cmd", "cmdsize", "maxprot", "initprot", "nsects", "flags"}
           quads == {"vmaddr", "vmsize", "fileoff", "filesize"}
           others == {"segname"}
           R == {"maxprot", "initprot", "nsects", "flags"}
           P == quads
           W == {"cmd", "cmdsize"} \union R
           Q == quads
           bytes == {"segname"}
           class == mk_load_command_segment_64
<1>1. Laid(layout, words, quads, others)
  <2> DEFINE first == <<"vmaddr", "vmsize", "fileoff", "filesize">>
             last == <<"maxprot", "initprot", "nsects", "flags">>
             A == {"vmaddr", "vmsize", "fileoff", "filesize"}
             S == {"maxprot", "initprot", "nsects", "flags"}
  <2>1. first \in Seq(A) /\ \A f \in A : \E i \in 1 .. Len(first) : first[i] = f OBVIOUS
  <2>2. last \in Seq(S) /\ \A f \in S : \E i \in 1 .. Len(last) : last[i] = f OBVIOUS
  <2>3. layout = Header \o Chars("segname", 16) \o Quads(first) \o Words(last)
    BY DEF struct_segment_command_64
  <2>4. /\ words = ({"cmd", "cmdsize"} \union {}) \union S /\ quads = A \union {}
        /\ others = ({"segname"} \union {}) \union {}
    OBVIOUS
  <2> HIDE DEF layout, words, quads, others, first, last, A, S
  <2>5. Laid(Quads(first), {}, A, {}) /\ Laid(Words(last), S, {}, {}) BY <2>1, <2>2, LaidNames
  <2>6. Laid(Header \o Chars("segname", 16) \o Quads(first), {"cmd", "cmdsize"} \union {}, A,
             {"segname"} \union {})
    BY <2>5, LaidTagged
  <2>7. QED BY <2>3, <2>4, <2>5, <2>6, LaidJoin
<1>2. Covered(words, quads, others, W, Q, R, P, bytes, "") BY DEF Covered
<1>3. Vtable(class, layout, swap(W, Q), swap(R, P), bytes, "", "EINVAL")
  <2> HIDE DEF layout
  <2>1. class = [Class("SEGMENT_64", layout, swap(W, Q), swap(R, P)) EXCEPT !.bytes = bytes,
                 !.otherwise["maxprot"] = UINT_MAX(4) \div 2, !.otherwise["initprot"] = UINT_MAX(4) \div 2]
    BY DEF mk_load_command_segment_64, layout
  <2> HIDE DEF class, W, Q, R, P, bytes
  <2>2. QED BY <2>1, ClassVtable
<1> HIDE DEF layout, words, quads, others, W, Q, R, P, bytes, class
<1>4. Faithful(class) BY <1>1, <1>2, <1>3, FaithfulMixed
<1>5. QED BY <1>4 DEF class

LEMMA Routines64Faithful == Faithful(mk_load_command_routines_64)
<1> DEFINE layout == struct_routines_command_64
           words == {"cmd", "cmdsize"}
           quads == {"init_address", "init_module", "reserved1", "reserved2", "reserved3", "reserved4",
                     "reserved5", "reserved6"}
           others == {}
           R == {}
           P == {"init_address", "init_module"}
           W == {"cmd", "cmdsize"}
           Q == P \union {"reserved1", "reserved2", "reserved3", "reserved4", "reserved5", "reserved6"}
           bytes == {}
           class == mk_load_command_routines_64
<1>1. Laid(layout, words, quads, others)
  <2> DEFINE names == <<"init_address", "init_module", "reserved1", "reserved2", "reserved3",
                        "reserved4", "reserved5", "reserved6">>
             S == {"init_address", "init_module", "reserved1", "reserved2", "reserved3", "reserved4",
                   "reserved5", "reserved6"}
  <2>1. names \in Seq(S) OBVIOUS
  <2>2. \A f \in S : \E i \in 1 .. Len(names) : names[i] = f OBVIOUS
  <2>3. layout = Header \o Quads(names) BY DEF struct_routines_command_64
  <2>4. words = {"cmd", "cmdsize"} \union {} /\ quads = S /\ others = {} OBVIOUS
  <2> HIDE DEF layout, words, quads, others, names, S
  <2>5. Laid(Quads(names), {}, S, {}) BY <2>1, <2>2, LaidNames
  <2>6. QED BY <2>3, <2>4, <2>5, LaidCommand
<1>2. Covered(words, quads, others, W, Q, R, P, bytes, "") BY DEF Covered
<1>3. Vtable(class, layout, swap(W, Q), swap(R, P), bytes, "", "EINVAL")
  <2>1. swap64(P) = swap(R, P) BY SwapForms
  <2> HIDE DEF layout
  <2>2. class = Class("ROUTINES_64", layout, swap(W, Q), swap(R, P))
    BY <2>1 DEF mk_load_command_routines_64, layout
  <2> HIDE DEF class, W, Q, R, P
  <2>3. QED BY <2>2, ClassVtable
<1> HIDE DEF layout, words, quads, others, W, Q, R, P, bytes, class
<1>4. Faithful(class) BY <1>1, <1>2, <1>3, FaithfulMixed
<1>5. QED BY <1>4 DEF class

LEMMA MainFaithful == Faithful(mk_load_command_main)
<1> DEFINE layout == struct_entry_point_command
           words == {"cmd", "cmdsize"}
           quads == {"entryoff", "stacksize"}
           others == {}
           R == {}
           P == quads
           W == {"cmd", "cmdsize"}
           Q == quads
           bytes == {}
           class == mk_load_command_main
<1>1. Laid(layout, words, quads, others)
  <2> DEFINE names == <<"entryoff", "stacksize">>
             S == {"entryoff", "stacksize"}
  <2>1. names \in Seq(S) OBVIOUS
  <2>2. \A f \in S : \E i \in 1 .. Len(names) : names[i] = f OBVIOUS
  <2>3. layout = Header \o Quads(names) BY DEF struct_entry_point_command
  <2>4. words = {"cmd", "cmdsize"} \union {} /\ quads = S /\ others = {} OBVIOUS
  <2> HIDE DEF layout, words, quads, others, names, S
  <2>5. Laid(Quads(names), {}, S, {}) BY <2>1, <2>2, LaidNames
  <2>6. QED BY <2>3, <2>4, <2>5, LaidCommand
<1>2. Covered(words, quads, others, W, Q, R, P, bytes, "") BY DEF Covered
<1>3. Vtable(class, layout, swap(W, Q), swap(R, P), bytes, "", "EINVAL")
  <2>1. swap64(P) = swap(R, P) BY SwapForms
  <2> HIDE DEF layout
  <2>2. class = Class("MAIN", layout, swap(W, Q), swap(R, P))
    BY <2>1 DEF mk_load_command_main, layout
  <2> HIDE DEF class, W, Q, R, P
  <2>3. QED BY <2>2, ClassVtable
<1> HIDE DEF layout, words, quads, others, W, Q, R, P, bytes, class
<1>4. Faithful(class) BY <1>1, <1>2, <1>3, FaithfulMixed
<1>5. QED BY <1>4 DEF class

LEMMA SourceVersionFaithful == Faithful(mk_load_command_source_version)
<1> DEFINE layout == struct_source_version_command
           words == {"cmd", "cmdsize"}
           quads == {"version"}
           others == {}
           R == {}
           P == quads
           W == {"cmd", "cmdsize"}
           Q == quads
           bytes == {}
           class == mk_load_command_source_version
<1>1. Laid(layout, words, quads, others)
  <2> DEFINE names == <<"version">>
             S == {"version"}
  <2>1. names \in Seq(S) OBVIOUS
  <2>2. \A f \in S : \E i \in 1 .. Len(names) : names[i] = f OBVIOUS
  <2>3. layout = Header \o Quads(names) BY DEF struct_source_version_command
  <2>4. words = {"cmd", "cmdsize"} \union {} /\ quads = S /\ others = {} OBVIOUS
  <2> HIDE DEF layout, words, quads, others, names, S
  <2>5. Laid(Quads(names), {}, S, {}) BY <2>1, <2>2, LaidNames
  <2>6. QED BY <2>3, <2>4, <2>5, LaidCommand
<1>2. Covered(words, quads, others, W, Q, R, P, bytes, "") BY DEF Covered
<1>3. Vtable(class, layout, swap(W, Q), swap(R, P), bytes, "", "EINVAL")
  <2>1. swap64(P) = swap(R, P) BY SwapForms
  <2> HIDE DEF layout
  <2>2. class = Class("SOURCE_VERSION", layout, swap(W, Q), swap(R, P))
    BY <2>1 DEF mk_load_command_source_version, layout
  <2> HIDE DEF class, W, Q, R, P
  <2>3. QED BY <2>2, ClassVtable
<1> HIDE DEF layout, words, quads, others, W, Q, R, P, bytes, class
<1>4. Faithful(class) BY <1>1, <1>2, <1>3, FaithfulMixed
<1>5. QED BY <1>4 DEF class

LEMMA NoteFaithful == Faithful(mk_load_command_note)
<1> DEFINE layout == struct_note_command
           words == {"cmd", "cmdsize"}
           quads == {"offset", "size"}
           others == {"data_owner"}
           R == {}
           P == quads
           W == {"cmd", "cmdsize"}
           Q == quads
           bytes == {"data_owner"}
           class == mk_load_command_note
<1>1. Laid(layout, words, quads, others)
  <2> DEFINE names == <<"offset", "size">>
             S == {"offset", "size"}
  <2>1. names \in Seq(S) /\ \A f \in S : \E i \in 1 .. Len(names) : names[i] = f OBVIOUS
  <2>2. layout = Header \o Chars("data_owner", 16) \o Quads(names) BY DEF struct_note_command
  <2>3. /\ words = {"cmd", "cmdsize"} \union {} /\ quads = S
        /\ others = {"data_owner"} \union {}
    OBVIOUS
  <2> HIDE DEF layout, words, quads, others, names, S
  <2>4. Laid(Quads(names), {}, S, {}) BY <2>1, LaidNames
  <2>5. QED BY <2>2, <2>3, <2>4, LaidTagged
<1>2. Covered(words, quads, others, W, Q, R, P, bytes, "") BY DEF Covered
<1>3. Vtable(class, layout, swap(W, Q), swap(R, P), bytes, "", "EINVAL")
  <2>1. swap64(P) = swap(R, P) BY SwapForms
  <2> HIDE DEF layout
  <2>2. class = [Class("NOTE", layout, swap(W, Q), swap(R, P)) EXCEPT !.bytes = bytes]
    BY <2>1 DEF mk_load_command_note, layout
  <2> HIDE DEF class, W, Q, R, P, bytes
  <2>3. QED BY <2>2, ClassVtable
<1> HIDE DEF layout, words, quads, others, W, Q, R, P, bytes, class
<1>4. Faithful(class) BY <1>1, <1>2, <1>3, FaithfulMixed
<1>5. QED BY <1>4 DEF class

LEMMA UuidFaithful == Faithful(mk_load_command_uuid)
<1> DEFINE layout == struct_uuid_command
           words == {"cmd", "cmdsize"}
           quads == {}
           others == {"uuid"}
           R == {}
           P == {}
           W == {"cmd", "cmdsize"}
           Q == {}
           bytes == {"uuid"}
           class == mk_load_command_uuid
<1>1. Laid(layout, words, quads, others)
  <2>1. layout = Header \o Chars("uuid", 16) BY DEF struct_uuid_command
  <2>2. words = {"cmd", "cmdsize"} \union {} /\ quads = {} /\ others = {"uuid"} OBVIOUS
  <2> HIDE DEF layout, words, quads, others
  <2>3. QED BY <2>1, <2>2, LaidChars, LaidCommand
<1>2. Covered(words, quads, others, W, Q, R, P, bytes, "") BY DEF Covered
<1>3. Vtable(class, layout, swap(W, Q), swap(R, P), bytes, "", "EINVAL")
  <2>1. swap32(W) = swap(W, Q) /\ Nothing = swap(R, P) BY SwapForms
  <2> HIDE DEF layout
  <2>2. class = [Class("UUID", layout, swap(W, Q), swap(R, P)) EXCEPT !.bytes = bytes]
    BY <2>1 DEF mk_load_command_uuid, layout
  <2> HIDE DEF class, W, Q, R, P, bytes
  <2>3. QED BY <2>2, ClassVtable
<1> HIDE DEF layout, words, quads, others, W, Q, R, P, bytes, class
<1>4. Faithful(class) BY <1>1, <1>2, <1>3, FaithfulMixed
<1>5. QED BY <1>4 DEF class

\* So each class goes with its structure.
LEMMA AllFaithful == ASSUME NEW class \in _mk_load_command_classes PROVE Faithful(class)
<1>1. \A c \in {mk_load_command_code_signature, mk_load_command_segment_split_info,
             mk_load_command_function_starts, mk_load_command_data_in_code,
             mk_load_command_code_sign_drs, mk_load_command_dyld_exports_trie,
             mk_load_command_dyld_chained_fixups} : Faithful(c)
  BY LinkeditFaithful
    DEF mk_load_command_code_signature, mk_load_command_segment_split_info, mk_load_command_function_starts,
    mk_load_command_data_in_code, mk_load_command_code_sign_drs, mk_load_command_dyld_exports_trie,
    mk_load_command_dyld_chained_fixups
<1>2. \A c \in {mk_load_command_load_dylib, mk_load_command_id_dylib, mk_load_command_load_weak_dylib,
             mk_load_command_reexport_dylib, mk_load_command_lazy_load_dylib,
             mk_load_command_load_upward_dylib} : Faithful(c)
  BY DylibFaithful
    DEF mk_load_command_load_dylib, mk_load_command_id_dylib, mk_load_command_load_weak_dylib,
    mk_load_command_reexport_dylib, mk_load_command_lazy_load_dylib, mk_load_command_load_upward_dylib
<1>3. \A c \in {mk_load_command_dyld_info, mk_load_command_dyld_info_only} : Faithful(c)
  BY DyldInfoFaithful DEF mk_load_command_dyld_info, mk_load_command_dyld_info_only
<1>4. \A c \in {mk_load_command_load_dylinker, mk_load_command_id_dylinker,
             mk_load_command_dyld_environment} : Faithful(c)
  BY DylinkerFaithful, DylinkerOther
    DEF mk_load_command_load_dylinker, mk_load_command_id_dylinker, mk_load_command_dyld_environment
<1>5. \A c \in {mk_load_command_version_min_macosx, mk_load_command_version_min_iphoneos,
             mk_load_command_version_min_tvos, mk_load_command_version_min_watchos} : Faithful(c)
  BY VersionMinFaithful DEF mk_load_command_version_min_macosx, mk_load_command_version_min_iphoneos,
    mk_load_command_version_min_tvos, mk_load_command_version_min_watchos
<1>6. \A c \in {mk_load_command_rpath, mk_load_command_sub_framework, mk_load_command_sub_client,
             mk_load_command_sub_library, mk_load_command_linker_option} : Faithful(c)
  BY RpathFaithful, SubFrameworkFaithful, SubClientFaithful, SubLibraryFaithful, LinkerOptionFaithful
<1>7. \A c \in {mk_load_command_symtab, mk_load_command_dysymtab, mk_load_command_routines,
             mk_load_command_twolevel_hints, mk_load_command_prebind_cksum,
             mk_load_command_encryption_info, mk_load_command_encryption_info_64,
             mk_load_command_build_version} : Faithful(c)
  BY SymtabFaithful, DysymtabFaithful, RoutinesFaithful, TwolevelHintsFaithful, PrebindCksumFaithful,
     EncryptionInfoFaithful, EncryptionInfo64Faithful, BuildVersionFaithful
<1>8. \A c \in {mk_load_command_segment, mk_load_command_segment_64, mk_load_command_routines_64,
             mk_load_command_main, mk_load_command_source_version, mk_load_command_note,
             mk_load_command_uuid} : Faithful(c)
  BY SegmentFaithful, Segment64Faithful, Routines64Faithful, MainFaithful, SourceVersionFaithful,
     NoteFaithful, UuidFaithful
<1>9. QED BY <1>1, <1>2, <1>3, <1>4, <1>5, <1>6, <1>7, <1>8
  DEF _mk_load_command_classes

\* Only the versions have parts, and copy_native swaps the words they are taken from.
Dated(class) ==
  \/ class.parts = Nothing
  \/ class.parts = VersionMinParts /\ class.swaps = swap32({"cmd", "cmdsize", "version", "sdk"})
  \/ class.parts = BuildVersionParts
     /\ class.swaps = swap32({"cmd", "cmdsize", "minos", "sdk"} \union {"platform", "ntools"})

LEMMA AllDated ==
  ASSUME NEW class \in _mk_load_command_classes
  PROVE  Dated(class)
<1>1. \A name, layout, swaps, reads :
        /\ Class(name, layout, swaps, reads).parts = Nothing
        /\ Class(name, layout, swaps, reads).swaps = swaps
        /\ {"parts", "swaps", "refuses"} \subseteq DOMAIN Class(name, layout, swaps, reads)
  BY DEF Class
<1>2. \A name : /\ LinkeditClass(name).parts = Nothing /\ DyldInfoClass(name).parts = Nothing
                /\ DylibClass(name).parts = Nothing /\ DylinkerClass(name).parts = Nothing
                /\ {"parts", "refuses"} \subseteq DOMAIN DylinkerClass(name)
                /\ \A layout, field : StringClass(name, layout, field).parts = Nothing
  BY <1>1 DEF LinkeditClass, DyldInfoClass, DylibClass, DylinkerClass, StringClass
<1>3. \A c \in {mk_load_command_code_signature, mk_load_command_segment_split_info,
             mk_load_command_function_starts, mk_load_command_data_in_code,
             mk_load_command_code_sign_drs, mk_load_command_dyld_exports_trie,
             mk_load_command_dyld_chained_fixups} : c.parts = Nothing
  BY <1>2
    DEF mk_load_command_code_signature, mk_load_command_segment_split_info, mk_load_command_function_starts,
    mk_load_command_data_in_code, mk_load_command_code_sign_drs, mk_load_command_dyld_exports_trie,
    mk_load_command_dyld_chained_fixups
<1>4. \A c \in {mk_load_command_load_dylib, mk_load_command_id_dylib, mk_load_command_load_weak_dylib,
             mk_load_command_reexport_dylib, mk_load_command_lazy_load_dylib,
             mk_load_command_load_upward_dylib} : c.parts = Nothing
  BY <1>2 DEF mk_load_command_load_dylib, mk_load_command_id_dylib, mk_load_command_load_weak_dylib,
    mk_load_command_reexport_dylib, mk_load_command_lazy_load_dylib, mk_load_command_load_upward_dylib
<1>5. \A c \in {mk_load_command_dyld_info, mk_load_command_dyld_info_only} : c.parts = Nothing
  BY <1>2 DEF mk_load_command_dyld_info, mk_load_command_dyld_info_only
<1>6. \A c \in {mk_load_command_load_dylinker, mk_load_command_id_dylinker,
             mk_load_command_dyld_environment} : c.parts = Nothing
  BY <1>2
    DEF mk_load_command_load_dylinker, mk_load_command_id_dylinker, mk_load_command_dyld_environment
<1>7. \A c \in {mk_load_command_rpath, mk_load_command_sub_framework, mk_load_command_sub_client,
             mk_load_command_sub_library, mk_load_command_linker_option} : c.parts = Nothing
  BY <1>1, <1>2 DEF mk_load_command_rpath, mk_load_command_sub_framework, mk_load_command_sub_client,
    mk_load_command_sub_library, mk_load_command_linker_option
<1>8. \A c \in {mk_load_command_symtab, mk_load_command_dysymtab, mk_load_command_routines,
             mk_load_command_twolevel_hints, mk_load_command_prebind_cksum,
             mk_load_command_encryption_info, mk_load_command_encryption_info_64} : c.parts = Nothing
  BY <1>1, <1>2
    DEF mk_load_command_dysymtab_copy_native, mk_load_command_dysymtab_getters, mk_load_command_symtab,
    mk_load_command_dysymtab, mk_load_command_routines, mk_load_command_twolevel_hints,
    mk_load_command_prebind_cksum, mk_load_command_encryption_info, mk_load_command_encryption_info_64
<1>9. \A c \in {mk_load_command_routines_64, mk_load_command_main, mk_load_command_source_version,
             mk_load_command_note, mk_load_command_uuid} : c.parts = Nothing
  BY <1>1, <1>2 DEF mk_load_command_routines_64, mk_load_command_main, mk_load_command_source_version,
    mk_load_command_note, mk_load_command_uuid
<1>10. mk_load_command_segment.parts = Nothing /\ mk_load_command_segment_64.parts = Nothing
  <2> DEFINE segment(name, layout, swaps, reads, x, y) ==
               [Class(name, layout, swaps, reads) EXCEPT !.bytes = {"segname"}, !.otherwise["maxprot"] = x,
                                                         !.otherwise["initprot"] = y]
  <2>1. \A name, layout, swaps, reads, x, y : segment(name, layout, swaps, reads, x, y).parts = Nothing
    BY <1>1
  <2> DEFINE H == {"cmd", "cmdsize"}
             addresses == {"vmaddr", "vmsize", "fileoff", "filesize"}
             numbers == {"maxprot", "initprot", "nsects", "flags"}
             all == {"vmaddr", "vmsize", "fileoff", "filesize", "maxprot", "initprot", "nsects", "flags"}
             max == UINT_MAX(4) \div 2
  <2>2. mk_load_command_segment =
          segment("SEGMENT", struct_segment_command, swap32(H \union all), swap32(all), max, max)
    BY DEF mk_load_command_segment
  <2>3. mk_load_command_segment_64 =
          segment("SEGMENT_64", struct_segment_command_64, swap(H \union numbers, addresses),
                swap(numbers, addresses), max, max)
    BY DEF mk_load_command_segment_64
  <2> HIDE DEF segment, H, addresses, numbers, all, max
  <2>4. QED BY <2>1, <2>2, <2>3
<1>11. \A c \in {mk_load_command_version_min_macosx, mk_load_command_version_min_iphoneos,
             mk_load_command_version_min_tvos, mk_load_command_version_min_watchos} : Dated(c)
  <2>1. ASSUME NEW name PROVE Dated(VersionMinClass(name))
    BY <1>1 DEF VersionMinClass, VersionMinParts, Dated
  <2>2. QED BY <2>1 DEF mk_load_command_version_min_macosx, mk_load_command_version_min_iphoneos,
    mk_load_command_version_min_tvos, mk_load_command_version_min_watchos
<1>12. Dated(mk_load_command_build_version)
  BY <1>1 DEF mk_load_command_build_version, BuildVersionParts, Dated
<1>13. QED BY <1>3, <1>4, <1>5, <1>6, <1>7, <1>8, <1>9, <1>10, <1>11, <1>12
  DEF Dated, _mk_load_command_classes

\* A field lies in its structure.
Measured(layout) == \A i \in DOMAIN layout : layout[i][2] \in Nat

LEMMA WidthsGrow ==
  ASSUME NEW S, NEW layout \in Seq(S), Measured(layout), NEW n \in 1 .. Len(layout)
  PROVE  /\ Widths(layout, n) \in Nat /\ Widths(layout, n - 1) \in Nat
         /\ Widths(layout, n) = Widths(layout, n - 1) + layout[n][2]
<1> DEFINE long == [i \in 1 .. n |-> layout[i][2]]
           short == [i \in 1 .. n - 1 |-> layout[i][2]]
<1>1. n \in Nat \ {0} /\ n - 1 \in Nat /\ DOMAIN layout = 1 .. Len(layout) OBVIOUS
<1>2. \A i \in 1 .. n : layout[i][2] \in Nat BY <1>1 DEF Measured
<1>3. long \in Seq(Nat) /\ Len(long) = n BY <1>1, <1>2
<1>4. short \in Seq(Nat) /\ Len(short) = n - 1 BY <1>1, <1>2
<1>5. \A i \in 1 .. n - 1 : long[i] = short[i] BY <1>1
<1>6. long[n] = layout[n][2] BY <1>1
<1>7. Widths(layout, n) = Horner(1, long) /\ Widths(layout, n - 1) = Horner(1, short) BY DEF Widths
<1> HIDE DEF long, short
<1>8. PICK a \in [0 .. n -> Nat] :
        /\ a[0] = 0 /\ \A i \in 1 .. n : a[i] = 1 * a[i - 1] + long[i]
        /\ Horner(1, long) = a[n]
  BY <1>3, HornerSteps
<1>9. PICK b \in [0 .. n - 1 -> Nat] :
        /\ b[0] = 0 /\ \A i \in 1 .. n - 1 : b[i] = 1 * b[i - 1] + short[i]
        /\ Horner(1, short) = b[n - 1]
  <2>1. \E b \in [0 .. Len(short) -> Nat] :
          /\ b[0] = 0 /\ \A i \in 1 .. Len(short) : b[i] = 1 * b[i - 1] + short[i]
          /\ Horner(1, short) = b[Len(short)]
    BY <1>4, HornerSteps
  <2>2. QED BY <1>4, <2>1
<1>10. \A i \in 0 .. n - 1 : i \in {j \in 0 .. n - 1 : a[j] = b[j]}
  <2> DEFINE T == {j \in 0 .. n - 1 : a[j] = b[j]}
  <2>1. 0 \in T BY <1>1, <1>8, <1>9
  <2>2. ASSUME NEW i \in 1 .. n - 1, i - 1 \in T PROVE i \in T
    <3>1. a[i - 1] = b[i - 1] BY <2>2
    <3>2. a[i] = 1 * a[i - 1] + long[i] BY <1>1, <1>8
    <3>3. b[i] = 1 * b[i - 1] + short[i] BY <1>9
    <3>4. QED BY <1>5, <3>1, <3>2, <3>3
  <2> HIDE DEF T
  <2>3. \A i \in 0 .. n - 1 : i \in T BY <1>1, <2>1, <2>2, UpTo
  <2>4. QED BY <2>3 DEF T
<1>11. a[n - 1] = b[n - 1] BY <1>1, <1>10
<1>12. a[n] = 1 * a[n - 1] + layout[n][2] BY <1>1, <1>6, <1>8
<1>13. a[n - 1] \in Nat /\ a[n] \in Nat /\ layout[n][2] \in Nat BY <1>1, <1>2, <1>8
<1>14. QED BY <1>7, <1>8, <1>9, <1>11, <1>12, <1>13

LEMMA FieldInside ==
  ASSUME NEW S, NEW layout \in Seq(S), Measured(layout), NEW f, HasField(layout, f)
  PROVE  /\ OffsetOf(layout, f) \in Nat /\ WidthOf(layout, f) \in Nat /\ Sizeof(layout) \in Nat
         /\ OffsetOf(layout, f) + WidthOf(layout, f) <= Sizeof(layout)
<1> DEFINE n == FieldIndex(layout, f)
           N == Len(layout)
<1>1. n \in 1 .. N
  <2>1. n \in DOMAIN layout BY Zenon DEF HasField, FieldIndex
  <2>2. QED BY <2>1
<1>2. OffsetOf(layout, f) = Widths(layout, n - 1) /\ WidthOf(layout, f) = layout[n][2]
      /\ Sizeof(layout) = Widths(layout, N)
  BY DEF OffsetOf, WidthOf, Sizeof
<1> HIDE DEF n
<1>3. N \in Nat OBVIOUS
<1>4. layout[n][2] \in Nat BY <1>1 DEF Measured
<1>5. \A i \in 1 .. N : /\ Widths(layout, i) \in Nat /\ Widths(layout, i - 1) \in Nat
                        /\ Widths(layout, i) = Widths(layout, i - 1) + layout[i][2]
                        /\ layout[i][2] \in Nat
  BY WidthsGrow DEF Measured
<1> HIDE DEF N
<1>6. \A i \in 0 .. N : i \in {j \in 0 .. N : j >= n => Widths(layout, j) >= Widths(layout, n)}
  <2> DEFINE T == {j \in 0 .. N : j >= n => Widths(layout, j) >= Widths(layout, n)}
  <2>1. 0 \in T BY <1>1, <1>3
  <2>2. ASSUME NEW i \in 1 .. N, i - 1 \in T PROVE i \in T
    <3>1. CASE i > n
      <4>1. i - 1 >= n BY <1>1, <1>3, <3>1
      <4>2. Widths(layout, i - 1) >= Widths(layout, n) BY <2>2, <4>1
      <4>3. Widths(layout, n) \in Nat BY <1>1, <1>5
      <4>4. /\ Widths(layout, i) = Widths(layout, i - 1) + layout[i][2]
            /\ Widths(layout, i) \in Nat /\ Widths(layout, i - 1) \in Nat /\ layout[i][2] \in Nat
        BY <1>5, <2>2
      <4>5. i \in 0 .. N BY <1>3
      <4> DEFINE x == Widths(layout, i)
                 y == Widths(layout, i - 1)
                 z == Widths(layout, n)
                 w == layout[i][2]
      <4>6. x \in Nat /\ y \in Nat /\ z \in Nat /\ w \in Nat /\ x = y + w /\ y >= z
        BY <4>2, <4>3, <4>4
      <4> HIDE DEF x, y, z, w
      <4>7. x >= z BY <4>6
      <4>8. QED BY <4>5, <4>7 DEF x, z
    <3>2. CASE i = n
      <4>1. Widths(layout, n) \in Nat BY <1>1, <1>5
      <4>2. i \in 0 .. N BY <1>3
      <4>3. QED BY <3>2, <4>1, <4>2
    <3>3. CASE i < n
      <4>1. i \in 0 .. N /\ ~ (i >= n) BY <1>1, <1>3, <3>3
      <4>2. QED BY <4>1
    <3>4. QED BY <1>1, <1>3, <3>1, <3>2, <3>3
  <2> HIDE DEF T
  <2>3. \A i \in 0 .. N : i \in T BY <1>3, <2>1, <2>2, UpTo
  <2>4. QED BY <2>3 DEF T
<1>7. Widths(layout, N) >= Widths(layout, n)
  <2>1. N \in 0 .. N /\ N >= n BY <1>1, <1>3
  <2>2. QED BY <1>6, <2>1
<1>8. Widths(layout, n) = Widths(layout, n - 1) + layout[n][2]
      /\ Widths(layout, n) \in Nat /\ Widths(layout, n - 1) \in Nat
  BY <1>1, <1>5
<1>9. Widths(layout, N) \in Nat
  <2>1. N \in 1 .. N BY <1>1, <1>3
  <2>2. QED BY <1>5, <2>1
<1>10. QED BY <1>2, <1>4, <1>7, <1>8, <1>9

\* A number of a class has a place in the structure, with the width it is read with.
LEMMA FaithfulField ==
  ASSUME NEW class, Faithful(class), NEW widths \in {class.reads, class.swaps}, NEW f \in DOMAIN widths
  PROVE  /\ HasField(class.layout, f) /\ widths[f] \in {4, 8}
         /\ Wide(class.layout, f, widths[f]) /\ WidthOf(class.layout, f) = widths[f]
         /\ OffsetOf(class.layout, f) \in Nat
         /\ OffsetOf(class.layout, f) + widths[f] <= Sizeof(class.layout)
<1> DEFINE layout == class.layout
<1>1. PICK words, quads, others : Describes(class, words, quads, others) BY DEF Faithful
<1>2. Laid(layout, words, quads, others) /\ words \intersect (quads \union others) = {}
      /\ quads \intersect others = {} /\ Numbered(widths, words, quads)
  BY <1>1 DEF Describes
<1> HIDE DEF layout
<1>3. (f \in words /\ widths[f] = 4) \/ (f \in quads /\ widths[f] = 8) BY <1>2 DEF Numbered
<1>4. HasField(layout, f) BY <1>2, <1>3 DEF Laid
<1>5. Wide(layout, f, widths[f]) BY <1>2, <1>3 DEF Laid, Wide
<1>6. WidthOf(layout, f) = widths[f] BY <1>4, <1>5, WidthIs
<1> DEFINE S == (words \union quads \union others) \X Nat
<1>7. layout \in Seq(S) BY <1>2 DEF Laid
<1>8. Measured(layout)
  <2>1. \A i \in DOMAIN layout : layout[i] \in S BY <1>7
  <2>2. \A x \in S : x[2] \in Nat OBVIOUS
  <2>3. QED BY <2>1, <2>2 DEF Measured
<1> HIDE DEF S
<1>9. OffsetOf(layout, f) \in Nat /\ OffsetOf(layout, f) + widths[f] <= Sizeof(layout)
  BY <1>4, <1>6, <1>7, <1>8, FieldInside
<1>10. QED BY <1>3, <1>4, <1>5, <1>6, <1>9 DEF layout

\* What lies in a window that does not wrap is where the window is, in either direction.
LEMMA LocatedIs ==
  ASSUME NEW start \in Word, NEW size \in Word, start + size <= MaxWord,
         NEW offset \in Nat, NEW address \in Nat, NEW length \in Nat,
         address + offset >= start, address + offset + length <= start + size
  PROVE  Locate(start, size, offset, address, length) = Ok(address + offset)
<1>1. Wrap(start + size) = start + size
  BY WrapOfWord, WordAssumption DEF Word
<1>2. /\ ~ (MaxWord - offset < address) /\ ~ (MaxWord - length < address + offset)
      /\ ~ (address + offset < start) /\ ~ (start + size < address + offset + length)
  BY WordAssumption DEF Word
<1>3. QED BY <1>1, <1>2 DEF Locate

LEMMA InWindow ==
  ASSUME NEW mobj \in mk_memory_object, NeverWraps(mobj),
         NEW offset \in Nat, NEW address \in Nat, NEW length \in Nat
  PROVE  /\ /\ address >= mobj.address
            /\ address + length <= mobj.address + mobj.length
            => mk_memory_object_unmap_address(mobj, 0, address, length) =
                 Ok(mobj.target_address + (address - mobj.address))
         /\ /\ address + offset >= mobj.target_address
            /\ address + offset + length <= mobj.target_address + mobj.length
            => mk_memory_object_remap_address(mobj, offset, address, length) =
                 Ok(mobj.address + ((address + offset) - mobj.target_address))
<1> DEFINE t == mobj.target_address
           a == mobj.address
           n == mobj.length
<1>1. /\ t \in Word /\ a \in Word /\ n \in Word /\ t + n <= MaxWord /\ a + n <= MaxWord
      /\ t \in Nat /\ a \in Nat /\ n \in Nat /\ MaxWord \in Nat
  BY WordAssumption DEF mk_memory_object, NeverWraps, Word
<1> HIDE DEF t, a, n
<1>2. ASSUME address >= a, address + length <= a + n
      PROVE  mk_memory_object_unmap_address(mobj, 0, address, length) = Ok(t + (address - a))
  <2>1. 0 + address = address /\ 0 + address >= a /\ 0 + address + length <= a + n /\ 0 \in Nat
    BY <1>1, <1>2
  <2>2. Locate(a, n, address, 0, length) = Ok(0 + address) BY <1>1, <2>1, LocatedIs
  <2>3. address + 0 = address /\ address \in Word /\ t + (address - a) \in Word
    BY <1>1, <1>2 DEF Word
  <2>4. Wrap(address + 0) = address BY <2>3, WrapOfWord
  <2>5. Wrap(t + (Wrap(address + 0) - a)) = t + (address - a) BY <2>3, <2>4, WrapOfWord
  <2>6. QED
    BY <2>2, <2>5 DEF mk_memory_object_unmap_address, mk_memory_object_verify_local_pointer,
                      Succeeded, Ok, t, a, n
<1>3. ASSUME address + offset >= t, address + offset + length <= t + n
      PROVE  mk_memory_object_remap_address(mobj, offset, address, length) =
               Ok(a + ((address + offset) - t))
  <2> DEFINE at == address + offset
  <2>1. Locate(t, n, offset, address, length) = Ok(at) BY <1>1, <1>3, LocatedIs
  <2>2. at \in Nat /\ a + (at - t) \in Word BY <1>1, <1>3 DEF Word
  <2> HIDE DEF at
  <2>3. Wrap(a + (at - t)) = a + (at - t) BY <2>2, WrapOfWord
  <2>4. mk_memory_object_remap_address(mobj, offset, address, length) = Ok(a + (at - t))
    BY <2>1, <2>3 DEF mk_memory_object_remap_address, Succeeded, Ok, t, a, n
  <2>5. QED BY <2>4 DEF at
<1>4. QED BY <1>2, <1>3 DEF t, a, n

\* A word that an accessor of more than one byte orders is the one the bytes make.
LEMMA OrderedWord ==
  ASSUME NEW m, m.bytes \in Seq(Byte), m.cpu \in Cpus, NEW p, NEW n \in 2 .. 8
  PROVE  Ordered(m, Load(m.cpu, Peek(m, p, n)), n, TRUE) = FromBytes(Peek(m, p, n))
<1> DEFINE bytes == Peek(m, p, n)
           turned == Reverse(bytes)
           word == Load(m.cpu, bytes)
<1>1. n \in 0 .. 8 /\ n \in Nat /\ n > 1 OBVIOUS
<1>2. Swap(m, word, n) = FromBytes(bytes) BY <1>1, LoadedWord
<1>3. bytes \in Seq(Byte) /\ Len(bytes) = n BY <1>1, PeekBytes
<1> HIDE DEF bytes
<1>4. turned \in Seq(Byte) /\ Len(turned) = n BY <1>3, ReverseTwice
<1> HIDE DEF turned
<1>5. word \in {FromBytes(bytes), FromBytes(turned)} BY DEF Load, word, turned
<1>6. \A s \in Seq(Byte) : Len(s) = n => FromBytes(s) \in 0 .. UINT_MAX(n)
  <2>1. SUFFICES ASSUME NEW s \in Seq(Byte), Len(s) = n PROVE FromBytes(s) \in 0 .. UINT_MAX(n) OBVIOUS
  <2>2. Len(s) <= 8 BY <1>1, <2>1
  <2>3. QED BY <2>1, <2>2, WordOfBytes
<1>7. word \in 0 .. UINT_MAX(n) BY <1>3, <1>4, <1>5, <1>6
<1> HIDE DEF word
<1>8. word % ByteValues ^ n = word
  <2>1. ByteValues ^ n \in Nat \ {0} BY <1>1, PowerAssumption
  <2>2. QED BY <1>7, <2>1 DEF UINT_MAX
<1>9. Ordered(m, word, n, TRUE) = Swap(m, word, n) BY <1>1, <1>8 DEF Ordered, Swap
<1>10. QED BY <1>2, <1>9 DEF word, bytes

----------------------------------------------------------------------------
(* The numbers of a command.                                               *)

\* A command that is made has one of the classes.
LEMMA CommandClass ==
  ASSUME NEW p, NEW made, made = mk_load_command_init(mem, image.header_mapping, p), Succeeded(made)
  PROVE  /\ made.value.vtable \in _mk_load_command_classes /\ made.value.mach_load_command = p
<1> DEFINE classes == ClassOf(Raw(mem, p, struct_load_command, "cmd"))
           opened == {[vtable |-> class, mach_load_command |-> p] : class \in classes}
<1>1. classes \subseteq _mk_load_command_classes BY DEF ClassOf
<1>2. \A c \in opened : c.vtable \in _mk_load_command_classes /\ c.mach_load_command = p
  <2> HIDE DEF classes
  <2>1. QED BY <1>1
<1>3. \/ made = Fails("EINVALID_DATA")
      \/ opened # {} /\ made = Ok(CHOOSE c \in opened : TRUE)
  BY DEF mk_load_command_init
<1> HIDE DEF opened
<1>4. opened # {} /\ made.value = CHOOSE c \in opened : TRUE BY <1>3 DEF Succeeded, Ok, Fails
<1>5. made.value \in opened BY <1>4
<1>6. QED BY <1>2, <1>5

\* The command the walk has come to, when it is as large as its structure.
LEMMA WholeCommand ==
  ASSUME ImageInv, Typed, NEW command \in WholeCommands
  PROVE  /\ command.vtable \in _mk_load_command_classes /\ command.mach_load_command = lc
         /\ Faithful(command.vtable) /\ Dated(command.vtable)
         /\ file \in Files /\ cpu \in Cpus /\ Mapped /\ lc # NULL
         /\ lc \in Nat /\ lc >= HeaderAddress /\ HeaderAddress \in Nat
         /\ FileSize(lc) \in Nat /\ cmdsize(mem, lc) = FileSize(lc)
         /\ FileSize(lc) >= Sizeof(command.vtable.layout)
         /\ lc + FileSize(lc) <= HeaderAddress + image.header_mapping.length
<1>1. pc = "open" /\ lc # NULL /\ command \in Commands BY DEF WholeCommands, Commands
<1>2. PICK made : made = mk_load_command_init(mem, image.header_mapping, lc) /\ Succeeded(made)
                  /\ command = made.value
  BY <1>1 DEF Commands
<1>3. command.vtable \in _mk_load_command_classes /\ command.mach_load_command = lc
  BY <1>2, CommandClass
<1>4. Faithful(command.vtable) /\ Dated(command.vtable) BY <1>3, AllFaithful, AllDated
<1>5. file \in Files /\ cpu \in Cpus /\ lc \in Nat /\ Mapped
  BY <1>1 DEF ImageInv, WalkInv, Typed, TypeOK, Mapped
<1>6. cmdsize(mem, lc) = FileSize(lc) /\ FileSize(lc) \in Nat
  <2>1. \A n : n \in 0 .. UINT_MAX(4) => n \in Nat OBVIOUS
  <2>2. QED BY <1>5, <2>1, HeaderIsFile
<1>7. FileSize(lc) >= Sizeof(command.vtable.layout)
  <2>1. command.vtable.command_base_size = Sizeof(command.vtable.layout)
    BY <1>4 DEF Faithful, Describes
  <2>2. FileSize(lc) >= command.vtable.command_base_size BY DEF WholeCommands, mk_load_command_base_size
  <2>3. QED BY <2>1, <2>2
<1>8. image.header_size \in Nat /\ image.header_mapping.address = HeaderAddress
  BY <1>5, SizesAreNumbers DEF ImageInv, MappingInv
<1>9. HeaderAddress \in Nat BY ImageAssumption, WordAssumption DEF Word
<1>10. lc >= HeaderAddress + image.header_size
       /\ lc + cmdsize(mem, lc) <= HeaderAddress + image.header_mapping.length
  BY <1>1, <1>8 DEF ImageInv, CommandsAreMapped
<1>11. lc >= HeaderAddress BY <1>5, <1>8, <1>9, <1>10
<1>12. QED BY <1>1, <1>3, <1>4, <1>5, <1>6, <1>7, <1>9, <1>10, <1>11

\* The numbers, read with the getters and out of the structure copy_native fills.
LEMMA NumbersRead ==
  ASSUME ImageInv, Typed, NEW command \in WholeCommands
  PROVE  Numbers(command)
<1> DEFINE class == command.vtable
           copy == copy_native(mem, command, class)
<1>1. Faithful(class) /\ file \in Files /\ cpu \in Cpus /\ command.mach_load_command = lc
  BY WholeCommand
<1>2. IsA(command, class) BY DEF IsA
<1>3. \A f, width : HasField(class.layout, f) /\ Wide(class.layout, f, width) /\ width \in {4, 8} =>
        Read(mem, lc, class.layout, f, width) = FileField(lc, class.layout, f)
  <2>1. \A width \in {4, 8} : width \in 0 .. 8 OBVIOUS
  <2>2. QED BY <1>1, <2>1, ReadIsFile
<1>4. ASSUME NEW widths \in {class.reads, class.swaps}, NEW f \in DOMAIN widths
      PROVE  Read(mem, lc, class.layout, f, widths[f]) = FileField(lc, class.layout, f)
  <2>1. HasField(class.layout, f) /\ Wide(class.layout, f, widths[f]) /\ widths[f] \in {4, 8}
    BY <1>1, FaithfulField
  <2>2. QED BY <1>3, <2>1
<1>5. \A f \in DOMAIN class.reads : getter(mem, command, class, f) = FileField(lc, class.layout, f)
  BY <1>1, <1>2, <1>4 DEF getter
<1>6. ASSUME class.refuses # "none"
      PROVE  /\ \A f \in DOMAIN class.swaps : copy.value[f] = FileField(lc, class.layout, f)
             /\ \A i \in DOMAIN class.layout :
                  class.layout[i][1] \in DOMAIN copy.value \union {class.string, "pad"}
  <2>1. copy.value = native(mem, lc, class) BY <1>1, <1>2 DEF copy_native, Ok
  <2>2. DOMAIN native(mem, lc, class) = DOMAIN class.swaps \union class.bytes
        /\ \A f \in DOMAIN class.swaps :
             native(mem, lc, class)[f] = Read(mem, lc, class.layout, f, class.swaps[f])
    BY DEF native
  <2>3. \A f \in DOMAIN class.swaps : copy.value[f] = FileField(lc, class.layout, f)
    BY <1>4, <2>1, <2>2
  <2>4. PICK words, quads, others : Describes(class, words, quads, others) BY <1>1 DEF Faithful
  <2> DEFINE names == words \union quads \union others
  <2>5. names \subseteq DOMAIN class.swaps \union class.bytes \union {class.string, "pad"}
    BY <1>6, <2>4 DEF Describes
  <2>6. \A i \in DOMAIN class.layout : class.layout[i][1] \in names
    BY <2>4 DEF Describes, Laid
  <2> HIDE DEF names, class, copy
  <2>7. QED BY <2>1, <2>2, <2>3, <2>5, <2>6
<1>7. QED BY <1>5, <1>6 DEF Numbers

LEMMA DescribedSize ==
  ASSUME NEW class, NEW words, NEW quads, NEW others, Describes(class, words, quads, others)
  PROVE  Sizeof(class.layout) \in Nat
<1> DEFINE layout == class.layout
           S == (words \union quads \union others) \X Nat
<1>1. layout \in Seq(S) BY DEF Describes, Laid
<1>2. \A i \in DOMAIN layout : layout[i][2] \in Nat
  <2>1. \A i \in DOMAIN layout : layout[i] \in S BY <1>1
  <2>2. \A x \in S : x[2] \in Nat OBVIOUS
  <2>3. QED BY <2>1, <2>2
<1> HIDE DEF layout, S
<1>3. [i \in 1 .. Len(layout) |-> layout[i][2]] \in Seq(Nat) BY <1>1, <1>2
<1>4. Sizeof(layout) \in Nat BY <1>3, HornerType DEF Sizeof, Widths
<1>5. QED BY <1>4 DEF layout

\* At their places in the target, through the mapping of the header and through one made for each.
LEMMA PlacesRead ==
  ASSUME ImageInv, Typed, NEW command \in WholeCommands
  PROVE  Reads(command)
<1> DEFINE class == command.vtable
           mapping == image.header_mapping
           place == mk_load_command_get_target_address(mem, mapping, command)
           there == LoadAddress + (lc - HeaderAddress)
<1>1. /\ Faithful(class) /\ file \in Files /\ cpu \in Cpus /\ command.mach_load_command = lc /\ Mapped
      /\ lc \in Nat /\ lc >= HeaderAddress /\ HeaderAddress \in Nat /\ FileSize(lc) \in Nat
      /\ cmdsize(mem, lc) = FileSize(lc) /\ FileSize(lc) >= Sizeof(class.layout)
      /\ lc + FileSize(lc) <= HeaderAddress + mapping.length
  BY WholeCommand
<1>2. /\ mapping \in mk_memory_object /\ NeverWraps(mapping)
      /\ mapping.target_address = LoadAddress /\ mapping.address = HeaderAddress
  <2>1. mapping.address = HeaderAddress BY <1>1 DEF ImageInv, MappingInv
  <2>2. /\ mapping \in mk_memory_object /\ mapping.target_address = LoadAddress
        /\ HeaderAddress + mapping.length <= MaxWord /\ LoadAddress + mapping.length <= MaxWord
    BY <1>1 DEF Typed, WindowInv
  <2>3. QED BY <2>1, <2>2 DEF NeverWraps
<1>3. LoadAddress \in Nat /\ mapping.length \in Nat
  BY <1>2, ImageAssumption, WordAssumption DEF Word, mk_memory_object
<1> HIDE DEF mapping
<1>4. place = Ok(there)
  <2> DEFINE size == FileSize(lc)
  <2>1. place = mk_memory_object_unmap_address(mapping, 0, lc, size)
    BY <1>1 DEF mk_load_command_get_target_address, mk_load_command_size
  <2>2. size \in Nat /\ lc >= mapping.address /\ lc + size <= mapping.address + mapping.length
    BY <1>1, <1>2
  <2> HIDE DEF place, size
  <2>3. mk_memory_object_unmap_address(mapping, 0, lc, size) =
          Ok(mapping.target_address + (lc - mapping.address))
    <3>1. 0 \in Nat OBVIOUS
    <3>2. QED BY <1>1, <1>2, <2>2, <3>1, InWindow
  <2>4. QED BY <1>2, <2>1, <2>3
<1>5. place.value = there BY <1>4 DEF Ok
<1> HIDE DEF place
<1>6. mem.bytes \in Seq(Byte) /\ mem.cpu \in Cpus BY <1>1, ImageAssumption DEF mem
<1>7. ASSUME NEW f \in DOMAIN class.reads
      PROVE  LET width == class.reads[f]
                 offset == OffsetOf(class.layout, f)
                 address == there + offset
             IN  /\ mk_memory_object_read(mem, mapping, offset, there, width, TRUE) =
                      Ok(FileField(lc, class.layout, f))
                 /\ \A slack \in Slacks :
                      mk_memory_map_read(mem,
                        Ok([target_address |-> address,
                            address |-> HeaderAddress + (address - LoadAddress),
                            length |-> width + slack]), width, TRUE) =
                      Ok(FileField(lc, class.layout, f))
  <2> DEFINE width == class.reads[f]
             offset == OffsetOf(class.layout, f)
             address == there + offset
             word == FileField(lc, class.layout, f)
             bytes == Peek(mem, lc + offset, width)
  <2>1. /\ width \in 2 .. 8 /\ width \in Nat /\ offset \in Nat /\ WidthOf(class.layout, f) = width
        /\ offset + width <= Sizeof(class.layout) /\ Sizeof(class.layout) \in Nat
    <3>1. /\ class.reads[f] \in {4, 8} /\ WidthOf(class.layout, f) = class.reads[f]
          /\ OffsetOf(class.layout, f) \in Nat
          /\ OffsetOf(class.layout, f) + class.reads[f] <= Sizeof(class.layout)
      BY <1>1, FaithfulField
    <3>2. Sizeof(class.layout) \in Nat
      <4>1. PICK words, quads, others : Describes(class, words, quads, others) BY <1>1 DEF Faithful
      <4>2. QED BY <4>1, DescribedSize
    <3>3. QED BY <3>1, <3>2
  <2>2. word = FromBytes(bytes) BY <2>1 DEF FileField, FileWord
  <2> HIDE DEF word
  <2>3. Ordered(mem, Load(mem.cpu, bytes), width, TRUE) = word BY <1>6, <2>1, <2>2, OrderedWord
  <2>4. lc + offset + width <= HeaderAddress + mapping.length BY <1>1, <1>3, <2>1
  <2> HIDE DEF width, offset
  <2>5. /\ there \in Nat /\ address \in Nat /\ address >= LoadAddress
        /\ address + width <= LoadAddress + mapping.length
        /\ HeaderAddress + (address - LoadAddress) = lc + offset
    BY <1>1, <1>3, <2>1, <2>4
  <2>6. mk_memory_object_remap_address(mapping, offset, there, width) = Ok(lc + offset)
    <3>1. there + offset >= mapping.target_address
          /\ there + offset + width <= mapping.target_address + mapping.length
      BY <1>2, <2>5
    <3> HIDE DEF there
    <3>2. mk_memory_object_remap_address(mapping, offset, there, width) =
            Ok(mapping.address + ((there + offset) - mapping.target_address))
      BY <1>2, <2>1, <2>5, <3>1, InWindow
    <3>3. QED BY <1>2, <2>5, <3>2
  <2>7. mk_memory_object_read(mem, mapping, offset, there, width, TRUE) = Ok(word)
    <3> DEFINE p == lc + offset
    <3>1. Succeeded(Ok(p)) /\ Ok(p).value = p BY DEF Succeeded, Ok
    <3>2. mk_memory_object_remap_address(mapping, offset, there, width) = Ok(p) BY <2>6
    <3>3. Ordered(mem, Load(mem.cpu, Peek(mem, p, width)), width, TRUE) = word BY <2>3
    <3> HIDE DEF p, there
    <3>4. QED BY <3>1, <3>2, <3>3 DEF mk_memory_object_read
  <2>8. ASSUME NEW slack \in Slacks, NEW object,
               object = [target_address |-> address, address |-> HeaderAddress + (address - LoadAddress),
                         length |-> width + slack]
        PROVE  mk_memory_map_read(mem, Ok(object), width, TRUE) = Ok(word)
    <3>1. object.address = lc + offset /\ object.length = width + slack BY <2>5, <2>8
    <3>2. slack \in Nat BY ImageAssumption, WordAssumption DEF Word
    <3>3. (IF width < object.length THEN width ELSE object.length) = width BY <2>1, <3>1, <3>2
    <3>4. Copied(mem, object, width) = bytes BY <3>1, <3>3 DEF Copied
    <3>5. Len(bytes) = width BY <1>6, <2>1, PeekBytes
    <3> HIDE DEF bytes
    <3>6. mk_memory_map_copy_bytes(mem, Ok(object), width) = Ok(bytes)
      BY <3>4 DEF mk_memory_map_copy_bytes, Succeeded, Ok
    <3>7. ~ (Len(Ok(bytes).value) < width) /\ Succeeded(Ok(bytes)) /\ Ok(bytes).value = bytes
      BY <2>1, <3>5 DEF Ok, Succeeded
    <3>8. QED BY <2>3, <3>6, <3>7 DEF mk_memory_map_read
  <2>9. QED BY <2>7, <2>8 DEF word, width, offset
<1> HIDE DEF there
<1>8. QED BY <1>5, <1>7, Zenon DEF Reads, place, mapping

LEMMA DivideNatural ==
  ASSUME NEW n \in Nat, NEW d \in Nat \ {0}
  PROVE  n = (d * (n \div d)) + (n % d) /\ n \div d \in Nat /\ n % d \in 0 .. d - 1
<1> DEFINE p == n \div d
           s == n % d
<1>1. p \in Nat /\ s \in 0 .. d - 1 OBVIOUS
<1>2. n = (d * p) + s OBVIOUS
<1> HIDE DEF p, s
<1>3. n = (d * p) + s /\ p \in Nat /\ s \in 0 .. d - 1 BY <1>1, <1>2, Zenon
<1>4. QED BY <1>3, Zenon DEF p, s

\* The lowest bits of a number are those of its lowest byte.
LEMMA NibbleRest ==
  ASSUME NEW q \in Nat, NEW r \in Byte
  PROVE  r % NibbleValues = ((ByteValues * q) + r) % NibbleValues
<1> DEFINE N == NibbleValues
           k == ByteValues \div N
           a == r \div N
           b == r % N
<1>1. N \in Nat \ {0} /\ ByteValues \in Nat /\ ByteValues % N = 0
  BY NibbleAssumption, ByteAssumption
<1>2. r \in Nat BY ByteAssumption DEF Byte
<1> HIDE DEF N
<1>3. ByteValues = N * k /\ k \in Nat
  <2> DEFINE m == ByteValues % N
             y == N * k
  <2>1. ByteValues = y + m /\ k \in Nat BY <1>1, DivideNatural, Zenon
  <2>2. m = 0 BY <1>1
  <2> HIDE DEF k, m
  <2>3. y \in Nat BY <1>1, <2>1
  <2> HIDE DEF y
  <2>4. ByteValues = y BY <1>1, <2>1, <2>2, <2>3
  <2>5. QED BY <2>1, <2>4 DEF y
<1>4. r = (N * a) + b /\ a \in Nat /\ b \in 0 .. N - 1 BY <1>1, <1>2, DivideNatural, Zenon
<1> HIDE DEF k, a
<1> DEFINE c == b
<1>5. c = r % N /\ c \in 0 .. N - 1 BY <1>4
<1> HIDE DEF c
<1>6. (ByteValues * q) + r = N * (k * q + a) + c
  <2>1. \A n, x, y, z \in Nat : (n * x) * y + (n * z) = n * (x * y + z) BY SMTT(30)
  <2>2. (N * k) * q + N * a = N * (k * q + a) BY <1>1, <1>3, <1>4, <2>1
  <2>3. r = N * a + c BY <1>4 DEF c
  <2>4. (N * k) * q \in Nat /\ N * a \in Nat
    <3>1. \A x, y \in Nat : x * y \in Nat OBVIOUS
    <3>2. QED BY <1>1, <1>3, <1>4, <3>1
  <2>5. QED BY <1>1, <1>2, <1>3, <1>5, <2>2, <2>3, <2>4
<1>7. k * q + a \in Nat
  <2>1. k * q \in Nat BY <1>3
  <2>2. QED BY <1>4, <2>1
<1> DEFINE t == k * q + a
<1> HIDE DEF t
<1>8. (N * t + c) % N = c BY <1>1, <1>5, <1>7, Division DEF t
<1>9. QED BY <1>5, <1>6, <1>8 DEF t, N

\* The two numbers of a byte, and the one of two, that a version is made of.
LEMMA VersionNumbers ==
  ASSUME NEW word \in Nat
  PROVE  /\ ByteValues ^ 2 \in Nat \ {0}
         /\ word \div ByteValues ^ 2 \in Nat
         /\ (word \div ByteValues) % ByteValues \in Byte /\ word % ByteValues \in Byte
         /\ ((word \div ByteValues) % ByteValues) % NibbleValues = (word \div ByteValues) % NibbleValues
         /\ (word % ByteValues) % NibbleValues = word % NibbleValues
         /\ ((word \div ByteValues ^ 2) * (ByteValues ^ 2))
              + (((word \div ByteValues) % ByteValues) * ByteValues) + (word % ByteValues) = word
<1> DEFINE B == ByteValues
           x == word \div B
           p == x \div B
           s == x % B
           r == word % B
<1>1. B \in Nat /\ B > 1 BY ByteAssumption
<1>2. ByteValues ^ 2 = B * B
  <2>1. 0 \in 0 .. 8 /\ 1 \in 1 .. 8 /\ 2 \in 1 .. 8 /\ 1 - 1 = 0 /\ 2 - 1 = 1 OBVIOUS
  <2>2. ByteValues ^ 1 = ByteValues * ByteValues ^ 0 /\ ByteValues ^ 0 = 1
    BY <2>1, PowerAssumption
  <2>3. ByteValues ^ 2 = ByteValues * ByteValues ^ 1 BY <2>1, PowerAssumption
  <2> HIDE DEF B
  <2>4. ByteValues * 1 = ByteValues BY ByteAssumption
  <2>5. QED BY <2>2, <2>3, <2>4 DEF B
<1> HIDE DEF B
<1>3. word = (B * x) + r /\ x \in Nat /\ r \in 0 .. B - 1
  <2>1. B \in Nat \ {0} BY <1>1
  <2>2. QED BY <2>1, DivideNatural, Zenon
<1> HIDE DEF x, r
<1>4. x = (B * p) + s /\ p \in Nat /\ s \in 0 .. B - 1
  <2>1. B \in Nat \ {0} BY <1>1
  <2>2. QED BY <1>3, <2>1, DivideNatural, Zenon
<1> HIDE DEF p, s
<1> DEFINE rest == B * s + r
<1>5. rest \in 0 .. B * B - 1
  <2>1. \A a \in Nat : \A b, c \in 0 .. a - 1 : a * b + c \in 0 .. a * a - 1
    <3>1. SUFFICES ASSUME NEW a \in Nat, NEW b \in 0 .. a - 1, NEW c \in 0 .. a - 1
                   PROVE  a * b + c \in 0 .. a * a - 1
      OBVIOUS
    <3>2. a * b <= a * (a - 1) /\ a * b >= 0 BY SMTT(30)
    <3>3. a * (a - 1) = a * a - a BY SMTT(30)
    <3>4. a * b \in Int /\ a * a \in Int OBVIOUS
    <3>5. QED BY <3>2, <3>3, <3>4
  <2>2. QED BY <1>1, <1>3, <1>4, <2>1
<1>6. word = (B * B) * p + rest
  <2>1. B * x = (B * B) * p + B * s
    <3>1. \A a, b, c \in Nat : a * (a * b + c) = (a * a) * b + a * c BY SMTT(30)
    <3>2. s \in Nat BY <1>1, <1>4
    <3>3. QED BY <1>1, <1>4, <3>1, <3>2
  <2>2. B * x \in Nat /\ (B * B) * p \in Nat /\ B * s \in Nat
    <3>1. \A a, b \in Nat : a * b \in Nat OBVIOUS
    <3>2. s \in Nat BY <1>1, <1>4
    <3>3. QED BY <1>1, <1>3, <1>4, <3>1, <3>2
  <2>3. QED BY <1>1, <1>3, <2>1, <2>2
<1>7. B * B \in Nat \ {0}
  <2>1. \A a \in Nat : a > 1 => a * a \in Nat \ {0} BY SMTT(30)
  <2>2. QED BY <1>1, <2>1
<1>8. word \div (B * B) = p
  <2> DEFINE d == B * B
  <2> HIDE DEF d, rest
  <2>1. (d * p + rest) \div d = p BY <1>4, <1>5, <1>7, Division DEF d
  <2>2. QED BY <1>6, <2>1 DEF d
<1>9. s % NibbleValues = x % NibbleValues /\ r % NibbleValues = word % NibbleValues
  <2>1. s \in Byte /\ r \in Byte BY <1>3, <1>4 DEF Byte, B
  <2>2. s % NibbleValues = (ByteValues * p + s) % NibbleValues BY <1>4, <2>1, NibbleRest
  <2>3. r % NibbleValues = (ByteValues * x + r) % NibbleValues BY <1>3, <2>1, NibbleRest
  <2>4. QED BY <1>3, <1>4, <2>2, <2>3 DEF B
<1>10. p * (B * B) + s * B + r = word
  <2>1. \A a, b \in Nat : a * b = b * a OBVIOUS
  <2>2. s \in Nat BY <1>1, <1>4
  <2>3. p * (B * B) = (B * B) * p /\ s * B = B * s BY <1>1, <1>4, <1>7, <2>1, <2>2
  <2>4. (B * B) * p \in Int /\ B * s \in Int BY <1>1, <1>4, <1>7, <2>2
  <2>5. QED BY <1>1, <1>3, <1>6, <2>3, <2>4
<1>11. /\ B ^ 2 = B * B /\ s = (word \div B) % B /\ r = word % B /\ x = word \div B
  BY <1>2 DEF s, r, x, B
<1>12. s \in Byte /\ r \in Byte BY <1>1, <1>3, <1>4 DEF Byte, B
<1> DEFINE b2 == B ^ 2
<1>13. /\ b2 \in Nat \ {0} /\ word \div b2 = p /\ p \in Nat
       /\ (p * b2) + (s * B) + r = word
  <2>1. b2 = B * B BY <1>11
  <2> HIDE DEF b2
  <2>2. QED BY <2>1, <1>4, <1>7, <1>8, <1>10, Zenon
<1>14. /\ b2 \in Nat \ {0} /\ word \div b2 \in Nat
       /\ ((word \div b2) * b2) + (((word \div B) % B) * B) + (word % B) = word
  <2> HIDE DEF b2
  <2>1. /\ b2 \in Nat \ {0} /\ word \div b2 \in Nat
        /\ ((word \div b2) * b2) + (s * B) + r = word
    BY <1>13, Zenon
  <2>2. QED BY <1>11, <2>1, Zenon
<1>15. /\ (word \div B) % B \in Byte /\ word % B \in Byte
       /\ ((word \div B) % B) % NibbleValues = (word \div B) % NibbleValues
       /\ (word % B) % NibbleValues = word % NibbleValues
  BY <1>9, <1>11, <1>12, Zenon
<1>16. QED BY <1>14, <1>15 DEF B

\* What the getter of a part makes of a word, when its number is the one the mask leaves.
LEMMA PartOfWord ==
  ASSUME NEW field, NEW from, NEW size, NEW otherwise, NEW word, (word \div from) % size \in Nat
  PROVE  PartOf(Part(field, from, size, otherwise), word) = (word \div from) % size
<1> DEFINE part == Part(field, from, size, otherwise)
           number == (word \div from) % size
<1>1. part.from = from /\ part.size = size /\ part.unit = 1 BY DEF Part
<1> HIDE DEF part
<1>2. PartOf(part, word) = number * 1 BY <1>1, Zenon DEF PartOf
<1>3. number \in Nat OBVIOUS
<1> HIDE DEF number
<1>4. number * 1 = number BY <1>3
<1>5. QED BY <1>2, <1>4, Zenon DEF part, number

\* Three parts make up the word they are taken from, when each number fits its bits.
LEMMA PartsMakeUp ==
  ASSUME NEW f, NEW top \in Nat \ {0}, NEW x, NEW y, NEW word \in Nat,
         word \div ByteValues ^ 2 < top,
         (word \div ByteValues) % ByteValues < NibbleValues, word % ByteValues < NibbleValues
  PROVE  (PartOf(Part(f, ByteValues ^ 2, top, x), word) * ByteValues ^ 2)
           + (PartOf(Part(f, ByteValues, NibbleValues, y), word) * ByteValues)
           + PartOf(Part(f, 1, NibbleValues, y), word) = word
<1> DEFINE p == word \div ByteValues ^ 2
           s == (word \div ByteValues) % ByteValues
           r == word % ByteValues
<1>1. /\ p \in Nat /\ s \in Byte /\ r \in Byte
      /\ s % NibbleValues = (word \div ByteValues) % NibbleValues
      /\ r % NibbleValues = word % NibbleValues
      /\ (p * ByteValues ^ 2) + (s * ByteValues) + r = word
  BY VersionNumbers, Zenon
<1>2. NibbleValues \in Nat \ {0} /\ ByteValues \in Nat BY NibbleAssumption, ByteAssumption
<1>3. \A b \in Byte : b \in Nat BY ByteAssumption DEF Byte
<1>4. \A n, d \in Nat : n < d => n % d = n OBVIOUS
<1>5. p < top /\ s < NibbleValues /\ r < NibbleValues OBVIOUS
<1>6. word \div 1 = word OBVIOUS
<1> HIDE DEF p, s, r
<1>7. p % top = p /\ s % NibbleValues = s /\ r % NibbleValues = r BY <1>1, <1>2, <1>3, <1>4, <1>5
<1>8. PartOf(Part(f, ByteValues ^ 2, top, x), word) = p 
  <2>1. (word \div ByteValues ^ 2) % top = p /\ p \in Nat BY <1>1, <1>7, Zenon DEF p
  <2> HIDE DEF p
  <2>2. QED BY <2>1, PartOfWord
<1>9. PartOf(Part(f, ByteValues, NibbleValues, y), word) = s
  <2>1. (word \div ByteValues) % NibbleValues = s BY <1>1, <1>7
  <2>2. QED BY <1>1, <1>3, <2>1, PartOfWord
<1>10. PartOf(Part(f, 1, NibbleValues, y), word) = r
  <2>1. (word \div 1) % NibbleValues = r BY <1>1, <1>6, <1>7
  <2>2. QED BY <1>1, <1>3, <2>1, PartOfWord
<1>11. QED BY <1>1, <1>8, <1>9, <1>10, Zenon

\* The conjunct of Versions for one field.
VersionRead(command, f, primary, major, minor) ==
  LET class == command.vtable
      word == FileField(lc, class.layout, f)
      part(name) == part_getter(mem, command, class, name)
      fits(name, number) == number < class.parts[name].size
  IN  (/\ fits(primary, word \div ByteValues ^ 2)
       /\ fits(major, (word \div ByteValues) % ByteValues) /\ fits(minor, word % ByteValues)) =>
        part(primary) * ByteValues ^ 2 + part(major) * ByteValues + part(minor) = word

LEMMA WholeRead ==
  ASSUME ImageInv, Typed, NEW command \in WholeCommands,
         NEW f \in DOMAIN command.vtable.swaps, command.vtable.swaps[f] = 4,
         NEW top \in Nat \ {0}, NEW x, NEW y, NEW primary, NEW major, NEW minor,
         command.vtable.parts[primary] = Part(f, ByteValues ^ 2, top, x),
         command.vtable.parts[major] = Part(f, ByteValues, NibbleValues, y),
         command.vtable.parts[minor] = Part(f, 1, NibbleValues, y)
  PROVE  VersionRead(command, f, primary, major, minor)
<1> DEFINE class == command.vtable
           word == FileField(lc, class.layout, f)
<1>1. /\ Faithful(class) /\ file \in Files /\ cpu \in Cpus /\ command.mach_load_command = lc
  BY WholeCommand
<1>2. IsA(command, class) BY DEF IsA
<1>3. HasField(class.layout, f) /\ Wide(class.layout, f, 4)
  <2>1. HasField(class.layout, f) /\ Wide(class.layout, f, class.swaps[f]) BY <1>1, FaithfulField
  <2>2. QED BY <2>1
<1>4. Read(mem, lc, class.layout, f, 4) = word /\ word \in Nat
  <2>1. 4 \in 0 .. 8 OBVIOUS
  <2>2. Read(mem, lc, class.layout, f, 4) = word /\ word \in 0 .. UINT_MAX(4)
    BY <1>1, <1>3, <2>1, ReadIsFile
  <2>3. \A n : n \in 0 .. UINT_MAX(4) => n \in Nat OBVIOUS
  <2>4. QED BY <2>2, <2>3
<1>5. \A field, from, size, otherwise : /\ Part(field, from, size, otherwise).field = field
                                        /\ Part(field, from, size, otherwise).size = size
  BY DEF Part
<1> HIDE DEF class, word
<1>6. \A name \in {primary, major, minor} :
        class.parts[name].field = f =>
          part_getter(mem, command, class, name) = PartOf(class.parts[name], word)
  BY <1>1, <1>2, <1>4, Zenon DEF part_getter
<1>7. /\ class.parts[primary] = Part(f, ByteValues ^ 2, top, x)
      /\ class.parts[major] = Part(f, ByteValues, NibbleValues, y)
      /\ class.parts[minor] = Part(f, 1, NibbleValues, y)
  BY DEF class
<1>8. /\ class.parts[primary].field = f /\ class.parts[major].field = f /\ class.parts[minor].field = f
      /\ class.parts[primary].size = top /\ class.parts[major].size = NibbleValues
      /\ class.parts[minor].size = NibbleValues
  BY <1>5, <1>7
<1>9. /\ part_getter(mem, command, class, primary) = PartOf(Part(f, ByteValues ^ 2, top, x), word)
      /\ part_getter(mem, command, class, major) = PartOf(Part(f, ByteValues, NibbleValues, y), word)
      /\ part_getter(mem, command, class, minor) = PartOf(Part(f, 1, NibbleValues, y), word)
  BY <1>6, <1>7, <1>8
<1>10. ASSUME word \div ByteValues ^ 2 < class.parts[primary].size,
              (word \div ByteValues) % ByteValues < class.parts[major].size,
              word % ByteValues < class.parts[minor].size
       PROVE  (part_getter(mem, command, class, primary) * ByteValues ^ 2)
                + (part_getter(mem, command, class, major) * ByteValues)
                + part_getter(mem, command, class, minor) = word
  <2>1. /\ word \div ByteValues ^ 2 < top /\ (word \div ByteValues) % ByteValues < NibbleValues
        /\ word % ByteValues < NibbleValues
    BY <1>8, <1>10, Zenon
  <2>2. (PartOf(Part(f, ByteValues ^ 2, top, x), word) * ByteValues ^ 2)
           + (PartOf(Part(f, ByteValues, NibbleValues, y), word) * ByteValues)
           + PartOf(Part(f, 1, NibbleValues, y), word) = word
    BY <1>4, <2>1, PartsMakeUp
  <2>3. QED BY <1>9, <2>2, Zenon
<1>11. QED BY <1>10, Zenon DEF VersionRead, class, word

LEMMA VersionsRead ==
  ASSUME ImageInv, Typed, NEW command \in WholeCommands
  PROVE  Versions(command)
<1> DEFINE class == command.vtable
<1>1. Dated(class) BY WholeCommand
<1>2. ASSUME class.parts = Nothing PROVE Versions(command)
  <2>1. DOMAIN class.parts = {} BY <1>2 DEF Nothing
  <2>2. QED BY <2>1 DEF Versions
<1>3. ASSUME class.parts = VersionMinParts,
             class.swaps = swap32({"cmd", "cmdsize", "version", "sdk"})
      PROVE  Versions(command)
  <2>1. \A f \in {"version", "sdk"} : f \in DOMAIN class.swaps /\ class.swaps[f] = 4
    BY <1>3 DEF swap32
  <2>2. NibbleValues \in Nat \ {0} BY NibbleAssumption
  <2> DEFINE P(f, from) == Part(f, from, NibbleValues, UINT_MAX(1))
  <2>3. /\ class.parts["version_primary"] = P("version", ByteValues ^ 2)
        /\ class.parts["version_major"] = P("version", ByteValues)
        /\ class.parts["version_minor"] = P("version", 1)
        /\ class.parts["sdk_primary"] = P("sdk", ByteValues ^ 2)
        /\ class.parts["sdk_major"] = P("sdk", ByteValues)
        /\ class.parts["sdk_minor"] = P("sdk", 1)
    BY <1>3 DEF VersionMinParts
  <2>4. "minos_minor" \notin DOMAIN class.parts BY <1>3 DEF VersionMinParts
  <2>5. VersionRead(command, "version", "version_primary", "version_major", "version_minor")
    BY <2>1, <2>2, <2>3, WholeRead
  <2>6. VersionRead(command, "sdk", "sdk_primary", "sdk_major", "sdk_minor")
    BY <2>1, <2>2, <2>3, WholeRead
  <2> HIDE DEF class, P
  <2>7. QED BY <2>4, <2>5, <2>6 DEF Versions, VersionRead, class
<1>4. ASSUME class.parts = BuildVersionParts,
             class.swaps = swap32({"cmd", "cmdsize", "minos", "sdk"} \union {"platform", "ntools"})
      PROVE  Versions(command)
  <2>1. \A f \in {"minos", "sdk"} : f \in DOMAIN class.swaps /\ class.swaps[f] = 4
    BY <1>4 DEF swap32
  <2>2. ByteValues ^ 2 \in Nat \ {0} BY VersionNumbers
  <2> DEFINE P(f, from) == Part(f, from, NibbleValues, UINT_MAX(1))
             Q(f) == Part(f, ByteValues ^ 2, ByteValues ^ 2, UINT_MAX(2))
  <2>3. /\ class.parts["minos_primary"] = Q("minos")
        /\ class.parts["minos_major"] = P("minos", ByteValues)
        /\ class.parts["minos_minor"] = P("minos", 1)
        /\ class.parts["sdk_primary"] = Q("sdk")
        /\ class.parts["sdk_major"] = P("sdk", ByteValues)
        /\ class.parts["sdk_minor"] = P("sdk", 1)
    BY <1>4 DEF BuildVersionParts
  <2>4. "version_minor" \notin DOMAIN class.parts BY <1>4 DEF BuildVersionParts
  <2>5. VersionRead(command, "minos", "minos_primary", "minos_major", "minos_minor")
    BY <2>1, <2>2, <2>3, WholeRead
  <2>6. VersionRead(command, "sdk", "sdk_primary", "sdk_major", "sdk_minor")
    BY <2>1, <2>2, <2>3, WholeRead
  <2> HIDE DEF class, P, Q
  <2>7. QED BY <2>4, <2>5, <2>6 DEF Versions, VersionRead, class
<1>5. QED BY <1>1, <1>2, <1>3, <1>4 DEF Dated

\* In every state of every run, the numbers of a command are the file's whichever way they are
\* read, on a host of either byte order: with a getter, out of the copy copy_native makes, at the
\* command's address through the header's mapping and through one a memory map makes; and the
\* parts of a version make up the version.  (LoadCommands/*.c, memory_object.c:193-272,
\* memory_map.c:80-162)
THEOREM ValuesRead == Spec => []ValuesAgree
<1>1. ImageInv /\ Typed => ValuesAgree BY NumbersRead, PlacesRead, VersionsRead DEF ValuesAgree
<1>2. QED BY <1>1, AlwaysTyped, PTL

----------------------------------------------------------------------------
(* What lies behind the fields of a command.                               *)

\* The part of a field up to its first zero is that many of its bytes, none of them zero, and
\* what follows it in the field, if anything, is a zero.
LEMMA UpToZero ==
  ASSUME NEW bytes \in Seq(Nat)
  PROVE  /\ BeforeZero(bytes) \in Seq(Nat) /\ Len(BeforeZero(bytes)) \in 0 .. Len(bytes)
         /\ BeforeZero(bytes) = SubSeq(bytes, 1, Len(BeforeZero(bytes)))
         /\ \A i \in 1 .. Len(BeforeZero(bytes)) : bytes[i] # 0
         /\ Len(BeforeZero(bytes)) < Len(bytes) => bytes[Len(BeforeZero(bytes)) + 1] = 0
<1> DEFINE zero == SelectInSeq(bytes, LAMBDA byte : byte = 0)
           places == {i \in 1 .. Len(bytes) : bytes[i] = 0}
           n == Len(bytes)
<1>1. \/ zero = 0 /\ \A i \in 1 .. n : bytes[i] # 0
      \/ zero \in 1 .. n /\ bytes[zero] = 0 /\ \A i \in 1 .. n : i < zero => bytes[i] # 0
  <2>1. zero = IF places = {} THEN 0 ELSE CHOOSE i \in places : \A j \in places : i <= j
    BY DEF SelectInSeq, Min
  <2> HIDE DEF zero
  <2>2. CASE places = {} BY <2>1, <2>2
  <2>3. CASE places # {}
    <3>1. places \in SUBSET Nat OBVIOUS
    <3> HIDE DEF places
    <3>2. \E i \in places : \A j \in places : i <= j BY <2>3, <3>1, LeastNatural
    <3>3. zero \in places /\ \A j \in places : zero <= j BY <2>1, <2>3, <3>2
    <3>4. QED BY <3>3 DEF places
  <2>4. QED BY <2>2, <2>3
<1>2. BeforeZero(bytes) = IF zero = 0 THEN bytes ELSE SubSeq(bytes, 1, zero - 1) BY DEF BeforeZero
<1>3. n \in Nat /\ SubSeq(bytes, 1, n) = bytes OBVIOUS
<1> HIDE DEF zero
<1>4. CASE zero = 0 BY <1>1, <1>2, <1>3, <1>4
<1>5. CASE zero \in 1 .. n
  <2> DEFINE string == SubSeq(bytes, 1, zero - 1)
  <2>1. zero - 1 \in 0 .. n /\ zero # 0 BY <1>5
  <2>2. string \in Seq(Nat) /\ Len(string) = zero - 1 BY <1>5, <2>1
  <2>3. BeforeZero(bytes) = string BY <1>2, <2>1
  <2> HIDE DEF string
  <2>4. Len(string) + 1 = zero BY <1>5, <2>2
  <2>5. \A i \in 1 .. Len(string) : bytes[i] # 0 BY <1>1, <1>5, <2>2
  <2>6. string = SubSeq(bytes, 1, Len(string)) BY <2>2 DEF string
  <2>7. Len(string) \in 0 .. Len(bytes) BY <2>1, <2>2
  <2>8. bytes[Len(string) + 1] = 0 BY <1>1, <1>5, <2>1, <2>4
  <2>9. QED BY <2>2, <2>3, <2>5, <2>6, <2>7, <2>8
<1>6. QED BY <1>1, <1>4, <1>5

\* The first bytes of a piece of memory are a shorter piece of it.
LEMMA PeekPrefix ==
  ASSUME NEW m, NEW p, NEW n \in Nat, NEW k \in 0 .. n
  PROVE  SubSeq(Peek(m, p, n), 1, k) = Peek(m, p, k)
<1> DEFINE at(i) == IF p - m.at + i \in DOMAIN m.bytes THEN m.bytes[p - m.at + i] ELSE 0
           whole == [i \in 1 .. n |-> at(i)]
           piece == [i \in 1 .. k |-> at(i)]
<1>1. Peek(m, p, n) = whole /\ Peek(m, p, k) = piece BY DEF Peek
<1> HIDE DEF at
<1>2. Len(whole) = n OBVIOUS
<1> HIDE DEF whole
<1>3. SubSeq(whole, 1, k) = [i \in 1 .. k |-> whole[i]] BY <1>2
<1>4. \A i \in 1 .. k : whole[i] = at(i) BY DEF whole
<1>5. QED BY <1>1, <1>3, <1>4

\* A string that lies behind a command's fields, up to its first zero or to the end of the
\* command.
LEMMA StringOfFile ==
  ASSUME file \in Files, NEW p, NEW offset, FileSize(p) - offset \in Nat
  PROVE  LET most == FileSize(p) - offset
             length == strnlen(mem, p + offset, most)
         IN  /\ FileString(p, offset) = Peek(mem, p + offset, length)
             /\ Len(FileString(p, offset)) = length /\ length \in 0 .. most
             /\ \A k \in 0 .. length :
                  SubSeq(FileString(p, offset), 1, k) = Peek(mem, p + offset, k)
<1> DEFINE most == FileSize(p) - offset
           bytes == Peek(mem, p + offset, most)
           length == strnlen(mem, p + offset, most)
<1>1. mem.bytes \in Seq(Byte) BY ImageAssumption DEF mem
<1>2. bytes \in Seq(Nat) /\ Len(bytes) = most BY <1>1, PeekType
<1>3. FileString(p, offset) = BeforeZero(bytes) /\ length = Len(BeforeZero(bytes))
  BY DEF FileString, strnlen
<1> HIDE DEF length
<1>4. length \in 0 .. most /\ BeforeZero(bytes) = SubSeq(bytes, 1, length)
  BY <1>2, <1>3, UpToZero
<1>5. \A k \in 0 .. most : SubSeq(bytes, 1, k) = Peek(mem, p + offset, k) BY PeekPrefix
<1>6. FileString(p, offset) = Peek(mem, p + offset, length) BY <1>3, <1>4, <1>5
<1>7. ASSUME NEW k \in 0 .. length
      PROVE  SubSeq(FileString(p, offset), 1, k) = Peek(mem, p + offset, k)
  <2>1. length \in Nat BY <1>4
  <2> HIDE DEF bytes
  <2>2. QED BY <1>6, <2>1, PeekPrefix
<1>8. QED BY <1>3, <1>4, <1>6, <1>7 DEF length

\* The offset of a class's string lies within its fields.
LEMMA StringField ==
  ASSUME NEW class, Faithful(class), HasString(class)
  PROVE  /\ HasField(class.layout, class.string) /\ Wide(class.layout, class.string, 4)
         /\ WidthOf(class.layout, class.string) = 4
         /\ OffsetOf(class.layout, class.string) \in Nat
         /\ OffsetOf(class.layout, class.string) + 4 <= Sizeof(class.layout)
         /\ Sizeof(class.layout) \in Nat
<1> DEFINE layout == class.layout
           f == class.string
<1>1. PICK words, quads, others : Describes(class, words, quads, others) BY DEF Faithful
<1>2. Laid(layout, words, quads, others) /\ words \intersect (quads \union others) = {} /\ f \in words
  BY <1>1 DEF Describes
<1>3. Sizeof(layout) \in Nat BY <1>1, DescribedSize
<1> HIDE DEF layout, f
<1>4. HasField(layout, f) /\ Wide(layout, f, 4) BY <1>2 DEF Laid, Wide
<1>5. WidthOf(layout, f) = 4 BY <1>4, WidthIs
<1> DEFINE S == (words \union quads \union others) \X Nat
<1>6. layout \in Seq(S) BY <1>2 DEF Laid
<1>7. Measured(layout)
  <2>1. \A i \in DOMAIN layout : layout[i] \in S BY <1>6
  <2>2. \A x \in S : x[2] \in Nat OBVIOUS
  <2>3. QED BY <2>1, <2>2 DEF Measured
<1> HIDE DEF S
<1>8. OffsetOf(layout, f) \in Nat /\ OffsetOf(layout, f) + 4 <= Sizeof(layout)
  BY <1>4, <1>5, <1>6, <1>7, FieldInside
<1>9. QED BY <1>3, <1>4, <1>5, <1>8 DEF layout, f

\* The string of a command is looked for behind the offset the file gives, if that is in the
\* command.
LEMMA StringAt ==
  ASSUME ImageInv, Typed, NEW command \in WholeCommands, HasString(command.vtable)
  PROVE  LET class == command.vtable
             offset == FileField(lc, class.layout, class.string)
         IN  /\ LcStrOffset(mem, command, lc + OffsetOf(class.layout, class.string)) =
                  IF offset < FileSize(lc) THEN Ok(offset) ELSE Fails("EINVALID_DATA")
             /\ offset \in Nat
             /\ offset < FileSize(lc) => ~ (MaxWord - offset < lc)
<1> DEFINE class == command.vtable
           field == OffsetOf(class.layout, class.string)
           offset == FileField(lc, class.layout, class.string)
           size == FileSize(lc)
           outer == mk_vm_range_make(lc, size)
           inner == mk_vm_range_make(lc + field, 4)
<1>1. /\ Faithful(class) /\ file \in Files /\ cpu \in Cpus /\ command.mach_load_command = lc /\ Mapped
      /\ lc \in Nat /\ lc >= HeaderAddress /\ HeaderAddress \in Nat /\ size \in Nat
      /\ cmdsize(mem, lc) = size /\ size >= Sizeof(class.layout)
      /\ lc + size <= HeaderAddress + image.header_mapping.length
  BY WholeCommand
<1>2. /\ HasField(class.layout, class.string) /\ Wide(class.layout, class.string, 4)
      /\ WidthOf(class.layout, class.string) = 4
      /\ field \in Nat /\ field + 4 <= Sizeof(class.layout) /\ Sizeof(class.layout) \in Nat
  BY <1>1, StringField
<1>3. Read(mem, lc, class.layout, class.string, 4) = offset /\ offset \in Nat
  <2>1. 4 \in 0 .. 8 OBVIOUS
  <2>2. Read(mem, lc, class.layout, class.string, 4) = offset /\ offset \in 0 .. UINT_MAX(4)
    BY <1>1, <1>2, <2>1, ReadIsFile
  <2>3. \A n : n \in 0 .. UINT_MAX(4) => n \in Nat OBVIOUS
  <2>4. QED BY <2>2, <2>3
<1>4. lc + size <= MaxWord /\ MaxWord \in Nat
  <2>1. HeaderAddress + image.header_mapping.length <= MaxWord
        /\ image.header_mapping \in mk_memory_object
    BY <1>1 DEF Typed, WindowInv
  <2>2. image.header_mapping.length \in Nat /\ MaxWord \in Nat
    BY <2>1, WordAssumption DEF mk_memory_object, Word
  <2>3. QED BY <1>1, <2>1, <2>2
<1>5. Swap(mem, Load(mem.cpu, Peek(mem, lc + field, 4)), 4) = offset
  BY <1>2, <1>3 DEF Read, Raw
<1>6. mk_load_command_size(mem, command) = size /\ size >= mk_load_command_base_size(command)
  <2>1. class.command_base_size = Sizeof(class.layout)
    <3>1. PICK words, quads, others : Describes(class, words, quads, others) BY <1>1 DEF Faithful
    <3>2. QED BY <3>1 DEF Describes
  <2>2. QED BY <1>1, <2>1 DEF mk_load_command_size, mk_load_command_base_size
<1> HIDE DEF field, offset, size
<1>7. outer.location = lc /\ outer.length = size /\ inner.location = lc + field /\ inner.length = 4
  BY DEF mk_vm_range_make
<1> HIDE DEF outer, inner
<1>8. Succeeded(mk_vm_range_contains_range(outer, inner, FALSE))
  <2>1. ~ RangeOverflows(outer) /\ ~ RangeOverflows(inner)
    BY <1>1, <1>2, <1>4, <1>7 DEF RangeOverflows
  <2>2. ~ (inner.location < outer.location)
        /\ ~ (inner.location + inner.length > outer.location + outer.length)
    BY <1>1, <1>2, <1>7
  <2>3. mk_vm_range_contains_range(outer, inner, FALSE) = Ok(inner.location)
    BY <2>1, <2>2 DEF mk_vm_range_contains_range
  <2>4. \A v : Succeeded(Ok(v)) BY DEF Succeeded, Ok
  <2>5. QED BY <2>3, <2>4
<1>9. LcStrOffset(mem, command, lc + field) =
        IF offset < size THEN Ok(offset) ELSE Fails("EINVALID_DATA")
  BY <1>1, <1>5, <1>6, <1>8 DEF LcStrOffset, outer, inner
<1>10. offset < size => ~ (MaxWord - offset < lc) BY <1>1, <1>3, <1>4
<1>11. QED BY <1>3, <1>9, <1>10 DEF field, offset, size

\* What is copied of a string is its first bytes.
LEMMA CopiedRead ==
  ASSUME ImageInv, Typed, NEW command \in WholeCommands
  PROVE  CopiedStrings(command)
<1> DEFINE class == command.vtable
           offset == FileField(lc, class.layout, class.string)
           size == FileSize(lc)
           string == IF offset < size THEN FileString(lc, offset) ELSE <<>>
           field == lc + OffsetOf(class.layout, class.string)
           copy(n) == copy_string(mem, command, class, n)
<1> SUFFICES ASSUME HasString(class), NEW n \in 0 .. MaxOutput
             PROVE  /\ Len(copy(n).output) <= n
                    /\ n = 0 => copy(n).returns = Len(string)
                    /\ n > 0 => copy(n).returns = Smaller(Len(string), n - 1)
                    /\ n > 0 /\ offset < size =>
                         copy(n).output = SubSeq(string, 1, copy(n).returns) \o <<0>>
  BY Zenon DEF CopiedStrings, HasString
<1>1. /\ file \in Files /\ command.mach_load_command = lc /\ size \in Nat
      /\ cmdsize(mem, lc) = size
  BY WholeCommand
<1>2. /\ LcStrOffset(mem, command, field) =
           IF offset < size THEN Ok(offset) ELSE Fails("EINVALID_DATA")
      /\ offset \in Nat /\ (offset < size => ~ (MaxWord - offset < lc))
  BY StringAt
<1>3. IsA(command, class) BY DEF IsA
<1>4. copy(n) = _mk_mach_lc_str_copy(mem, command, field, n, TRUE)
  BY <1>1, <1>3 DEF copy_string
<1>5. n \in Nat BY ImageAssumption
<1> HIDE DEF class, offset, size, field, copy
<1>6. CASE ~ (offset < size)
  <2>1. LcStrOffset(mem, command, field) = Fails("EINVALID_DATA") BY <1>2, <1>6
  <2>2. ~ Succeeded(Fails("EINVALID_DATA")) BY DEF Succeeded, Fails
  <2>3. copy(n) = [returns |-> 0, output |-> <<>>]
    BY <1>4, <2>1, <2>2 DEF _mk_mach_lc_str_copy
  <2>4. copy(n).returns = 0 /\ copy(n).output = <<>> /\ string = <<>> BY <1>6, <2>3
  <2>5. Len(<<>>) = 0 /\ Smaller(0, n - 1) = IF 0 < n - 1 THEN 0 ELSE n - 1 BY DEF Smaller
  <2> HIDE DEF string
  <2>6. Len(string) = 0 /\ Len(copy(n).output) = 0 BY <2>4, <2>5
  <2>7. n > 0 => Smaller(0, n - 1) = 0 BY <1>5, <2>5
  <2>8. QED BY <1>5, <1>6, <2>4, <2>6, <2>7
<1>7. CASE offset < size
  <2> DEFINE most == size - offset
             at == lc + offset
             length == strnlen(mem, at, most)
             count == CopiedLength(length, n, TRUE)
  <2>1. most \in Nat BY <1>1, <1>2, <1>7
  <2>2. /\ Len(FileString(lc, offset)) = length /\ length \in 0 .. most
        /\ \A k \in 0 .. length : SubSeq(FileString(lc, offset), 1, k) = Peek(mem, at, k)
    BY <1>1, <2>1, StringOfFile DEF size
  <2>3. string = FileString(lc, offset) BY <1>7
  <2>4. Succeeded(Ok(offset)) /\ Ok(offset).value = offset BY DEF Succeeded, Ok
  <2>5. LcStrOffset(mem, command, field) = Ok(offset) /\ ~ (MaxWord - offset < lc) BY <1>2, <1>7
  <2>6. mk_load_command_size(mem, command) = size BY <1>1 DEF mk_load_command_size
  <2> HIDE DEF string, length, most, at
  <2>7. copy(n) = IF n = 0 THEN [returns |-> length, output |-> <<>>]
                  ELSE [returns |-> count, output |-> Peek(mem, at, count) \o <<0>>]
    BY <1>1, <1>4, <2>4, <2>5, <2>6 DEF _mk_mach_lc_str_copy, length, most, at
  <2>8. CASE n = 0
    <3>1. copy(n).returns = length /\ copy(n).output = <<>> /\ Len(<<>>) = 0 BY <2>7, <2>8
    <3>2. QED BY <2>2, <2>3, <2>8, <3>1
  <2>9. CASE n # 0
    <3>1. count = Smaller(length, n - 1) BY DEF CopiedLength
    <3>2. count \in 0 .. length /\ count <= n - 1 /\ count \in Nat
      <4>1. length \in Nat /\ n - 1 \in Nat BY <1>5, <2>1, <2>2, <2>9
      <4>2. \A x, y \in Nat : Smaller(x, y) \in 0 .. x /\ Smaller(x, y) <= y /\ Smaller(x, y) \in Nat
        BY DEF Smaller
      <4> HIDE DEF count
      <4>3. QED BY <3>1, <4>1, <4>2
    <3> HIDE DEF count
    <3>3. copy(n).returns = count /\ copy(n).output = Peek(mem, at, count) \o <<0>> BY <2>7, <2>9
    <3>4. mem.bytes \in Seq(Byte) BY <1>1, ImageAssumption DEF mem
    <3>5. Peek(mem, at, count) \in Seq(Nat) /\ Len(Peek(mem, at, count)) = count
      BY <3>2, <3>4, PeekType
    <3>6. <<0>> \in Seq(Nat) /\ Len(<<0>>) = 1 OBVIOUS
    <3>7. Len(Peek(mem, at, count) \o <<0>>) = count + 1 BY <3>5, <3>6
    <3>8. SubSeq(string, 1, count) = Peek(mem, at, count) BY <2>2, <2>3, <3>2
    <3>9. copy(n).output = SubSeq(string, 1, copy(n).returns) \o <<0>> BY <3>3, <3>8
    <3>10. Len(copy(n).output) <= n /\ Len(string) = length BY <1>5, <2>2, <2>3, <3>2, <3>3, <3>7
    <3>11. QED BY <2>9, <3>1, <3>3, <3>9, <3>10
  <2>10. QED BY <2>8, <2>9
<1>8. QED BY <1>6, <1>7

\* So is what copy_native keeps of a string behind the structure.
LEMMA NativeRead ==
  ASSUME ImageInv, Typed, NEW command \in WholeCommands
  PROVE  NativeStrings(command)
<1> DEFINE class == command.vtable
           offset == FileField(lc, class.layout, class.string)
           size == FileSize(lc)
           string == FileString(lc, offset)
           base == Sizeof(class.layout)
           field == OffsetOf(class.layout, class.string)
           copy(extra) == copy_native_string(mem, command, class, extra)
<1> SUFFICES ASSUME HasString(class), offset < size, NEW extra \in 0 .. MaxOutput
             PROVE  /\ copy(extra).wrote /\ copy(extra).offset = offset
                    /\ \/ offset + Len(copy(extra).output) <= base + extra
                       \/ copy(extra).output = <<>>
                    /\ offset + Len(string) < base + extra => copy(extra).output = string \o <<0>>
  BY Zenon DEF NativeStrings, HasString
<1>1. /\ file \in Files /\ command.mach_load_command = lc /\ size \in Nat
      /\ cmdsize(mem, lc) = size /\ Faithful(class)
  BY WholeCommand
<1>2. LcStrOffset(mem, command, lc + field) = Ok(offset) /\ offset \in Nat BY StringAt
<1>3. field \in Nat /\ field + 4 <= base /\ base \in Nat BY <1>1, StringField
<1>4. copy(extra) = _mk_mach_lc_str_copy_native(mem, command, lc + field, field, base + extra)
  BY <1>1 DEF copy_native_string
<1>5. extra \in Nat BY ImageAssumption
<1> DEFINE most == size - offset
           at == lc + offset
           length == strnlen(mem, at, most)
           room == (base + extra) - offset
           count == Smaller(length, room)
<1>6. most \in Nat BY <1>1, <1>2
<1>7. string = Peek(mem, at, length) /\ Len(string) = length /\ length \in 0 .. most
  BY <1>1, <1>6, StringOfFile
<1>8. Succeeded(Ok(offset)) /\ Ok(offset).value = offset BY DEF Succeeded, Ok
<1>9. mk_load_command_size(mem, command) = size BY <1>1 DEF mk_load_command_size
<1>10. ~ (field + 4 > base + extra) BY <1>3, <1>5
<1> HIDE DEF class, offset, size, string, base, field, copy
<1>11. copy(extra) =
         IF room <= 0 THEN [returns |-> 0, wrote |-> TRUE, offset |-> offset, output |-> <<>>]
         ELSE [returns |-> count, wrote |-> TRUE, offset |-> offset,
               output |-> Peek(mem, at, count) \o (IF length < room THEN <<0>> ELSE <<>>)]
  BY <1>1, <1>2, <1>4, <1>8, <1>9, <1>10 DEF _mk_mach_lc_str_copy_native
<1> HIDE DEF most, at, length
<1>12. length \in Nat BY <1>6, <1>7
<1>13. CASE room <= 0
  <2>1. /\ copy(extra).wrote /\ copy(extra).offset = offset /\ copy(extra).output = <<>>
    BY <1>11, <1>13
  <2>2. ~ (offset + Len(string) < base + extra) BY <1>2, <1>3, <1>5, <1>7, <1>12, <1>13
  <2>3. QED BY <2>1, <2>2
<1>14. CASE ~ (room <= 0)
  <2> DEFINE copied == Peek(mem, at, count)
             zero == IF length < room THEN <<0>> ELSE <<>>
  <2>1. room \in Nat BY <1>2, <1>3, <1>5, <1>14
  <2>2. count \in Nat /\ count <= room /\ (length < room => count = length)
        /\ (~ (length < room) => count = room)
    BY <1>12, <2>1 DEF Smaller
  <2>3. /\ copy(extra).wrote /\ copy(extra).offset = offset /\ copy(extra).output = copied \o zero
    BY <1>11, <1>14
  <2>4. mem.bytes \in Seq(Byte) BY <1>1, ImageAssumption DEF mem
  <2> HIDE DEF count
  <2>5. copied \in Seq(Nat) /\ Len(copied) = count BY <2>2, <2>4, PeekType
  <2>6. CASE length < room
    <3>1. zero = <<0>> /\ zero \in Seq(Nat) /\ Len(zero) = 1 BY <2>6
    <3>2. copied = string BY <1>7, <2>2, <2>6
    <3> HIDE DEF copied, zero
    <3>3. Len(copied \o zero) = count + 1 BY <2>5, <3>1
    <3>4. offset + (count + 1) <= base + extra BY <1>2, <1>3, <1>5, <1>12, <2>2, <2>6
    <3>5. copied \o zero = string \o <<0>> BY <3>1, <3>2
    <3>6. offset + Len(copy(extra).output) <= base + extra BY <2>3, <3>3, <3>4
    <3>7. QED BY <2>3, <3>5, <3>6
  <2>7. CASE ~ (length < room)
    <3>1. zero = <<>> /\ zero \in Seq(Nat) /\ Len(zero) = 0 BY <2>7
    <3> HIDE DEF copied, zero
    <3>2. Len(copied \o zero) = count BY <2>2, <2>5, <3>1
    <3>3. offset + count <= base + extra BY <1>2, <1>3, <1>5, <2>1, <2>2
    <3>4. ~ (offset + Len(string) < base + extra) BY <1>2, <1>3, <1>5, <1>7, <1>12, <2>7
    <3>5. offset + Len(copy(extra).output) <= base + extra BY <2>3, <3>2, <3>3
    <3>6. QED BY <2>3, <3>4, <3>5
  <2>8. QED BY <2>6, <2>7
<1>15. QED BY <1>13, <1>14

\* The walk of the elements of a command, and what ElementsAgree says of it.
ElementsOf(command, class, count, width) ==
  LET step(p) == NextElement(mem, image.header_mapping, command, class, count, width, p, TRUE)
      rest[p \in {NULL} \union (lc .. lc + FileSize(lc))] ==
        IF step(p) = NULL THEN <<>> ELSE <<step(p)>> \o rest[step(p)]
  IN  rest[NULL]
ElementsFound(command, class, layout, count, width) ==
  LET n == FileField(lc, layout, count)
      elements == ElementsOf(command, class, count, width)
  IN  FileSize(lc) = Sizeof(layout) + n * width =>
        /\ elements = [i \in 1 .. n |-> lc + Sizeof(layout) + (i - 1) * width]
        /\ \A i \in 1 .. n : Succeeded(InitElement(mem, command, elements[i], width))

LEMMA ElementsForm ==
  ASSUME \A command \in WholeCommands :
           /\ IsA(command, mk_load_command_segment) =>
                ElementsFound(command, mk_load_command_segment, struct_segment_command, "nsects",
                              Sizeof(struct_section))
           /\ IsA(command, mk_load_command_segment_64) =>
                ElementsFound(command, mk_load_command_segment_64, struct_segment_command_64, "nsects",
                              Sizeof(struct_section_64))
           /\ IsA(command, mk_load_command_build_version) =>
                ElementsFound(command, mk_load_command_build_version, struct_build_version_command,
                              "ntools", Sizeof(struct_build_tool_version))
  PROVE  ElementsAgree
BY Zenon DEF ElementsAgree, ElementsFound, Walk, ElementsOf, mk_load_command_segment_next_section,
  mk_load_command_segment_64_next_section, mk_load_command_build_version_get_next_tool,
  mk_load_command_segment_section_init, mk_load_command_segment_64_section_init,
  mk_load_command_build_version_build_tool_version_init

\* The walk of a function of steps, from an address: it goes on, it has a list, it takes n steps
\* of one width, its list is that of the addresses it comes to.
ListFrom(step, null, f, p) == IF step[p] = null THEN <<>> ELSE <<step[p]>> \o f[step[p]]
GoesOn(step, null, D, begin, end) ==
  /\ D = {null} \union (begin .. end)
  /\ \A p \in D : step[p] \in {null} \union (begin .. end)
  /\ \A p \in begin .. end : step[p] = null \/ step[p] > p
HasList(step, null, D) == \E f : f = [p \in D |-> ListFrom(step, null, f, p)]
TakesSteps(step, null, begin, n, width) ==
  /\ step[null] = IF n = 0 THEN null ELSE begin
  /\ \A i \in 1 .. n :
       step[begin + (i - 1) * width] = IF i = n THEN null ELSE begin + i * width
ListsSteps(f, step, null, begin, n, width) ==
  /\ f[null] = ListFrom(step, null, f, null)
  /\ \A i \in 1 .. n :
       f[begin + (i - 1) * width] = ListFrom(step, null, f, begin + (i - 1) * width)

\* A walk of a piece of memory that only goes on, to an address behind the one it is at, has a
\* list: the function Walk defines in terms of itself exists.
LEMMA ListExists ==
  ASSUME NEW low0 \in Nat, NEW high \in Nat, low0 <= high, NEW null, null \notin low0 .. high,
         NEW D, NEW step, GoesOn(step, null, D, low0, high)
  PROVE  HasList(step, null, D)
<1> USE DEF GoesOn, ListFrom
<1> DEFINE body(f, p) == ListFrom(step, null, f, p)
           n == high - low0
           T == {k \in 0 .. n : \E f : \A p \in (high - k) .. high : f[p] = body(f, p)}
<1>1. n \in Nat OBVIOUS
<1>2. 0 \in T
  <2> DEFINE f == [p \in {high} |-> <<>>]
  <2>1. step[high] = null
    <3>1. high \in low0 .. high /\ high \in D OBVIOUS
    <3>2. step[high] \in {null} \union (low0 .. high) /\ (step[high] = null \/ step[high] > high)
      BY <3>1
    <3>3. \A q \in low0 .. high : ~ (q > high) OBVIOUS
    <3>4. QED BY <3>2, <3>3
  <2>2. \A p \in (high - 0) .. high : p = high OBVIOUS
  <2>3. f[high] = body(f, high) BY <2>1
  <2> HIDE DEF f, body
  <2>4. \A p \in (high - 0) .. high : f[p] = body(f, p) BY <2>2, <2>3
  <2>5. 0 \in 0 .. n BY <1>1
  <2> HIDE DEF n
  <2>6. QED BY <2>4, <2>5
<1>3. ASSUME NEW k \in 1 .. n, k - 1 \in T PROVE k \in T
  <2>1. PICK f : \A p \in (high - (k - 1)) .. high : f[p] = body(f, p) BY <1>3
  <2> DEFINE q == high - k
             g == [p \in q .. high |-> IF p = q THEN body(f, q) ELSE f[p]]
  <2>2. /\ q \in low0 .. high /\ (high - (k - 1)) .. high = (q .. high) \ {q}
        /\ \A p \in q .. high : p \in low0 .. high /\ p \in D
    BY <1>1
  <2>3. ASSUME NEW p \in q .. high PROVE g[p] = body(g, p)
    <3>1. p \in low0 .. high /\ p \in D BY <2>2
    <3>2. step[p] \in {null} \union (low0 .. high) /\ (step[p] = null \/ step[p] > p) BY <3>1
    <3>3. step[p] # null => step[p] \in q .. high /\ step[p] # q
      <4>1. \A x \in low0 .. high : \A y \in q .. high : x > y => x \in q .. high /\ x # q
        BY <1>1, <2>2
      <4>2. QED BY <3>2, <4>1
    <3> HIDE DEF q
    <3>4. step[p] # null => g[step[p]] = f[step[p]] BY <3>3
    <3>5. body(g, p) = body(f, p) BY <3>4
    <3>6. CASE p = q BY <3>5, <3>6
    <3>7. CASE p # q
      <4>1. g[p] = f[p] BY <3>7
      <4>2. p \in (high - (k - 1)) .. high BY <2>2, <3>7 DEF q
      <4>3. f[p] = body(f, p) BY <2>1, <4>2
      <4> HIDE DEF g, body
      <4>4. QED BY <3>5, <4>1, <4>3
    <3>8. QED BY <3>6, <3>7
  <2>4. k \in 0 .. n BY <1>1
  <2> HIDE DEF g, body, n
  <2>5. QED BY <2>3, <2>4
<1>4. PICK f : \A p \in low0 .. high : f[p] = body(f, p)
  <2> HIDE DEF T
  <2>1. \A k \in 0 .. n : k \in T BY <1>1, <1>2, <1>3, UpTo
  <2>2. n \in T BY <1>1, <2>1
  <2>3. high - n = low0 OBVIOUS
  <2> HIDE DEF n, body
  <2>4. QED BY <2>2, <2>3 DEF T
<1> DEFINE g == [p \in D |-> IF p = null THEN body(f, null) ELSE f[p]]
<1>5. ASSUME NEW p \in D PROVE g[p] = body(g, p)
  <2>1. step[p] # null => step[p] \in D /\ step[p] # null OBVIOUS
  <2>2. step[p] # null => g[step[p]] = f[step[p]] BY <2>1
  <2>3. body(g, p) = body(f, p) BY <2>2
  <2>4. g[p] = body(f, p)
    <3> HIDE DEF body
    <3>1. CASE p = null BY <3>1
    <3>2. CASE p # null BY <1>4, <3>2
    <3>3. QED BY <3>1, <3>2
  <2>5. QED BY <2>3, <2>4
<1>6. g = [p \in D |-> body(g, p)]
  <2> HIDE DEF body
  <2>1. \A p \in D : g[p] = body(g, p) BY <1>5
  <2>2. g = [p \in D |-> g[p]] OBVIOUS
  <2> HIDE DEF g
  <2>3. QED BY <2>1, <2>2
<1>7. QED
  <2> HIDE DEF g, body
  <2>1. QED BY <1>6, Zenon DEF HasList, body

\* The list of a walk that takes n steps of one width.
LEMMA ListOf ==
  ASSUME NEW n \in Nat, NEW low0 \in Nat, NEW width \in Nat \ {0}, NEW null, null \notin Nat \ {0},
         low0 > 0, NEW f, NEW step,
         TakesSteps(step, null, low0, n, width), ListsSteps(f, step, null, low0, n, width)
  PROVE  f[null] = [i \in 1 .. n |-> low0 + (i - 1) * width]
<1> USE DEF TakesSteps, ListsSteps, ListFrom
<1> DEFINE at(i) == low0 + (i - 1) * width
           List(i) == [j \in 1 .. n - i |-> at(i + j)]
           T == {k \in 0 .. n - 1 : f[at(n - k)] = List(n - k)}
<1>1. \A i \in 1 .. n : at(i) \in Nat \ {0} /\ (i # n => i + 1 \in 1 .. n /\ at(i + 1) = low0 + i * width)
  <2>1. \A i \in 1 .. n : (i - 1) * width \in Nat OBVIOUS
  <2>2. \A i \in 1 .. n : at(i) \in Nat \ {0} BY <2>1
  <2>3. \A i \in 1 .. n : i # n => i + 1 \in 1 .. n /\ (i + 1) - 1 = i OBVIOUS
  <2>4. QED BY <2>2, <2>3
<1>2. \A i \in 1 .. n : f[at(i)] = IF i = n THEN <<>> ELSE <<at(i + 1)>> \o f[at(i + 1)]
  <2> SUFFICES ASSUME NEW i \in 1 .. n
               PROVE  f[at(i)] = IF i = n THEN <<>> ELSE <<at(i + 1)>> \o f[at(i + 1)]
    OBVIOUS
  <2>1. step[at(i)] = IF i = n THEN null ELSE low0 + i * width OBVIOUS
  <2>2. f[at(i)] = IF step[at(i)] = null THEN <<>> ELSE <<step[at(i)]>> \o f[step[at(i)]] OBVIOUS
  <2>3. CASE i = n BY <2>1, <2>2, <2>3
  <2>4. CASE i # n
    <3>1. step[at(i)] = at(i + 1) /\ at(i + 1) # null BY <1>1, <2>1, <2>4
    <3> HIDE DEF at
    <3>2. QED BY <2>2, <2>4, <3>1
  <2>5. QED BY <2>3, <2>4
<1> HIDE DEF at
\* One more in front of a list.
<1>3. ASSUME NEW i \in 0 .. n - 1
      PROVE  <<at(i + 1)>> \o List(i + 1) = List(i)
  <2> DEFINE m == n - (i + 1)
             tail == [j \in 1 .. m |-> at((i + 1) + j)]
             joined == <<at(i + 1)>> \o tail
  <2>1. m \in Nat /\ n - i = m + 1 OBVIOUS
  <2>2. Len(tail) = m /\ tail \in Seq({at((i + 1) + j) : j \in 1 .. m})
    <3> DEFINE S == {at((i + 1) + j) : j \in 1 .. m}
    <3>1. \A j \in 1 .. m : tail[j] \in S OBVIOUS
    <3> HIDE DEF S, m
    <3>2. tail \in [1 .. m -> S] BY <3>1
    <3>3. Len(tail) = m BY <2>1
    <3> HIDE DEF tail
    <3>4. tail \in Seq(S) BY <2>1, <3>2
    <3>5. QED BY <3>3, <3>4 DEF S, tail
  <2> HIDE DEF m
  <2>3. DOMAIN joined = 1 .. m + 1 /\ joined = [j \in 1 .. m + 1 |-> joined[j]]
        /\ \A j \in 1 .. m + 1 : joined[j] = IF j = 1 THEN at(i + 1) ELSE tail[j - 1]
    <3>1. Len(<<at(i + 1)>>) = 1 /\ <<at(i + 1)>>[1] = at(i + 1) OBVIOUS
    <3> HIDE DEF tail
    <3>2. QED BY <2>1, <2>2, <3>1
  <2>4. \A j \in 1 .. m + 1 : joined[j] = at(i + j)
    <3>1. SUFFICES ASSUME NEW j \in 1 .. m + 1 PROVE joined[j] = at(i + j) OBVIOUS
    <3>2. joined[j] = IF j = 1 THEN at(i + 1) ELSE tail[j - 1] BY <2>3
    <3>3. CASE j = 1 BY <3>2, <3>3
    <3>4. CASE j # 1
      <4>1. j - 1 \in 1 .. m /\ (i + 1) + (j - 1) = i + j BY <2>1, <3>4
      <4>2. QED BY <3>2, <3>4, <4>1
    <3>5. QED BY <3>3, <3>4
  <2> HIDE DEF joined, tail
  <2>5. joined = [j \in 1 .. m + 1 |-> at(i + j)] BY <2>3, <2>4
  <2>6. joined = List(i) BY <2>1, <2>5
  <2>7. QED BY <2>6 DEF joined, tail, m
<1>4. CASE n = 0
  <2>1. f[null] = <<>> BY <1>4
  <2>2. [i \in 1 .. n |-> low0 + (i - 1) * width] = <<>> BY <1>4
  <2>3. QED BY <2>1, <2>2
<1>5. CASE n # 0
  <2>1. 0 \in T
    <3>1. f[at(n)] = <<>>
      <4>1. n \in 1 .. n BY <1>5
      <4>2. QED BY <1>2, <4>1
    <3>2. List(n) = <<>> OBVIOUS
    <3> HIDE DEF List
    <3>3. n - 0 = n /\ 0 \in 0 .. n - 1 BY <1>5
    <3>4. QED BY <3>1, <3>2, <3>3
  <2>2. ASSUME NEW k \in 1 .. n - 1, k - 1 \in T PROVE k \in T
    <3> HIDE DEF List
    <3> DEFINE i == n - k
    <3>1. i \in 1 .. n /\ i # n /\ n - (k - 1) = i + 1 /\ i \in 0 .. n - 1 OBVIOUS
    <3>2. f[at(i + 1)] = List(i + 1) BY <2>2, <3>1
    <3>3. f[at(i)] = <<at(i + 1)>> \o f[at(i + 1)] BY <1>2, <3>1
    <3> HIDE DEF i
    <3>4. f[at(i)] = List(i) BY <1>3, <3>1, <3>2, <3>3
    <3>5. QED BY <3>4 DEF i
  <2>3. n - 1 \in T
    <3> HIDE DEF T
    <3>1. n - 1 \in Nat BY <1>5
    <3>2. \A k \in 0 .. n - 1 : k \in T BY <2>1, <2>2, <3>1, UpTo
    <3>3. QED BY <3>1, <3>2
  <2>4. f[at(1)] = List(1)
    <3> HIDE DEF List
    <3>1. n - (n - 1) = 1 OBVIOUS
    <3>2. QED BY <2>3, <3>1
  <2>5. f[null] = <<at(1)>> \o f[at(1)]
    <3>1. at(1) = low0 BY DEF at
    <3>2. step[null] = low0 /\ low0 # null BY <1>5
    <3>3. QED BY <3>1, <3>2
  <2>6. <<at(1)>> \o List(1) = List(0)
    <3> HIDE DEF List
    <3>1. 0 + 1 = 1 /\ 0 \in 0 .. n - 1 BY <1>5
    <3>2. QED BY <1>3, <3>1
  <2>7. List(0) = [i \in 1 .. n |-> at(i)]
    <3>1. n - 0 = n /\ \A i \in 1 .. n : 0 + i = i OBVIOUS
    <3>2. QED BY <3>1
  <2> HIDE DEF List
  <2>8. f[null] = [i \in 1 .. n |-> at(i)] BY <2>4, <2>5, <2>6, <2>7
  <2>9. QED BY <2>8 DEF at
<1>6. QED BY <1>4, <1>5

\* A structure with a number is not empty.
LEMMA LaidSize ==
  ASSUME NEW layout, NEW words, NEW quads, NEW others, Laid(layout, words, quads, others),
         NEW f \in words, f \notin quads, f \notin others
  PROVE  Sizeof(layout) \in Nat \ {0}
<1> DEFINE S == (words \union quads \union others) \X Nat
<1>1. layout \in Seq(S) BY DEF Laid
<1>2. Measured(layout)
  <2>1. \A i \in DOMAIN layout : layout[i] \in S BY <1>1
  <2>2. \A x \in S : x[2] \in Nat OBVIOUS
  <2>3. QED BY <2>1, <2>2 DEF Measured
<1> HIDE DEF S
<1>3. HasField(layout, f) /\ Wide(layout, f, 4) BY DEF Laid, Wide
<1>4. WidthOf(layout, f) = 4 BY <1>3, WidthIs
<1>5. OffsetOf(layout, f) \in Nat /\ Sizeof(layout) \in Nat
      /\ OffsetOf(layout, f) + WidthOf(layout, f) <= Sizeof(layout)
  BY <1>1, <1>2, <1>3, FieldInside
<1>6. QED BY <1>4, <1>5

\* The elements are structures with numbers.
LEMMA ElementSizes ==
  /\ Sizeof(struct_section) \in Nat \ {0} /\ Sizeof(struct_section_64) \in Nat \ {0}
  /\ Sizeof(struct_build_tool_version) \in Nat \ {0}
<1> DEFINE N == <<"offset", "align", "reloff", "nreloc", "flags", "reserved1", "reserved2">>
           M == {"offset", "align", "reloff", "nreloc", "flags", "reserved1", "reserved2"}
           A == <<"addr", "size">>
           B == {"addr", "size"}
           R == <<"reserved3">>
           Q == {"reserved3"}
           T == <<"tool", "version">>
           U == {"tool", "version"}
           V == ({"sectname"} \union {"segname"} \union {}) \union {}
<1>1. Laid(Words(N), M, {}, {})
  <2>1. N \in Seq(M) /\ \A f \in M : \E i \in 1 .. Len(N) : N[i] = f OBVIOUS
  <2> HIDE DEF N, M
  <2>2. QED BY <2>1, LaidNames
<1>2. Laid(Words(A), B, {}, {}) /\ Laid(Quads(A), {}, B, {})
  <2>1. A \in Seq(B) /\ \A f \in B : \E i \in 1 .. Len(A) : A[i] = f OBVIOUS
  <2> HIDE DEF A, B
  <2>2. QED BY <2>1, LaidNames
<1>3. Laid(Words(R), Q, {}, {})
  <2>1. R \in Seq(Q) /\ \A f \in Q : \E i \in 1 .. Len(R) : R[i] = f OBVIOUS
  <2> HIDE DEF R, Q
  <2>2. QED BY <2>1, LaidNames
<1>4. Laid(Words(T), U, {}, {})
  <2>1. T \in Seq(U) /\ \A f \in U : \E i \in 1 .. Len(T) : T[i] = f OBVIOUS
  <2> HIDE DEF T, U
  <2>2. QED BY <2>1, LaidNames
<1>5. Laid(<<>>, {}, {}, {}) BY DEF Laid
<1>6. ASSUME NEW address, NEW w, NEW q, Laid(address, w, q, {}), NEW more, NEW x, Laid(more, x, {}, {}),
             "offset" \notin q
      PROVE  Sizeof(Section(address, more)) \in Nat \ {0}
  <2> DEFINE first == Chars("sectname", 16) \o Chars("segname", 16)
  <2>1. Laid(first, {} \union {}, {} \union {}, {"sectname"} \union {"segname"})
    <3>1. 16 \in Nat OBVIOUS
    <3>2. Laid(Chars("sectname", 16), {}, {}, {"sectname"}) /\ Laid(Chars("segname", 16), {}, {}, {"segname"})
      BY <3>1, LaidChars
    <3>3. QED BY <3>2, LaidJoin
  <2> DEFINE begin == first \o address
             w1 == ({} \union {}) \union w
             q1 == ({} \union {}) \union q
             o1 == ({"sectname"} \union {"segname"}) \union {}
  <2>2. Laid(begin, w1, q1, o1) BY <1>6, <2>1, LaidJoin
  <2> DEFINE middle == begin \o Words(N)
  <2> HIDE DEF begin, N
  <2>3. Laid(middle, w1 \union M, q1 \union {}, o1 \union {}) BY <1>1, <2>2, LaidJoin
  <2> DEFINE whole == middle \o more
             words == (w1 \union M) \union x
             quads == (q1 \union {}) \union {}
             others == (o1 \union {}) \union {}
  <2> HIDE DEF middle
  <2>4. Laid(whole, words, quads, others) BY <1>6, <2>3, LaidJoin
  <2>5. "offset" \in words /\ "offset" \notin quads /\ "offset" \notin others BY <1>6
  <2>6. Section(address, more) = whole BY DEF Section, middle, begin, N
  <2> HIDE DEF whole, words, quads, others
  <2>7. QED BY <2>4, <2>5, <2>6, LaidSize
<1>7. Sizeof(struct_section) \in Nat \ {0}
  <2>1. "offset" \notin {} OBVIOUS
  <2>2. struct_section = Section(Words(A), <<>>) BY DEF struct_section
  <2> HIDE DEF A, B
  <2>3. QED BY <1>2, <1>5, <1>6, <2>1, <2>2
<1>8. Sizeof(struct_section_64) \in Nat \ {0}
  <2>1. "offset" \notin B OBVIOUS
  <2>2. struct_section_64 = Section(Quads(A), Words(R)) BY DEF struct_section_64
  <2> HIDE DEF A, B, R, Q
  <2>3. QED BY <1>2, <1>3, <1>6, <2>1, <2>2
<1>9. Sizeof(struct_build_tool_version) \in Nat \ {0}
  <2>1. "tool" \in U /\ "tool" \notin {} OBVIOUS
  <2>2. struct_build_tool_version = Words(T) BY DEF struct_build_tool_version
  <2> HIDE DEF T, U
  <2>3. QED BY <1>4, <2>1, <2>2, LaidSize
<1>10. QED BY <1>7, <1>8, <1>9

\* The walk of a command's elements finds as many as its count calls for, when the command is as
\* large as they are, and each lies in the command.
LEMMA ElementsRead ==
  ASSUME ImageInv, Typed, NEW command \in WholeCommands, NEW class, Faithful(class), IsA(command, class),
         NEW layout, class.layout = layout,
         NEW count \in DOMAIN class.reads, NEW width \in Nat \ {0}
  PROVE  ElementsFound(command, class, layout, count, width)
<1> DEFINE n == FileField(lc, layout, count)
           size == FileSize(lc)
           base == Sizeof(layout)
           mapping == image.header_mapping
           step(p) == NextElement(mem, mapping, command, class, count, width, p, TRUE)
           high == lc + size
           start == lc + base
           D == {NULL} \union (lc .. high)
<1> SUFFICES ASSUME size = base + n * width
             PROVE  /\ ElementsOf(command, class, count, width) =
                         [i \in 1 .. n |-> lc + base + (i - 1) * width]
                    /\ \A i \in 1 .. n :
                         Succeeded(InitElement(mem, command,
                                               ElementsOf(command, class, count, width)[i], width))
  BY Zenon DEF ElementsFound
<1>1. /\ file \in Files /\ cpu \in Cpus /\ command.mach_load_command = lc /\ Mapped
      /\ lc \in Nat /\ lc >= HeaderAddress /\ HeaderAddress \in Nat /\ size \in Nat /\ lc # NULL
      /\ cmdsize(mem, lc) = size /\ lc + size <= HeaderAddress + mapping.length
  BY WholeCommand
<1>2. /\ mapping \in mk_memory_object /\ NeverWraps(mapping) /\ mapping.address = HeaderAddress
      /\ HeaderAddress + mapping.length <= MaxWord /\ mapping.length \in Nat /\ MaxWord \in Nat
  <2>1. mapping.address = HeaderAddress BY <1>1 DEF ImageInv, MappingInv
  <2>2. /\ mapping \in mk_memory_object /\ mapping.target_address = LoadAddress
        /\ HeaderAddress + mapping.length <= MaxWord /\ LoadAddress + mapping.length <= MaxWord
    BY <1>1 DEF Typed, WindowInv
  <2>3. mapping.length \in Nat /\ MaxWord \in Nat
    BY <2>2, WordAssumption DEF mk_memory_object, Word
  <2>4. QED BY <2>1, <2>2, <2>3 DEF NeverWraps
<1>3. base \in Nat
  <2>1. PICK words, quads, others : Describes(class, words, quads, others) BY DEF Faithful
  <2>2. QED BY <2>1, DescribedSize
<1>4. n \in Nat /\ getter(mem, command, class, count) = n
  <2>1. HasField(layout, count) /\ Wide(layout, count, class.reads[count])
        /\ class.reads[count] \in {4, 8}
    BY FaithfulField
  <2>2. \A w \in {4, 8} : w \in 0 .. 8 OBVIOUS
  <2>3. Read(mem, lc, layout, count, class.reads[count]) = n
        /\ n \in 0 .. UINT_MAX(class.reads[count])
    BY <1>1, <2>1, <2>2, ReadIsFile
  <2>4. \A k, w : k \in 0 .. w => k \in Nat OBVIOUS
  <2> HIDE DEF n
  <2>5. QED BY <1>1, <2>3, <2>4 DEF getter
<1>5. mk_load_command_size(mem, command) = size BY <1>1 DEF mk_load_command_size
<1>6. NULL = 0 BY DEF NULL
<1> DEFINE next(p) == IF p = NULL THEN lc + base ELSE p + width
           stops(p) == \/ p = NULL /\ (n = 0 \/ ~ HasElement(size, base, width))
                       \/ p # NULL /\ ~ Succeeded(mk_vm_range_contains_address(
                                                      mk_vm_range_make(lc, size), 0, p))
                       \/ next(p) >= lc + size
                       \/ ~ Succeeded(mk_memory_object_unmap_address(mapping, 0, next(p), width))
<1>7. \A p : step(p) = IF stops(p) THEN NULL ELSE next(p)
  BY <1>1, <1>4, <1>5, Zenon DEF NextElement
<1> HIDE DEF n, size, base, mapping, step
<1>8. ASSUME NEW p \in Nat, p >= lc, p + width <= lc + size
      PROVE  Succeeded(mk_memory_object_unmap_address(mapping, 0, p, width))
  <2>1. p >= mapping.address /\ p + width <= mapping.address + mapping.length
    BY <1>1, <1>2, <1>8
  <2>2. 0 \in Nat /\ width \in Nat OBVIOUS
  <2>3. mk_memory_object_unmap_address(mapping, 0, p, width) =
          Ok(mapping.target_address + (p - mapping.address))
    BY <1>2, <2>1, <2>2, InWindow
  <2>4. \A v : Succeeded(Ok(v)) BY DEF Succeeded, Ok
  <2>5. QED BY <2>3, <2>4
<1>9. ASSUME NEW p \in Nat, p >= lc, p < lc + size
      PROVE  Succeeded(mk_vm_range_contains_address(mk_vm_range_make(lc, size), 0, p))
  <2> DEFINE range == mk_vm_range_make(lc, size)
  <2>1. range.location = lc /\ range.length = size BY DEF mk_vm_range_make
  <2>2. lc + size <= MaxWord BY <1>1, <1>2
  <2>3. mk_vm_address_apply_offset(p, 0) = Ok(p)
    <3>1. ~ (MaxWord - 0 < p) /\ p + 0 = p BY <1>1, <1>2, <1>9, <2>2
    <3>2. QED BY <3>1 DEF mk_vm_address_apply_offset, Adds
  <2>4. Succeeded(Ok(p)) /\ Ok(p).value = p BY DEF Succeeded, Ok
  <2>5. ~ RangeOverflows(range) BY <1>1, <1>2, <2>1, <2>2 DEF RangeOverflows
  <2>6. ~ (p < range.location \/ p >= range.location + range.length) BY <1>1, <1>9, <2>1
  <2> HIDE DEF range
  <2>7. mk_vm_range_contains_address(range, 0, p) = Ok(p)
    BY <2>3, <2>4, <2>5, <2>6, Zenon DEF mk_vm_range_contains_address
  <2>8. QED BY <2>4, <2>7 DEF range
<1>10. ASSUME NEW p \in Nat, p >= lc, p + width <= lc + size
       PROVE  Succeeded(InitElement(mem, command, p, width))
  <2> DEFINE outer == mk_vm_range_make(lc, size)
             inner == mk_vm_range_make(p, width)
  <2>1. outer.location = lc /\ outer.length = size /\ inner.location = p /\ inner.length = width
    BY DEF mk_vm_range_make
  <2> HIDE DEF outer, inner
  <2>2. ~ RangeOverflows(outer) /\ ~ RangeOverflows(inner)
    BY <1>1, <1>2, <1>10, <2>1 DEF RangeOverflows
  <2>3. ~ (inner.location < outer.location)
        /\ ~ (inner.location + inner.length > outer.location + outer.length)
    BY <1>1, <1>10, <2>1
  <2>4. mk_vm_range_contains_range(outer, inner, FALSE) = Ok(inner.location)
    BY <2>2, <2>3 DEF mk_vm_range_contains_range
  <2>5. \A v : Succeeded(Ok(v)) BY DEF Succeeded, Ok
  <2>6. QED BY <1>1, <1>5, <2>4, <2>5 DEF InitElement, outer, inner
<1> DEFINE at(i) == start + (i - 1) * width
<1>11. /\ n * width \in Nat /\ start \in Nat /\ start > 0 /\ high \in Nat /\ lc <= high
       /\ high = start + n * width
  <2>1. \A x, y \in Nat : x * y \in Nat OBVIOUS
  <2>2. n * width \in Nat BY <1>4, <2>1
  <2> DEFINE m == n * width
  <2> HIDE DEF m
  <2>3. m \in Nat /\ size = base + m BY <2>2 DEF m
  <2>4. start \in Nat /\ start > 0 /\ high \in Nat /\ lc <= high /\ high = start + m
    BY <1>1, <1>3, <1>6, <2>3
  <2>5. QED BY <2>3, <2>4 DEF m
<1>12. ASSUME NEW i \in 1 .. n
       PROVE  /\ at(i) \in Nat /\ at(i) >= start /\ at(i) + width <= high
              /\ at(i) + width = start + i * width
              /\ (i = n => at(i) + width = high)
              /\ (i # n => at(i) + width + width <= high)
  <2>1. \A w \in Nat : \A x, y \in Nat : x <= y => x * w <= y * w BY SMTT(30)
  <2>2. (i - 1) * width \in Nat /\ i * width = (i - 1) * width + width BY <1>4
  <2>3. i * width <= n * width BY <1>4, <2>1
  <2>4. i # n => (i + 1) * width <= n * width /\ (i + 1) * width = i * width + width BY <1>4, <2>1
  <2>5. i * width \in Nat BY <1>4
  <2> DEFINE x == (i - 1) * width
             y == i * width
             z == n * width
             v == (i + 1) * width
  <2>6. x \in Nat /\ y \in Nat /\ z \in Nat /\ y = x + width /\ y <= z /\ high = start + z
        /\ (i # n => v <= z /\ v = y + width) /\ (i = n => y = z)
    BY <1>11, <2>2, <2>3, <2>4, <2>5
  <2> HIDE DEF x, y, z, v, high, start
  <2>7. /\ start + x \in Nat /\ start + x >= start /\ (start + x) + width <= high
        /\ (start + x) + width = start + y
        /\ (i = n => (start + x) + width = high) /\ (i # n => (start + x) + width + width <= high)
    BY <1>11, <2>6
  <2>8. QED BY <2>7 DEF x, y
<1>13. step(NULL) = IF n = 0 THEN NULL ELSE start
  <2>1. next(NULL) = start OBVIOUS
  <2>2. CASE n = 0 BY <1>7, <2>2
  <2>3. CASE n # 0
    <3>1. 1 \in 1 .. n BY <1>4, <2>3
    <3>2. at(1) = start BY <1>11
    <3>3. start + width <= high BY <1>12, <3>1, <3>2
    <3>4. HasElement(size, base, width) BY <1>1, <1>3, <3>3 DEF HasElement
    <3>5. ~ (start >= lc + size) BY <1>11, <3>3
    <3>6. Succeeded(mk_memory_object_unmap_address(mapping, 0, start, width))
      BY <1>1, <1>3, <1>8, <1>11, <3>3
    <3> HIDE DEF start
    <3>7. ~ stops(NULL) BY <2>1, <2>3, <3>4, <3>5, <3>6
    <3> HIDE DEF stops, next
    <3>8. QED BY <1>7, <2>1, <2>3, <3>7
  <2>4. QED BY <2>2, <2>3
<1>14. ASSUME NEW p \in lc .. high
       PROVE  step(p) = NULL \/ (step(p) = p + width /\ step(p) \in lc .. high /\ step(p) > p)
  <2>1. p # NULL BY <1>1, <1>6
  <2>2. next(p) = p + width BY <2>1
  <2>3. CASE stops(p)
    <3> HIDE DEF stops, next
    <3>1. QED BY <1>7, <2>3
  <2>4. CASE ~ stops(p)
    <3>1. ~ (p + width >= lc + size) BY <2>1, <2>4
    <3>2. step(p) = p + width
      <4> HIDE DEF stops, next
      <4>1. QED BY <1>7, <2>2, <2>4
    <3>3. p + width \in lc .. high /\ p + width > p BY <1>1, <3>1
    <3>4. QED BY <3>2, <3>3
  <2>5. QED BY <2>3, <2>4
<1>15. ASSUME NEW i \in 1 .. n
       PROVE  /\ at(i) \in lc .. high /\ at(i) # NULL
              /\ step(at(i)) = IF i = n THEN NULL ELSE start + i * width
  <2> DEFINE q == at(i)
  <2>1. /\ q \in Nat /\ q >= start /\ q + width <= high /\ q + width = start + i * width
        /\ (i = n => q + width = high) /\ (i # n => q + width + width <= high)
    BY <1>12
  <2> HIDE DEF q
  <2>2. q \in lc .. high /\ q # NULL /\ q >= lc /\ q < lc + size BY <1>1, <1>3, <1>6, <1>11, <2>1
  <2>3. next(q) = q + width BY <2>2
  <2>4. CASE i = n
    <3>1. stops(q) BY <2>1, <2>3, <2>4
    <3> HIDE DEF stops, next
    <3>2. QED BY <1>7, <2>2, <2>4, <3>1 DEF q
  <2>5. CASE i # n
    <3>1. ~ (q + width >= lc + size) BY <1>1, <2>1, <2>5
    <3>2. Succeeded(mk_memory_object_unmap_address(mapping, 0, q + width, width))
      BY <1>1, <1>8, <2>1, <2>2, <2>5
    <3>3. Succeeded(mk_vm_range_contains_address(mk_vm_range_make(lc, size), 0, q))
      BY <1>9, <2>1, <2>2
    <3>4. ~ stops(q) BY <2>2, <2>3, <3>1, <3>2, <3>3
    <3> HIDE DEF stops, next
    <3>5. QED BY <1>7, <2>1, <2>2, <2>3, <2>5, <3>4 DEF q
  <2>6. QED BY <2>4, <2>5
<1> DEFINE Body(f, p) == IF step(p) = NULL THEN <<>> ELSE <<step(p)>> \o f[step(p)]
           rest == CHOOSE f : f = [p \in D |-> Body(f, p)]
<1>16. ElementsOf(command, class, count, width) = rest[NULL]
  BY Zenon DEF ElementsOf, step, size, mapping
<1>17. rest = [p \in D |-> Body(rest, p)]
  <2> DEFINE s == [p \in D |-> step(p)]
  <2>1. \A p \in D : s[p] = step(p) OBVIOUS
  <2>2. NULL \notin lc .. high BY <1>1, <1>6
  <2>3. \A p \in D : step(p) \in {NULL} \union (lc .. high)
    <3>1. step(NULL) \in {NULL} \union (lc .. high) BY <1>1, <1>3, <1>11, <1>13
    <3>2. QED BY <1>14, <3>1
  <2>4. \A p \in lc .. high : step(p) = NULL \/ step(p) > p BY <1>14
  <2> HIDE DEF s
  <2>5. GoesOn(s, NULL, D, lc, high)
    <3> HIDE DEF high
    <3>1. \A p \in D : s[p] \in {NULL} \union (lc .. high) BY <2>1, <2>3
    <3>2. \A p \in lc .. high : s[p] = NULL \/ s[p] > p BY <2>1, <2>4
    <3>3. QED BY <3>1, <3>2 DEF GoesOn
  <2> HIDE DEF high, D
  <2>6. HasList(s, NULL, D) BY <1>1, <1>11, <2>2, <2>5, ListExists
  <2>7. \E f : f = [p \in D |-> Body(f, p)]
    <3>1. PICK f : f = [p \in D |-> ListFrom(s, NULL, f, p)] BY <2>6, Zenon DEF HasList
    <3>2. \A p \in D : ListFrom(s, NULL, f, p) = Body(f, p) BY <2>1 DEF ListFrom
    <3> HIDE DEF Body
    <3>3. [p \in D |-> ListFrom(s, NULL, f, p)] = [p \in D |-> Body(f, p)] BY <3>2
    <3>4. f = [p \in D |-> Body(f, p)] BY <3>1, <3>3
    <3>5. QED BY <3>4
  <2> HIDE DEF Body
  <2>8. QED BY <2>7, Zenon
<1>18. rest[NULL] = [i \in 1 .. n |-> start + (i - 1) * width]
  <2> DEFINE s == [p \in D |-> step(p)]
  <2>1. NULL \in D /\ \A i \in 1 .. n : at(i) \in D BY <1>15
  <2> HIDE DEF rest, D
  <2>2. \A p \in D : s[p] = step(p) /\ rest[p] = Body(rest, p) BY <1>17
  <2> HIDE DEF s
  <2>3. s[NULL] = IF n = 0 THEN NULL ELSE start BY <1>13, <2>1, <2>2
  <2>4. \A i \in 1 .. n : s[at(i)] = IF i = n THEN NULL ELSE start + i * width BY <1>15, <2>1, <2>2
  <2>5. TakesSteps(s, NULL, start, n, width) BY <2>3, <2>4 DEF TakesSteps
  <2>6. \A p \in D : rest[p] = ListFrom(s, NULL, rest, p) BY <2>2 DEF ListFrom
  <2>7. ListsSteps(rest, s, NULL, start, n, width) BY <2>1, <2>6 DEF ListsSteps
  <2>8. NULL \notin Nat \ {0} BY <1>6
  <2> HIDE DEF start
  <2>9. QED BY <1>4, <1>11, <2>5, <2>7, <2>8, ListOf
<1>19. \A i \in 1 .. n : lc + base + (i - 1) * width = at(i) OBVIOUS
<1>20. \A i \in 1 .. n : Succeeded(InitElement(mem, command, at(i), width))
  <2>1. SUFFICES ASSUME NEW i \in 1 .. n PROVE Succeeded(InitElement(mem, command, at(i), width))
    OBVIOUS
  <2>2. at(i) \in Nat /\ at(i) >= start /\ at(i) + width <= high BY <1>12
  <2>3. at(i) >= lc /\ at(i) + width <= lc + size BY <1>1, <1>3, <2>2
  <2> HIDE DEF at
  <2>4. QED BY <1>10, <2>2, <2>3
<1>21. QED BY <1>16, <1>18, <1>20

\* The three classes whose commands have elements behind them count them in a number they read.
LEMMA ElementCounts ==
  /\ mk_load_command_segment.layout = struct_segment_command
  /\ "nsects" \in DOMAIN mk_load_command_segment.reads
  /\ mk_load_command_segment_64.layout = struct_segment_command_64
  /\ "nsects" \in DOMAIN mk_load_command_segment_64.reads
  /\ mk_load_command_build_version.layout = struct_build_version_command
  /\ "ntools" \in DOMAIN mk_load_command_build_version.reads
<1>1. \A F, G : DOMAIN swap32(F) = F /\ DOMAIN swap(F, G) = F \union G BY SwapWidths
<1>2. /\ mk_load_command_segment.layout = struct_segment_command
      /\ "nsects" \in DOMAIN mk_load_command_segment.reads
  <2> DEFINE R == {"vmaddr", "vmsize", "fileoff", "filesize", "maxprot", "initprot", "nsects", "flags"}
             W == {"cmd", "cmdsize"} \union R
             layout == struct_segment_command
             bytes == {"segname"}
             class == mk_load_command_segment
  <2>1. "nsects" \in R OBVIOUS
  <2> HIDE DEF layout
  <2>2. class = [Class("SEGMENT", layout, swap32(W), swap32(R)) EXCEPT !.bytes = bytes,
                 !.otherwise["maxprot"] = UINT_MAX(4) \div 2, !.otherwise["initprot"] = UINT_MAX(4) \div 2]
    BY DEF mk_load_command_segment, layout
  <2> HIDE DEF class, W, R, bytes
  <2>3. Vtable(class, layout, swap32(W), swap32(R), bytes, "", "EINVAL") BY <2>2, ClassVtable
  <2>4. class.layout = layout /\ class.reads = swap32(R) BY <2>3, Zenon DEF Vtable
  <2>5. DOMAIN class.reads = R BY <1>1, <2>4
  <2>6. QED BY <2>1, <2>4, <2>5, Zenon DEF layout, class
<1>3. /\ mk_load_command_segment_64.layout = struct_segment_command_64
      /\ "nsects" \in DOMAIN mk_load_command_segment_64.reads
  <2> DEFINE Q == {"vmaddr", "vmsize", "fileoff", "filesize"}
             R == {"maxprot", "initprot", "nsects", "flags"}
             W == {"cmd", "cmdsize"} \union R
             layout == struct_segment_command_64
             bytes == {"segname"}
             class == mk_load_command_segment_64
  <2>1. "nsects" \in R OBVIOUS
  <2> HIDE DEF layout
  <2>2. class = [Class("SEGMENT_64", layout, swap(W, Q), swap(R, Q)) EXCEPT !.bytes = bytes,
                 !.otherwise["maxprot"] = UINT_MAX(4) \div 2, !.otherwise["initprot"] = UINT_MAX(4) \div 2]
    BY DEF mk_load_command_segment_64, layout
  <2> HIDE DEF class, W, Q, R, bytes
  <2>3. Vtable(class, layout, swap(W, Q), swap(R, Q), bytes, "", "EINVAL") BY <2>2, ClassVtable
  <2>4. class.layout = layout /\ class.reads = swap(R, Q) BY <2>3, Zenon DEF Vtable
  <2>5. DOMAIN class.reads = R \union Q BY <1>1, <2>4
  <2>6. "nsects" \in R \union Q BY <2>1
  <2>7. QED BY <2>4, <2>5, <2>6, Zenon DEF layout, class
<1>4. /\ mk_load_command_build_version.layout = struct_build_version_command
      /\ "ntools" \in DOMAIN mk_load_command_build_version.reads
  <2> DEFINE R == {"platform", "ntools"}
             W == {"cmd", "cmdsize", "minos", "sdk"} \union R
             layout == struct_build_version_command
             class == mk_load_command_build_version
  <2>1. "ntools" \in R OBVIOUS
  <2> HIDE DEF layout
  <2>2. class = [Class("BUILD_VERSION", layout, swap32(W), swap32(R)) EXCEPT !.parts = BuildVersionParts]
    BY DEF mk_load_command_build_version, BuildVersionParts, layout
  <2> HIDE DEF class, W, R
  <2>3. Vtable(class, layout, swap32(W), swap32(R), {}, "", "EINVAL") BY <2>2, ClassVtable
  <2>4. class.layout = layout /\ class.reads = swap32(R) BY <2>3, Zenon DEF Vtable
  <2>5. DOMAIN class.reads = R BY <1>1, <2>4
  <2>6. QED BY <2>1, <2>4, <2>5, Zenon DEF layout, class
<1>5. QED BY <1>2, <1>3, <1>4

\* The elements of every command are found.
LEMMA ElementsWalked ==
  ASSUME ImageInv, Typed
  PROVE  ElementsAgree
<1>1. \A class \in {mk_load_command_segment, mk_load_command_segment_64, mk_load_command_build_version} :
        Faithful(class)
  BY SegmentFaithful, Segment64Faithful, BuildVersionFaithful
<1>2. ASSUME NEW command \in WholeCommands, IsA(command, mk_load_command_segment)
      PROVE  ElementsFound(command, mk_load_command_segment, struct_segment_command, "nsects",
                           Sizeof(struct_section))
  BY <1>1, <1>2, ElementSizes, ElementCounts, ElementsRead
<1>3. ASSUME NEW command \in WholeCommands, IsA(command, mk_load_command_segment_64)
      PROVE  ElementsFound(command, mk_load_command_segment_64, struct_segment_command_64, "nsects",
                           Sizeof(struct_section_64))
  BY <1>1, <1>3, ElementSizes, ElementCounts, ElementsRead
<1>4. ASSUME NEW command \in WholeCommands, IsA(command, mk_load_command_build_version)
      PROVE  ElementsFound(command, mk_load_command_build_version, struct_build_version_command,
                           "ntools", Sizeof(struct_build_tool_version))
  BY <1>1, <1>4, ElementSizes, ElementCounts, ElementsRead
<1>5. QED BY <1>2, <1>3, <1>4, ElementsForm, Zenon

----------------------------------------------------------------------------
(* The options of a linker option.                                         *)

\* The places of the first m zeros of a sequence, and that there are no more behind a place.
Ends(tail, q, m) ==
  /\ q \in [0 .. m -> 0 .. Len(tail)] /\ q[0] = 0
  /\ \A i \in 0 .. m : \A j \in 0 .. m : i < j => q[i] < q[j]
  /\ \A i \in 1 .. m : tail[q[i]] = 0
  /\ \A z \in 1 .. q[m] : tail[z] = 0 => \E i \in 1 .. m : z = q[i]
NoneAfter(tail, x) == \A z \in x + 1 .. Len(tail) : tail[z] # 0

\* There are as many places as are asked for, or as there are zeros.
LEMMA EndsExist ==
  ASSUME NEW tail \in Seq(Nat), NEW count \in Nat
  PROVE  \E m \in 0 .. count : \E q : Ends(tail, q, m) /\ (m = count \/ NoneAfter(tail, q[m]))
<1> DEFINE N == Len(tail)
           Has(k) == \E m \in 0 .. k : \E q : Ends(tail, q, m) /\ (m = k \/ NoneAfter(tail, q[m]))
           T == {k \in 0 .. count : Has(k)}
<1>1. N \in Nat OBVIOUS
<1>2. 0 \in T
  <2> DEFINE q == [i \in 0 .. 0 |-> 0]
  <2>1. q \in [0 .. 0 -> 0 .. N] /\ q[0] = 0 BY <1>1
  <2> HIDE DEF q
  <2>2. \A i \in 0 .. 0 : \A j \in 0 .. 0 : ~ (i < j) OBVIOUS
  <2>3. \A z : z \notin 1 .. 0 OBVIOUS
  <2>4. Ends(tail, q, 0) BY <2>1, <2>2, <2>3 DEF Ends
  <2>5. 0 \in 0 .. 0 /\ 0 \in 0 .. count OBVIOUS
  <2>6. QED BY <2>4, <2>5
<1>3. ASSUME NEW k \in 1 .. count, k - 1 \in T PROVE k \in T
  <2>1. PICK m \in 0 .. k - 1 : \E q : Ends(tail, q, m) /\ (m = k - 1 \/ NoneAfter(tail, q[m])) BY <1>3
  <2>2. PICK q : Ends(tail, q, m) /\ (m = k - 1 \/ NoneAfter(tail, q[m])) BY <2>1
  <2>3. k \in 0 .. count /\ k \in Nat /\ m \in 0 .. k OBVIOUS
  <2>4. CASE NoneAfter(tail, q[m]) BY <2>2, <2>3, <2>4
  <2>5. CASE ~ NoneAfter(tail, q[m])
    <3>1. m = k - 1 BY <2>2, <2>5
    <3> DEFINE zeros == {z \in q[m] + 1 .. N : tail[z] = 0}
    <3>2. q[m] \in 0 .. N BY <2>1, <2>2 DEF Ends
    <3>3. zeros # {} BY <2>5 DEF NoneAfter
    <3>4. zeros \in SUBSET Nat BY <3>2
    <3>5. PICK z0 \in zeros : \A z \in zeros : z0 <= z BY <3>3, <3>4, LeastNatural
    <3>6. /\ z0 \in 0 .. N /\ z0 \in 1 .. N /\ tail[z0] = 0 /\ z0 > q[m]
          /\ \A z \in 1 .. z0 : tail[z] = 0 => z \in 1 .. q[m] \/ z = z0
      <4>1. z0 \in q[m] + 1 .. N /\ tail[z0] = 0 BY <3>5
      <4>2. ASSUME NEW z \in 1 .. z0, tail[z] = 0 PROVE z \in 1 .. q[m] \/ z = z0
        <5>1. CASE z \in zeros
          <6>1. z0 <= z BY <3>5, <5>1
          <6> HIDE DEF zeros
          <6>2. QED BY <4>1, <6>1, <3>2
        <5>2. CASE z \notin zeros
          <6>1. ~ (z \in q[m] + 1 .. N) BY <4>2, <5>2
          <6> HIDE DEF zeros
          <6>2. QED BY <1>1, <3>2, <4>1, <6>1
        <5>3. QED BY <5>1, <5>2
      <4>3. QED BY <1>1, <3>2, <4>1, <4>2
    <3> HIDE DEF zeros
    <3> DEFINE r == [i \in 0 .. k |-> IF i = k THEN z0 ELSE q[i]]
    <3>7. /\ \A i \in 0 .. m : i \in 0 .. k /\ i # k
          /\ \A i \in 0 .. k : i \in 0 .. m \/ i = k
          /\ k \in 0 .. k /\ 0 \in 0 .. m /\ m \in 0 .. m
      BY <2>3, <3>1
    <3>8. r[k] = z0 /\ (\A i \in 0 .. m : r[i] = q[i]) BY <3>7
    <3>9. r \in [0 .. k -> 0 .. N] /\ r[0] = 0
      <4>1. \A i \in 0 .. k : (IF i = k THEN z0 ELSE q[i]) \in 0 .. N BY <2>2, <3>6, <3>7 DEF Ends
      <4>2. q[0] = 0 BY <2>2 DEF Ends
      <4>3. r[0] = 0 BY <3>7, <3>8, <4>2
      <4>4. QED BY <4>1, <4>3
    <3> HIDE DEF r
    <3>10. ASSUME NEW i \in 0 .. k, NEW j \in 0 .. k, i < j PROVE r[i] < r[j]
      <4>1. i \in 0 .. m BY <3>1, <3>10
      <4>2. q[i] \in Nat /\ q[m] \in Nat /\ z0 \in Nat
        <5>1. q[i] \in 0 .. N BY <2>2, <4>1 DEF Ends
        <5>2. QED BY <3>2, <3>6, <5>1
      <4>3. i < m => q[i] < q[m] BY <2>2, <3>7, <4>1 DEF Ends
      <4>4. i = m \/ i < m BY <4>1
      <4>5. CASE j = k BY <3>6, <3>8, <4>1, <4>2, <4>3, <4>4, <4>5
      <4>6. CASE j \in 0 .. m
        <5>1. q[i] < q[j] BY <2>2, <3>10, <4>1, <4>6 DEF Ends
        <5>2. QED BY <3>8, <4>1, <4>6, <5>1
      <4>7. QED BY <3>7, <4>5, <4>6
    <3>11. ASSUME NEW i \in 1 .. k PROVE tail[r[i]] = 0
      <4>1. CASE i = k BY <3>6, <3>8, <4>1
      <4>2. CASE i # k
        <5>1. i \in 1 .. m /\ i \in 0 .. m BY <3>1, <4>2
        <5>2. tail[q[i]] = 0 BY <2>2, <5>1 DEF Ends
        <5>3. QED BY <3>8, <5>1, <5>2
      <4>3. QED BY <4>1, <4>2
    <3>12. ASSUME NEW z \in 1 .. r[k], tail[z] = 0 PROVE \E i \in 1 .. k : z = r[i]
      <4>1. z \in 1 .. q[m] \/ z = z0 BY <3>6, <3>8, <3>12
      <4>2. CASE z = z0 BY <3>8, <4>2
      <4>3. CASE z \in 1 .. q[m]
        <5>1. PICK i \in 1 .. m : z = q[i] BY <2>2, <3>12, <4>3 DEF Ends
        <5>2. i \in 0 .. m /\ i \in 1 .. k BY <3>1
        <5>3. QED BY <3>8, <5>1, <5>2
      <4>4. QED BY <4>1, <4>2, <4>3
    <3>13. Ends(tail, r, k) BY <3>9, <3>10, <3>11, <3>12 DEF Ends
    <3>14. QED BY <2>3, <3>7, <3>13
  <2>6. QED BY <2>4, <2>5
<1>4. count \in T
  <2> HIDE DEF T
  <2>1. \A k \in 0 .. count : k \in T BY <1>2, <1>3, UpTo
  <2>2. QED BY <2>1
<1>5. QED BY <1>4

\* When there are no more behind the last place, there are as many zeros as places.
LEMMA EndsAreAll ==
  ASSUME NEW tail \in Seq(Nat), NEW m \in Nat, NEW q, Ends(tail, q, m), NoneAfter(tail, q[m])
  PROVE  Cardinality({i \in 1 .. Len(tail) : tail[i] = 0}) = m
<1> DEFINE zeros == {i \in 1 .. Len(tail) : tail[i] = 0}
           f == [i \in 1 .. m |-> q[i]]
<1>1. ASSUME NEW i \in 1 .. m PROVE q[i] \in zeros
  <2>1. i \in 0 .. m /\ 0 \in 0 .. m /\ 0 < i OBVIOUS
  <2>2. q[i] \in 0 .. Len(tail) /\ q[0] < q[i] /\ q[0] = 0 /\ tail[q[i]] = 0 BY <2>1 DEF Ends
  <2>3. QED BY <2>2
<1>2. ASSUME NEW i \in 1 .. m, NEW j \in 1 .. m, q[i] = q[j] PROVE i = j
  <2>1. i \in 0 .. m /\ j \in 0 .. m OBVIOUS
  <2>2. q[i] \in Nat BY <2>1 DEF Ends
  <2>3. ~ (i < j) /\ ~ (j < i) BY <1>2, <2>1, <2>2 DEF Ends
  <2>4. QED BY <2>3
<1>3. ASSUME NEW z \in zeros PROVE \E i \in 1 .. m : q[i] = z
  <2>1. q[m] \in 0 .. Len(tail) BY DEF Ends
  <2>2. z \in 1 .. Len(tail) /\ tail[z] = 0 OBVIOUS
  <2>3. z \in 1 .. q[m] BY <2>1, <2>2 DEF NoneAfter
  <2>4. PICK i \in 1 .. m : z = q[i] BY <2>2, <2>3 DEF Ends
  <2>5. QED BY <2>4
<1> HIDE DEF zeros
<1>4. f \in Bijection(1 .. m, zeros)
  <2>1. f \in [1 .. m -> zeros] BY <1>1
  <2>2. \A i \in 1 .. m : \A j \in 1 .. m : f[i] = f[j] => i = j BY <1>2
  <2>3. \A z \in zeros : \E i \in 1 .. m : f[i] = z BY <1>3
  <2> HIDE DEF f
  <2>4. QED BY <2>1, <2>2, <2>3, Zenon DEF Bijection, Injection, Surjection, IsInjective
<1>5. ExistsBijection(1 .. m, zeros) BY <1>4 DEF ExistsBijection
<1>6. IsFiniteSet(1 .. m) /\ Cardinality(1 .. m) = m
  <2>1. 1 \in Int /\ m \in Int OBVIOUS
  <2>2. IsFiniteSet(1 .. m) /\ Cardinality(1 .. m) = IF 1 > m THEN 0 ELSE (m - 1) + 1
    BY <2>1, FS_Interval
  <2>3. QED BY <2>2
<1>7. Cardinality(zeros) = m BY <1>5, <1>6, FS_Bijection
<1>8. QED BY <1>7 DEF zeros

\* A piece of a sequence.
LEMMA PieceOf ==
  ASSUME NEW tail \in Seq(Nat), NEW a \in Nat, NEW b \in Nat, a <= b, b <= Len(tail)
  PROVE  /\ SubSeq(tail, a + 1, b) \in Seq(Nat) /\ Len(SubSeq(tail, a + 1, b)) = b - a
         /\ \A i \in 1 .. b - a : SubSeq(tail, a + 1, b)[i] = tail[a + i]
<1> DEFINE y == SubSeq(tail, a + 1, b)
<1>1. a + 1 \in Int /\ b \in Int /\ \A i \in a + 1 .. b : tail[i] \in Nat
  <2>1. \A i \in a + 1 .. b : i \in 1 .. Len(tail) OBVIOUS
  <2>2. QED BY <2>1
<1>2. /\ y \in Seq(Nat) /\ Len(y) = IF a + 1 <= b THEN (b - (a + 1)) + 1 ELSE 0
      /\ \A i \in 1 .. (b - (a + 1)) + 1 : y[i] = tail[((a + 1) + i) - 1]
  BY <1>1, SubSeqProperties
<1> HIDE DEF y
<1>3. Len(y) = b - a BY <1>2
<1>4. \A i \in 1 .. b - a : i \in 1 .. (b - (a + 1)) + 1 /\ ((a + 1) + i) - 1 = a + i OBVIOUS
<1>5. \A i \in 1 .. b - a : y[i] = tail[a + i] BY <1>2, <1>4
<1>6. QED BY <1>2, <1>3, <1>5 DEF y

\* Two neighbouring pieces of a sequence make one.
LEMMA PiecesJoin ==
  ASSUME NEW tail \in Seq(Nat), NEW a \in Nat, NEW b \in Nat, a <= b, b <= Len(tail)
  PROVE  SubSeq(tail, 1, a) \o SubSeq(tail, a + 1, b) = SubSeq(tail, 1, b)
<1> DEFINE x == SubSeq(tail, 1, a)
           y == SubSeq(tail, a + 1, b)
           z == SubSeq(tail, 1, b)
           w == x \o y
<1>1. /\ x \in Seq(Nat) /\ Len(x) = a /\ \A i \in 1 .. a : x[i] = tail[i]
      /\ z \in Seq(Nat) /\ Len(z) = b /\ \A i \in 1 .. b : z[i] = tail[i]
  OBVIOUS
<1>2. y \in Seq(Nat) /\ Len(y) = b - a /\ \A i \in 1 .. b - a : y[i] = tail[a + i] BY PieceOf
<1> HIDE DEF x, y, z
<1>3. /\ w \in Seq(Nat) /\ Len(w) = Len(x) + Len(y)
      /\ \A i \in 1 .. Len(x) + Len(y) : w[i] = IF i <= Len(x) THEN x[i] ELSE y[i - Len(x)]
  <2>1. x \in Seq(Nat) /\ y \in Seq(Nat) BY <1>1, <1>2
  <2>2. QED BY <2>1, ConcatProperties
<1> HIDE DEF w
<1>4. Len(x) + Len(y) = b BY <1>1, <1>2
<1>5. ASSUME NEW i \in 1 .. b PROVE w[i] = z[i]
  <2>1. w[i] = IF i <= a THEN x[i] ELSE y[i - a] BY <1>1, <1>3, <1>4
  <2>2. CASE i <= a
    <3>1. i \in 1 .. a BY <2>2
    <3>2. QED BY <1>1, <2>1, <2>2, <3>1
  <2>3. CASE ~ (i <= a)
    <3>1. i - a \in 1 .. b - a /\ a + (i - a) = i BY <2>3
    <3>2. QED BY <1>1, <1>2, <2>1, <2>3, <3>1
  <2>4. QED BY <2>2, <2>3
<1>6. w = z
  <2>1. Len(w) = Len(z) /\ \A i \in 1 .. Len(w) : w[i] = z[i] BY <1>1, <1>3, <1>4, <1>5
  <2>2. QED BY <1>1, <1>3, <2>1, SeqEqual, Zenon
<1>7. QED BY <1>6 DEF w, x, y, z

\* The pieces of a sequence up to each of its zeros make a prefix of it.
LEMMA PiecesArePrefix ==
  ASSUME NEW tail \in Seq(Nat), NEW m \in Nat, NEW q, Ends(tail, q, m)
  PROVE  IsPrefix(FlattenSeq([i \in 1 .. m |-> SubSeq(tail, q[i - 1] + 1, q[i])]), tail)
<1> DEFINE N == Len(tail)
           piece(i) == SubSeq(tail, q[i - 1] + 1, q[i])
           pieces == [i \in 1 .. m |-> piece(i)]
           Body(f, i) == IF i = 1 THEN pieces[i] ELSE f[i - 1] \o pieces[i]
           flatten == CHOOSE f : f = [i \in 1 .. m |-> Body(f, i)]
           h == [i \in 1 .. m |-> SubSeq(tail, 1, q[i])]
<1>1. N \in Nat /\ \A i \in 0 .. m : q[i] \in 0 .. N BY DEF Ends
<1>2. q[0] = 0 /\ \A i \in 1 .. m : i - 1 \in 0 .. m /\ i \in 0 .. m /\ q[i - 1] <= q[i]
  <2>1. q[0] = 0 BY DEF Ends
  <2>2. ASSUME NEW i \in 1 .. m PROVE i - 1 \in 0 .. m /\ i \in 0 .. m /\ q[i - 1] <= q[i]
    <3>1. i - 1 \in 0 .. m /\ i \in 0 .. m /\ i - 1 < i OBVIOUS
    <3>2. q[i - 1] < q[i] BY <3>1 DEF Ends
    <3>3. q[i - 1] \in Nat /\ q[i] \in Nat BY <1>1, <3>1
    <3>4. QED BY <3>1, <3>2, <3>3
  <2>3. QED BY <2>1, <2>2
<1>3. \A i \in 1 .. m : SubSeq(tail, 1, q[i - 1]) \o piece(i) = SubSeq(tail, 1, q[i])
  <2> SUFFICES ASSUME NEW i \in 1 .. m
               PROVE  SubSeq(tail, 1, q[i - 1]) \o piece(i) = SubSeq(tail, 1, q[i])
    OBVIOUS
  <2>1. q[i - 1] \in Nat /\ q[i] \in Nat /\ q[i - 1] <= q[i] /\ q[i] <= Len(tail) BY <1>1, <1>2
  <2>2. QED BY <2>1, PiecesJoin
<1>4. \A i \in 1 .. m : pieces[i] = piece(i) OBVIOUS
<1>5. Len(pieces) = m OBVIOUS
<1>6. m > 0 => piece(1) = SubSeq(tail, 1, q[1])
  <2>1. 1 - 1 = 0 /\ 0 + 1 = 1 OBVIOUS
  <2>2. q[1 - 1] + 1 = 1 BY <1>2, <2>1
  <2>3. QED BY <2>2
<1> HIDE DEF piece, pieces
<1>7. FlattenSeq(pieces) = IF m = 0 THEN pieces ELSE flatten[m]
  <2>1. FlattenSeq(pieces) =
          IF Len(pieces) = 0 THEN pieces
          ELSE (CHOOSE f : f = [i \in 1 .. Len(pieces) |-> Body(f, i)])[Len(pieces)]
    BY Zenon DEF FlattenSeq
  <2> HIDE DEF Body
  <2>2. QED BY <1>5, <2>1<1>8. \A i \in 1 .. m : h[i] = Body(h, i)
  <2> SUFFICES ASSUME NEW i \in 1 .. m PROVE h[i] = Body(h, i) OBVIOUS
  <2>1. h[i] = SubSeq(tail, 1, q[i]) OBVIOUS
  <2>2. CASE i = 1 BY <1>4, <1>6, <2>1, <2>2
  <2>3. CASE i # 1
    <3>1. i - 1 \in 1 .. m BY <2>3
    <3>2. h[i - 1] = SubSeq(tail, 1, q[i - 1]) BY <3>1
    <3> HIDE DEF h
    <3>3. QED BY <1>3, <1>4, <2>1, <2>3, <3>2
  <2>4. QED BY <2>2, <2>3
<1>9. flatten = [i \in 1 .. m |-> Body(flatten, i)]
  <2> HIDE DEF Body
  <2>1. h = [i \in 1 .. m |-> h[i]] OBVIOUS
  <2>2. h = [i \in 1 .. m |-> Body(h, i)]
    <3> HIDE DEF h
    <3>1. QED BY <1>8, <2>1
  <2> HIDE DEF h
  <2>3. QED BY <2>2, Zenon
<1> HIDE DEF flatten
<1>10. ASSUME m > 0 PROVE flatten[m] = SubSeq(tail, 1, q[m])
  <2> DEFINE T == {k \in 0 .. m - 1 : flatten[k + 1] = SubSeq(tail, 1, q[k + 1])}
  <2>1. 0 \in T
    <3>1. 1 \in 1 .. m /\ 0 \in 0 .. m - 1 /\ 0 + 1 = 1 BY <1>10
    <3>2. flatten[1] = Body(flatten, 1) BY <1>9, <3>1
    <3>3. flatten[1] = SubSeq(tail, 1, q[1]) BY <1>4, <1>6, <1>10, <3>1, <3>2
    <3>4. QED BY <3>1, <3>3
  <2>2. ASSUME NEW k \in 1 .. m - 1, k - 1 \in T PROVE k \in T
    <3> DEFINE j == k + 1
    <3>1. j \in 1 .. m /\ j # 1 /\ j - 1 = (k - 1) + 1 /\ k \in 0 .. m - 1 OBVIOUS
    <3>2. flatten[j - 1] = SubSeq(tail, 1, q[j - 1]) BY <2>2, <3>1
    <3> HIDE DEF j
    <3>3. flatten[j] = flatten[j - 1] \o pieces[j] BY <1>9, <3>1
    <3>4. flatten[j] = SubSeq(tail, 1, q[j]) BY <1>3, <1>4, <3>1, <3>2, <3>3
    <3>5. QED BY <3>1, <3>4 DEF j
  <2>3. m - 1 \in Nat /\ m - 1 \in 0 .. m - 1 /\ (m - 1) + 1 = m BY <1>10
  <2>4. m - 1 \in T
    <3> HIDE DEF T
    <3>1. \A k \in 0 .. m - 1 : k \in T BY <2>1, <2>2, <2>3, UpTo
    <3>2. QED BY <2>3, <3>1
  <2>5. QED BY <2>3, <2>4
<1>11. \A a \in 0 .. N : IsPrefix(SubSeq(tail, 1, a), tail)
  <2> SUFFICES ASSUME NEW a \in 0 .. N PROVE IsPrefix(SubSeq(tail, 1, a), tail) OBVIOUS
  <2> DEFINE x == SubSeq(tail, 1, a)
  <2>1. Len(x) = a /\ x \in Seq(Nat) OBVIOUS
  <2> HIDE DEF x
  <2>2. SubSeq(x, 1, Len(x)) = x BY <2>1
  <2>3. QED BY <1>1, <2>1, <2>2 DEF IsPrefix, x
<1>12. IsPrefix(FlattenSeq(pieces), tail)
  <2>1. CASE m = 0
    <3>1. pieces = SubSeq(tail, 1, 0)
      <4>1. pieces = <<>> BY <2>1 DEF pieces
      <4>2. SubSeq(tail, 1, 0) = <<>> OBVIOUS
      <4>3. QED BY <4>1, <4>2
    <3>2. 0 \in 0 .. N BY <1>1
    <3>3. QED BY <1>7, <1>11, <2>1, <3>1, <3>2
  <2>2. CASE m # 0
    <3>1. q[m] \in 0 .. N /\ m > 0 BY <1>1, <2>2
    <3>2. FlattenSeq(pieces) = SubSeq(tail, 1, q[m]) BY <1>7, <1>10, <2>2, <3>1
    <3>3. QED BY <1>11, <3>1, <3>2
  <2>3. QED BY <2>1, <2>2
<1>13. QED BY <1>12 DEF pieces, piece

\* A piece of a piece of memory.
IsInside(m, p, n, x, k) == Peek(m, p + x, k) = SubSeq(Peek(m, p, n), x + 1, x + k)
LEMMA PeekInside ==
  ASSUME NEW m, m.at \in Nat, m.bytes \in Seq(Byte), NEW p \in Nat, NEW n \in Nat, NEW x \in 0 .. n,
         NEW k \in 0 .. n - x
  PROVE  IsInside(m, p, n, x, k)
<1> DEFINE whole == Peek(m, p, n)
           piece == SubSeq(whole, x + 1, x + k)
           at(y) == IF y - m.at \in DOMAIN m.bytes THEN m.bytes[y - m.at] ELSE 0
           small == Peek(m, p + x, k)
<1>1. whole \in Seq(Nat) /\ Len(whole) = n BY PeekType
<1>2. small \in Seq(Nat) /\ Len(small) = k BY PeekType
<1>3. \A i \in 1 .. n : whole[i] = at(p + i)
  <2>1. \A i \in 1 .. n : (p - m.at) + i = (p + i) - m.at OBVIOUS
  <2>2. QED BY <2>1 DEF Peek
<1>4. \A i \in 1 .. k : small[i] = at((p + x) + i)
  <2>1. \A i \in 1 .. k : ((p + x) - m.at) + i = ((p + x) + i) - m.at OBVIOUS
  <2>2. QED BY <2>1 DEF Peek
<1>5. /\ piece \in Seq(Nat) /\ Len(piece) = k
      /\ \A i \in 1 .. k : piece[i] = whole[x + i]
  <2> DEFINE b == x + k
  <2>1. x \in Nat /\ b \in Nat /\ x <= b /\ b <= n /\ b - x = k OBVIOUS
  <2> HIDE DEF whole, b
  <2>2. /\ SubSeq(whole, x + 1, b) \in Seq(Nat) /\ Len(SubSeq(whole, x + 1, b)) = k
        /\ \A i \in 1 .. k : SubSeq(whole, x + 1, b)[i] = whole[x + i]
    BY <1>1, <2>1, PieceOf
  <2>3. QED BY <2>2 DEF b
<1> HIDE DEF whole, small, at
<1>6. ASSUME NEW i \in 1 .. k PROVE piece[i] = small[i]
  <2>1. x + i \in 1 .. n /\ (p + x) + i = p + (x + i) OBVIOUS
  <2>2. piece[i] = whole[x + i] BY <1>5
  <2>3. QED BY <1>3, <1>4, <2>1, <2>2
<1> HIDE DEF piece
<1>7. piece = small
  <2>1. Len(piece) = Len(small) /\ \A i \in 1 .. Len(piece) : piece[i] = small[i]
    BY <1>2, <1>5, <1>6
  <2>2. QED BY <1>2, <1>5, <2>1, SeqEqual, Zenon
<1>8. QED BY <1>7 DEF IsInside, piece, whole, small

\* How long a string in a piece of memory is, up to the zero at a place or to the end.
Measures(length, tail, n, x) ==
  /\ NoneAfter(tail, x) => length = n - x
  /\ \A y \in x + 1 .. n :
       tail[y] = 0 /\ (\A z \in x + 1 .. y - 1 : tail[z] # 0) => length = (y - x) - 1

LEMMA LengthInside ==
  ASSUME NEW m, m.at \in Nat, m.bytes \in Seq(Byte), NEW p \in Nat, NEW n \in Nat, NEW x \in 0 .. n
  PROVE  Measures(strnlen(m, p + x, n - x), Peek(m, p, n), n, x)
<1> DEFINE tail == Peek(m, p, n)
           bytes == Peek(m, p + x, n - x)
           length == strnlen(m, p + x, n - x)
<1>1. n - x \in Nat /\ x + (n - x) = n /\ n - x \in 0 .. n - x OBVIOUS
<1>2. tail \in Seq(Nat) /\ Len(tail) = n /\ bytes \in Seq(Nat) /\ Len(bytes) = n - x
  BY <1>1, PeekType
<1>3. bytes = SubSeq(tail, x + 1, n)
  <2> DEFINE k == n - x
             b == x + k
  <2>1. k \in 0 .. n - x /\ b = n BY <1>1
  <2> HIDE DEF k
  <2>2. IsInside(m, p, n, x, k) BY <2>1, PeekInside
  <2>3. x + k = n BY <2>1
  <2>4. QED BY <2>2, <2>3 DEF IsInside, k
<1>4. length = Len(BeforeZero(bytes)) BY DEF strnlen
<1> HIDE DEF tail, bytes, length
<1>5. /\ length \in 0 .. n - x /\ \A i \in 1 .. length : bytes[i] # 0
      /\ length < n - x => bytes[length + 1] = 0
  BY <1>2, <1>4, UpToZero
<1>6. \A i \in 1 .. n - x : bytes[i] = tail[x + i]
  <2>1. x \in Nat /\ x <= n OBVIOUS
  <2>2. QED BY <1>2, <1>3, <2>1, PieceOf
<1>7. ASSUME NoneAfter(tail, x) PROVE length = n - x
  <2>1. SUFFICES ASSUME length # n - x PROVE FALSE OBVIOUS
  <2>2. length < n - x /\ length + 1 \in 1 .. n - x BY <1>1, <1>5, <2>1
  <2>3. tail[x + (length + 1)] = 0 BY <1>5, <1>6, <2>2
  <2>4. x + (length + 1) \in x + 1 .. n BY <1>5, <2>2
  <2>5. QED BY <1>2, <1>7, <2>3, <2>4 DEF NoneAfter
<1>8. ASSUME NEW y \in x + 1 .. n, tail[y] = 0, \A z \in x + 1 .. y - 1 : tail[z] # 0
      PROVE  length = (y - x) - 1
  <2> DEFINE k == y - x
  <2>1. k \in 1 .. n - x /\ x + k = y OBVIOUS
  <2>2. bytes[k] = 0 BY <1>6, <1>8, <2>1
  <2> HIDE DEF k
  <2>3. ~ (k <= length)
    <3>1. k <= length => k \in 1 .. length BY <1>5, <2>1
    <3>2. QED BY <1>5, <2>2, <3>1
  <2>4. ~ (length + 1 < k)
    <3>1. SUFFICES ASSUME length + 1 < k PROVE FALSE OBVIOUS
    <3>2. length < n - x /\ length + 1 \in 1 .. n - x BY <1>1, <1>5, <2>1, <3>1
    <3>3. tail[x + (length + 1)] = 0 BY <1>5, <1>6, <3>2
    <3>4. x + (length + 1) \in x + 1 .. y - 1 BY <1>5, <2>1, <3>1
    <3>5. QED BY <1>8, <3>3, <3>4
  <2>5. length = k - 1 BY <1>5, <2>1, <2>3, <2>4
  <2>6. QED BY <2>5 DEF k
<1>9. QED BY <1>7, <1>8 DEF Measures, tail, length

\* The bytes behind the fields of a linker option.
Behind ==
  IF FileSize(lc) >= Sizeof(struct_linker_option_command)
  THEN FileSize(lc) - Sizeof(struct_linker_option_command) ELSE 0
OptionBytes == Peek(mem, lc + Sizeof(struct_linker_option_command), Behind)

OptionAt(x) == lc + Sizeof(struct_linker_option_command) + x
OptionLength(at) == strnlen(mem, at, (lc + FileSize(lc)) - at)

\* An option that begins behind a zero of those bytes, or at their start, ends with the next one,
\* if there is one, and is not terminated otherwise.
LEMMA OptionEnds ==
  ASSUME file \in Files, lc \in Nat, FileSize(lc) \in Nat,
         Sizeof(struct_linker_option_command) \in Nat,
         NEW q, NEW m \in Nat, Ends(OptionBytes, q, m), NEW i \in 0 .. m
  PROVE  LET at == OptionAt(q[i])
             end == lc + FileSize(lc)
         IN  /\ at \in Nat /\ at >= lc
             /\ i < m =>
                  /\ at < end /\ OptionLength(at) # end - at
                  /\ OptionLength(at) = (q[i + 1] - q[i]) - 1
                  /\ at + OptionLength(at) + 1 = OptionAt(q[i + 1])
                  /\ OptionLength(at) \in Nat /\ OptionLength(at) < FileSize(lc)
                  /\ Peek(mem, at, OptionLength(at)) \o <<0>> = SubSeq(OptionBytes, q[i] + 1, q[i + 1])
             /\ i = m /\ NoneAfter(OptionBytes, q[m]) => ~ (at < end) \/ OptionLength(at) = end - at
<1> DEFINE base == Sizeof(struct_linker_option_command)
           size == FileSize(lc)
           p == lc + base
           n == Behind
           tail == OptionBytes
           x == q[i]
           at == OptionAt(x)
           end == lc + size
           length == OptionLength(at)
           y == q[i + 1]
<1>1. mem.bytes \in Seq(Byte) /\ mem.at \in Nat
  BY ImageAssumption, WordAssumption DEF mem, Word
<1>2. tail = Peek(mem, p, n) BY DEF OptionBytes
<1>3. size \in Nat /\ base \in Nat /\ p \in Nat /\ end \in Nat OBVIOUS
<1>4. n = IF size >= base THEN size - base ELSE 0 BY DEF Behind
<1> HIDE DEF base, size, n, tail
<1>5. n \in Nat /\ (n > 0 => p + n = end) /\ (n = 0 => p >= end) /\ n <= size BY <1>3, <1>4
<1>6. tail \in Seq(Nat) /\ Len(tail) = n BY <1>1, <1>2, <1>5, PeekType
<1>7. /\ x \in 0 .. n
      /\ i < m => /\ y \in 0 .. n /\ x < y /\ tail[y] = 0
                  /\ \A z \in x + 1 .. y - 1 : tail[z] # 0
  <2>1. \A j \in 0 .. m : q[j] \in 0 .. n BY <1>6 DEF Ends, tail
  <2>2. ASSUME i < m
        PROVE  y \in 0 .. n /\ x < y /\ tail[y] = 0 /\ \A z \in x + 1 .. y - 1 : tail[z] # 0
    <3>1. i + 1 \in 1 .. m /\ i + 1 \in 0 .. m /\ i < i + 1 /\ m \in 0 .. m BY <2>2
    <3>2. y \in 0 .. n /\ x < y /\ tail[y] = 0 /\ x \in 0 .. n BY <2>1, <3>1 DEF Ends, tail
    <3>3. y <= q[m]
      <4>1. i + 1 = m \/ i + 1 < m BY <3>1
      <4>2. i + 1 < m => y < q[m] BY <3>1 DEF Ends
      <4>3. q[m] \in Nat BY <1>5, <2>1, <3>1
      <4>4. QED BY <3>2, <4>1, <4>2, <4>3
    <3>4. ASSUME NEW z \in x + 1 .. y - 1, tail[z] = 0 PROVE FALSE
      <4>1. q[m] \in Nat /\ z \in 1 .. q[m] BY <1>5, <2>1, <3>1, <3>2, <3>3
      <4>2. PICK j \in 1 .. m : z = q[j] BY <3>4, <4>1 DEF Ends, tail
      <4>3. j \in 0 .. m OBVIOUS
      <4>4. j < i => q[j] < x BY <4>3 DEF Ends
      <4>5. i + 1 < j => y < q[j] BY <3>1, <4>3 DEF Ends
      <4>6. j < i \/ j = i \/ j = i + 1 \/ i + 1 < j OBVIOUS
      <4>7. j = i => q[j] = x OBVIOUS
      <4>8. j = i + 1 => q[j] = y OBVIOUS
      <4> HIDE DEF x, y
      <4>9. QED BY <3>2, <4>2, <4>4, <4>5, <4>6, <4>7, <4>8
    <3>5. QED BY <3>2, <3>4
  <2>3. QED BY <2>1, <2>2
<1> HIDE DEF x, y
<1>8. at = p + x /\ at \in Nat /\ at >= lc
  <2>1. at = p + x BY DEF OptionAt, base
  <2> HIDE DEF at
  <2>2. QED BY <1>3, <1>5, <1>7, <2>1
<1>9. ASSUME x < n PROVE at < end /\ end - at = n - x BY <1>3, <1>5, <1>7, <1>8, <1>9
<1> HIDE DEF at, end, p
<1>10. x < n => length = strnlen(mem, p + x, n - x) BY <1>8, <1>9 DEF OptionLength, end, size
<1> DEFINE l == strnlen(mem, p + x, n - x)
<1>11. Measures(l, tail, n, x) BY <1>1, <1>2, <1>3, <1>5, <1>7, LengthInside
<1> HIDE DEF l, length
<1>12. ASSUME i < m
       PROVE  /\ at < end /\ length # end - at /\ length = (y - x) - 1
              /\ at + length + 1 = OptionAt(y) /\ length \in Nat /\ length < size
              /\ Peek(mem, at, length) \o <<0>> = SubSeq(tail, x + 1, y)
  <2>1. x < n /\ y \in x + 1 .. n BY <1>5, <1>7, <1>12
  <2>2. length = (y - x) - 1 BY <1>7, <1>10, <1>11, <1>12, <2>1 DEF Measures, l
  <2>3. at < end /\ end - at = n - x BY <1>9, <2>1
  <2>4. length \in Nat /\ length < n - x /\ length < size BY <1>3, <1>5, <1>7, <2>1, <2>2
  <2>5. OptionAt(y) = p + y BY DEF OptionAt, p, base
  <2>6. at + length + 1 = OptionAt(y) BY <1>3, <1>7, <1>8, <1>12, <2>2, <2>5
  <2>7. Peek(mem, at, length) \o <<0>> = SubSeq(tail, x + 1, y)
    <3> DEFINE piece == Peek(mem, at, length)
               whole == SubSeq(tail, x + 1, y)
               joined == piece \o <<0>>
    <3>1. length \in 0 .. n - x BY <1>5, <1>7, <2>4
    <3>2. IsInside(mem, p, n, x, length) BY <1>1, <1>3, <1>5, <1>7, <3>1, PeekInside
    <3>3. x + length = y - 1 BY <1>7, <1>12, <2>2
    <3>4. piece = SubSeq(tail, x + 1, y - 1) BY <1>2, <1>8, <3>2, <3>3 DEF IsInside
    <3>5. /\ x \in Nat /\ y \in Nat /\ y - 1 \in Nat /\ x <= y - 1 /\ y - 1 <= n /\ x <= y /\ y <= n
          /\ (y - 1) - x = length /\ y - x = length + 1
      BY <1>5, <1>7, <1>12, <2>2
    <3> DEFINE v == y - 1
               k == length + 1
    <3>6. v \in Nat /\ x <= v /\ v <= n /\ v - x = length /\ v + 1 = y /\ y - x = k BY <3>5
    <3> HIDE DEF v, k
    <3>7. SubSeq(tail, x + 1, v) \in Seq(Nat) /\ Len(SubSeq(tail, x + 1, v)) = length
          /\ \A j \in 1 .. length : SubSeq(tail, x + 1, v)[j] = tail[x + j]
      <4>1. x \in Nat /\ v \in Nat /\ x <= v /\ v <= n BY <3>5, <3>6
      <4>2. v - x = length BY <3>6
      <4>3. /\ SubSeq(tail, x + 1, v) \in Seq(Nat) /\ Len(SubSeq(tail, x + 1, v)) = v - x
            /\ \A j \in 1 .. v - x : SubSeq(tail, x + 1, v)[j] = tail[x + j]
        BY <1>6, <4>1, PieceOf
      <4>4. QED BY <4>2, <4>3
    <3>8. whole \in Seq(Nat) /\ Len(whole) = k /\ \A j \in 1 .. k : whole[j] = tail[x + j]
      <4>1. /\ SubSeq(tail, x + 1, y) \in Seq(Nat) /\ Len(SubSeq(tail, x + 1, y)) = y - x
            /\ \A j \in 1 .. y - x : SubSeq(tail, x + 1, y)[j] = tail[x + j]
        BY <1>6, <3>5, PieceOf
      <4>2. y - x = k BY <3>6
      <4>3. QED BY <4>1, <4>2
    <3>9. piece \in Seq(Nat) /\ Len(piece) = length /\ \A j \in 1 .. length : piece[j] = tail[x + j]
      <4>1. piece = SubSeq(tail, x + 1, v) BY <3>4 DEF v
      <4> HIDE DEF piece
      <4>2. QED BY <3>7, <4>1
    <3> HIDE DEF piece, whole
    <3>10. /\ joined \in Seq(Nat) /\ Len(joined) = Len(piece) + Len(<<0>>)
           /\ \A j \in 1 .. Len(piece) + Len(<<0>>) :
                joined[j] = IF j <= Len(piece) THEN piece[j] ELSE <<0>>[j - Len(piece)]
      <4>1. piece \in Seq(Nat) BY <3>9
      <4>2. <<0>> \in Seq(Nat) OBVIOUS
      <4>3. QED BY <4>1, <4>2, ConcatProperties
    <3> HIDE DEF joined
    <3>11. Len(<<0>>) = 1 /\ <<0>>[1] = 0 OBVIOUS
    <3>12. Len(piece) + Len(<<0>>) = k BY <2>4, <3>9, <3>11 DEF k
    <3>13. k \in Nat /\ k = length + 1 BY <2>4 DEF k
    <3>14. ASSUME NEW j \in 1 .. k PROVE joined[j] = whole[j]
      <4>1. joined[j] = IF j <= length THEN piece[j] ELSE <<0>>[j - length]
        BY <3>9, <3>10, <3>12
      <4>2. CASE j <= length
        <5>1. j \in 1 .. length BY <4>2, <3>13
        <5>2. QED BY <3>8, <3>9, <4>1, <4>2, <5>1
      <4>3. CASE ~ (j <= length)
        <5>1. j = k /\ j - length = 1 /\ x + j = y BY <2>4, <3>5, <3>6, <3>13, <4>3
        <5>2. joined[j] = 0 BY <3>11, <4>1, <4>3, <5>1
        <5>3. whole[j] = tail[y] BY <3>8, <5>1
        <5>4. QED BY <1>7, <1>12, <5>2, <5>3
      <4>4. QED BY <4>2, <4>3
    <3>15. joined = whole
      <4>1. Len(joined) = Len(whole) /\ \A j \in 1 .. Len(joined) : joined[j] = whole[j]
        BY <3>8, <3>10, <3>12, <3>14
      <4>2. QED BY <3>8, <3>10, <4>1, SeqEqual, Zenon
    <3>16. QED BY <3>15 DEF joined, piece, whole
  <2>8. length # end - at BY <1>5, <1>7, <2>3, <2>4
  <2>9. QED BY <2>2, <2>3, <2>4, <2>6, <2>7, <2>8
<1>13. ASSUME i = m, NoneAfter(tail, q[m]) PROVE ~ (at < end) \/ length = end - at
  <2>1. NoneAfter(tail, x) BY <1>13 DEF x
  <2>2. CASE x < n BY <1>9, <1>10, <1>11, <2>1, <2>2 DEF Measures, l
  <2>3. CASE ~ (x < n)
    <3>1. x = n BY <1>5, <1>7, <2>3
    <3>2. end <= p + n BY <1>3, <1>5 DEF p, end
    <3>3. QED BY <1>3, <1>5, <1>8, <3>1, <3>2 DEF p, end
  <2>4. QED BY <2>2, <2>3
<1>14. QED BY <1>8, <1>12, <1>13 DEF at, end, size, length, x, y, tail

\* The options that are found are those that end.
LEMMA OptionFound ==
  ASSUME file \in Files, lc \in Nat, lc # NULL, FileSize(lc) \in Nat,
         Sizeof(struct_linker_option_command) \in Nat,
         NEW command, command.mach_load_command = lc,
         Raw(mem, lc, struct_load_command, "cmdsize") = FileSize(lc),
         mk_load_command_linker_option.layout = struct_linker_option_command,
         NEW count \in Nat, count # UINT_MAX(4),
         getter(mem, command, mk_load_command_linker_option, "count") = count,
         NEW m \in 0 .. count, NEW q, Ends(OptionBytes, q, m),
         m = count \/ NoneAfter(OptionBytes, q[m]),
         NEW index \in 0 .. count - 1
  PROVE  mk_load_command_linker_option_get_string(mem, command, index) =
           IF index < m THEN OptionAt(q[index]) ELSE NULL
<1> DEFINE start == command.mach_load_command
           end == start + Raw(mem, start, struct_load_command, "cmdsize")
           Length(at) == strnlen(mem, at, end - at)
           Previous(f, i) == IF i = 0 THEN start ELSE f[i - 1]
           Place(f, i) ==
             IF i = 0 THEN start + Sizeof(mk_load_command_linker_option.layout)
             ELSE Previous(f, i) + Length(Previous(f, i)) + 1
           Body(f, i) ==
             IF \/ Previous(f, i) = NULL \/ Place(f, i) >= end
                \/ Length(Place(f, i)) = end - Place(f, i)
             THEN NULL ELSE Place(f, i)
           option == CHOOSE f : f = [i \in 0 .. index |-> Body(f, i)]
           g == [i \in 0 .. index |-> IF i < m THEN OptionAt(q[i]) ELSE NULL]
<1>1. mk_load_command_linker_option_get_string(mem, command, index) =
        IF count = UINT_MAX(4) \/ index >= count THEN NULL ELSE option[index]
  <2> DEFINE strings == getter(mem, command, mk_load_command_linker_option, "count")
  <2>1. mk_load_command_linker_option_get_string(mem, command, index) =
          IF strings = UINT_MAX(4) \/ index >= strings THEN NULL ELSE option[index]
    BY Zenon DEF mk_load_command_linker_option_get_string
  <2> HIDE DEF option
  <2>2. QED BY <2>1
<1>2. m \in Nat /\ index \in Nat /\ index < count /\ index \in 0 .. index OBVIOUS
<1>3. NULL = 0 BY DEF NULL
<1>4. end = lc + FileSize(lc) /\ \A at : Length(at) = OptionLength(at) BY DEF OptionLength
<1>5. start = lc /\ start # NULL OBVIOUS
<1>6. \A i \in 0 .. m :
        LET at == OptionAt(q[i])
        IN  /\ at \in Nat /\ at >= lc
            /\ i < m => /\ at < end /\ Length(at) # end - at
                        /\ at + Length(at) + 1 = OptionAt(q[i + 1])
            /\ i = m /\ NoneAfter(OptionBytes, q[m]) => ~ (at < end) \/ Length(at) = end - at
  <2> SUFFICES ASSUME NEW i \in 0 .. m
               PROVE  LET at == OptionAt(q[i])
                      IN  /\ at \in Nat /\ at >= lc
                          /\ i < m => /\ at < end /\ Length(at) # end - at
                                      /\ at + Length(at) + 1 = OptionAt(q[i + 1])
                          /\ i = m /\ NoneAfter(OptionBytes, q[m]) =>
                               ~ (at < end) \/ Length(at) = end - at
    OBVIOUS
  <2> HIDE DEF Length, end
  <2>1. QED BY <1>2, <1>4, OptionEnds
<1>7. end \in Nat BY <1>4
<1>8. start + Sizeof(mk_load_command_linker_option.layout) = OptionAt(q[0])
  <2>1. q[0] = 0 BY DEF Ends
  <2>2. QED BY <1>5, <2>1 DEF OptionAt
<1> HIDE DEF start, end, Length
<1>9. ASSUME NEW i \in 0 .. index, NEW f, i = 0 \/ f[i - 1] = g[i - 1]
      PROVE  Body(f, i) = g[i]
  <2>1. g[i] = IF i < m THEN OptionAt(q[i]) ELSE NULL OBVIOUS
  <2>2. i # 0 => i - 1 \in 0 .. index
                 /\ g[i - 1] = IF i - 1 < m THEN OptionAt(q[i - 1]) ELSE NULL
    OBVIOUS
  <2>3. ASSUME i <= m, Previous(f, i) # NULL, Place(f, i) = OptionAt(q[i]) PROVE Body(f, i) = g[i]
    <3> DEFINE at == OptionAt(q[i])
    <3>1. i \in 0 .. m BY <2>3
    <3>2. /\ at \in Nat /\ (i < m => at < end /\ Length(at) # end - at)
          /\ i = m /\ NoneAfter(OptionBytes, q[m]) => ~ (at < end) \/ Length(at) = end - at
      BY <1>6, <3>1
    <3>3. CASE i < m
      <4>1. ~ (at >= end) /\ Length(at) # end - at BY <1>7, <3>2, <3>3
      <4> HIDE DEF Previous, Place, g, at
      <4>2. QED BY <2>1, <2>3, <3>3, <4>1 DEF at
    <3>4. CASE ~ (i < m)
      <4>1. i = m /\ m # count BY <1>2, <2>3, <3>4
      <4>2. at >= end \/ Length(at) = end - at BY <1>7, <3>2, <4>1
      <4> HIDE DEF Previous, Place, g, at
      <4>3. QED BY <2>1, <2>3, <3>4, <4>2 DEF at
    <3>5. QED BY <3>3, <3>4
  <2>4. CASE i = 0
    <3>1. Previous(f, i) = start /\ Place(f, i) = OptionAt(q[i]) BY <1>8, <2>4
    <3>2. i <= m BY <2>4, <1>2
    <3> HIDE DEF Previous, Place, Body, g
    <3>3. QED BY <1>5, <2>3, <3>1, <3>2
  <2>5. CASE i # 0 /\ i - 1 < m
    <3>1. i - 1 \in 0 .. m /\ i <= m /\ (i - 1) + 1 = i BY <2>5
    <3>2. Previous(f, i) = OptionAt(q[i - 1]) BY <1>9, <2>2, <2>5
    <3>3. OptionAt(q[i - 1]) \in Nat /\ OptionAt(q[i - 1]) >= lc
          /\ OptionAt(q[i - 1]) + Length(OptionAt(q[i - 1])) + 1 = OptionAt(q[i])
      BY <1>6, <2>5, <3>1
    <3>4. OptionAt(q[i - 1]) # NULL BY <1>3, <3>3
    <3>5. Place(f, i) = Previous(f, i) + Length(Previous(f, i)) + 1 BY <2>5
    <3> HIDE DEF Previous, Place, Body, g
    <3>6. Place(f, i) = OptionAt(q[i]) BY <3>2, <3>3, <3>5
    <3>7. QED BY <2>3, <3>1, <3>2, <3>4, <3>6
  <2>6. CASE i # 0 /\ ~ (i - 1 < m)
    <3>1. Previous(f, i) = NULL /\ ~ (i < m) BY <1>2, <1>9, <2>2, <2>6
    <3> HIDE DEF Previous, Place, g
    <3>2. QED BY <2>1, <3>1
  <2>7. QED BY <2>4, <2>5, <2>6
<1> HIDE DEF Body
<1>10. option = [i \in 0 .. index |-> Body(option, i)]
  <2>1. \A i \in 0 .. index : g[i] = Body(g, i)
    <3> HIDE DEF g
    <3>1. QED BY <1>9
  <2>2. g = [i \in 0 .. index |-> g[i]] OBVIOUS
  <2> HIDE DEF g
  <2>3. g = [i \in 0 .. index |-> Body(g, i)] BY <2>1, <2>2
  <2>4. QED BY <2>3, Zenon
<1> HIDE DEF option, g
<1>11. option[index] = g[index]
  <2> DEFINE T == {i \in 0 .. index : option[i] = g[i]}
  <2>1. 0 \in T
    <3>1. 0 \in 0 .. index BY <1>2
    <3>2. QED BY <1>9, <1>10, <3>1
  <2>2. ASSUME NEW i \in 1 .. index, i - 1 \in T PROVE i \in T
    <3>1. i \in 0 .. index OBVIOUS
    <3>2. option[i - 1] = g[i - 1] BY <2>2
    <3>3. QED BY <1>9, <1>10, <3>1, <3>2
  <2>3. \A i \in 0 .. index : i \in T
    <3> HIDE DEF T
    <3>1. QED BY <1>2, <2>1, <2>2, UpTo
  <2>4. QED BY <1>2, <2>3
<1>12. QED BY <1>1, <1>2, <1>11 DEF g

\* The options of a linker option are read as the file has them.
LEMMA OptionsRead ==
  ASSUME ImageInv, Typed, NEW command \in WholeCommands
  PROVE  OptionStrings(command)
<1> DEFINE base == Sizeof(struct_linker_option_command)
           size == FileSize(lc)
           class == mk_load_command_linker_option
           count == FileField(lc, struct_linker_option_command, "count")
           tail == Peek(mem, lc + base, size - base)
           string(i) == mk_load_command_linker_option_get_string(mem, command, i)
           copy(i) == mk_load_command_linker_option_copy_string(mem, command, i, size)
           found == {i \in 0 .. count : string(i) # NULL}
<1> SUFFICES ASSUME IsA(command, class), cpu = "little", count # UINT_MAX(4)
             PROVE  /\ found \subseteq 0 .. count - 1
                    /\ \A i \in found : \A j \in 0 .. i : j \in found
                    /\ IsPrefix(FlattenSeq([i \in 1 .. Cardinality(found) |-> copy(i - 1).output]), tail)
                    /\ \/ Cardinality(found) = count
                       \/ Cardinality({i \in 1 .. Len(tail) : tail[i] = 0}) = Cardinality(found)
  BY Zenon DEF OptionStrings
<1>1. /\ file \in Files /\ cpu \in Cpus /\ command.mach_load_command = lc /\ lc \in Nat /\ lc # NULL
      /\ size \in Nat /\ cmdsize(mem, lc) = size
  BY WholeCommand
<1>2. class.layout = struct_linker_option_command /\ "count" \in DOMAIN class.reads
  <2> DEFINE R == {"count"}
             layout == struct_linker_option_command
  <2>1. "count" \in R OBVIOUS
  <2> HIDE DEF layout
  <2>2. class = [Class("LINKER_OPTION", layout, Nothing, swap32(R)) EXCEPT !.refuses = "none"]
    BY DEF mk_load_command_linker_option, layout
  <2> HIDE DEF class, R
  <2>3. Vtable(class, layout, Nothing, swap32(R), {}, "", "none") BY <2>2, ClassVtable
  <2>4. class.layout = layout /\ class.reads = swap32(R) BY <2>3, Zenon DEF Vtable
  <2>5. DOMAIN class.reads = R BY <2>4, SwapWidths
  <2>6. QED BY <2>1, <2>4, <2>5, Zenon DEF layout, class
<1>3. Faithful(class) BY LinkerOptionFaithful
<1>4. base \in Nat
  <2>1. PICK words, quads, others : Describes(class, words, quads, others) BY <1>3 DEF Faithful
  <2>2. QED BY <1>2, <2>1, DescribedSize
<1>5. count \in Nat /\ getter(mem, command, class, "count") = count
  <2>1. HasField(class.layout, "count") /\ Wide(class.layout, "count", class.reads["count"])
        /\ class.reads["count"] \in {4, 8}
    BY <1>2, <1>3, FaithfulField
  <2>2. \A w \in {4, 8} : w \in 0 .. 8 OBVIOUS
  <2>3. Read(mem, lc, class.layout, "count", class.reads["count"]) = count
        /\ count \in 0 .. UINT_MAX(class.reads["count"])
    BY <1>1, <1>2, <2>1, <2>2, ReadIsFile
  <2>4. \A k, w : k \in 0 .. w => k \in Nat OBVIOUS
  <2> HIDE DEF count
  <2>5. QED BY <1>1, <2>3, <2>4 DEF getter
<1>6. Raw(mem, lc, struct_load_command, "cmdsize") = size
  BY DEF Raw, Load, mem, FileSize, FileField, FileWord
<1>7. tail = OptionBytes /\ Behind \in Nat /\ OptionBytes \in Seq(Nat)
  <2>1. Behind \in Nat BY <1>1, <1>4 DEF Behind
  <2>2. 1 .. size - base = 1 .. Behind BY <1>1, <1>4 DEF Behind
  <2>3. tail = OptionBytes BY <2>2 DEF OptionBytes, Peek
  <2>4. mem.bytes \in Seq(Byte) BY <1>1, ImageAssumption DEF mem
  <2>5. QED BY <2>1, <2>3, <2>4, PeekType DEF OptionBytes
<1> HIDE DEF base, size, class, count, tail, string, copy
<1>8. PICK m \in 0 .. count : \E q : Ends(tail, q, m) /\ (m = count \/ NoneAfter(tail, q[m]))
  BY <1>5, <1>7, EndsExist
<1>9. PICK q : Ends(tail, q, m) /\ (m = count \/ NoneAfter(tail, q[m])) BY <1>8
<1>10. m \in Nat BY <1>5, <1>8
<1>11. ASSUME NEW i \in 0 .. count - 1 PROVE string(i) = IF i < m THEN OptionAt(q[i]) ELSE NULL
  BY <1>1, <1>2, <1>4, <1>5, <1>6, <1>7, <1>8, <1>9, OptionFound DEF string, class, size, base
<1>12. string(count) = NULL
  <2>1. count >= count BY <1>5
  <2>2. QED BY <1>5, <2>1 DEF mk_load_command_linker_option_get_string, string, class
<1>13. found = 0 .. m - 1
  <2>1. ASSUME NEW i \in 0 .. count PROVE i \in 0 .. m - 1 <=> string(i) # NULL
    <3>1. CASE i = count BY <1>8, <1>12, <3>1
    <3>2. CASE i # count
      <4>1. i \in 0 .. count - 1 BY <1>5, <3>2
      <4>2. string(i) = IF i < m THEN OptionAt(q[i]) ELSE NULL BY <1>11, <4>1
      <4>3. i < m => OptionAt(q[i]) # NULL
        <5>1. i < m => i \in 0 .. m /\ m \in Nat BY <1>10
        <5>2. i < m => OptionAt(q[i]) \in Nat /\ OptionAt(q[i]) >= lc
          BY <1>1, <1>4, <1>7, <1>9, <5>1, OptionEnds DEF size, base
        <5>3. NULL = 0 BY DEF NULL
        <5>4. QED BY <1>1, <5>2, <5>3
      <4>4. QED BY <1>10, <4>1, <4>2, <4>3
    <3>3. QED BY <3>1, <3>2
  <2>2. 0 .. m - 1 \subseteq 0 .. count BY <1>5, <1>8
  <2>3. QED BY <2>1, <2>2
<1> HIDE DEF found
<1>14. Cardinality(found) = m
  <2>1. 0 \in Int /\ m - 1 \in Int BY <1>10
  <2>2. Cardinality(0 .. m - 1) = IF 0 > m - 1 THEN 0 ELSE ((m - 1) - 0) + 1 BY <2>1, FS_Interval
  <2>3. Cardinality(0 .. m - 1) = m BY <1>10, <2>2
  <2>4. QED BY <1>13, <2>3
<1>15. ASSUME NEW i \in 0 .. m - 1 PROVE copy(i).output = SubSeq(tail, q[i] + 1, q[i + 1])
  <2> DEFINE at == OptionAt(q[i])
             end == lc + size
             length == OptionLength(at)
  <2>1. i \in 0 .. m /\ i < m /\ i \in 0 .. count - 1 BY <1>5, <1>8, <1>10
  <2>2. /\ at \in Nat /\ at >= lc /\ length \in Nat /\ length < size
        /\ Peek(mem, at, length) \o <<0>> = SubSeq(tail, q[i] + 1, q[i + 1])
    <3>1. /\ OptionAt(q[i]) \in Nat /\ OptionAt(q[i]) >= lc
          /\ OptionLength(OptionAt(q[i])) \in Nat /\ OptionLength(OptionAt(q[i])) < FileSize(lc)
          /\ Peek(mem, OptionAt(q[i]), OptionLength(OptionAt(q[i]))) \o <<0>> =
               SubSeq(OptionBytes, q[i] + 1, q[i + 1])
      BY <1>1, <1>4, <1>7, <1>9, <1>10, <2>1, OptionEnds DEF size, base
    <3>2. QED BY <1>7, <3>1 DEF size
  <2>3. string(i) = at BY <1>11, <2>1
  <2>4. at # NULL
    <3>1. NULL = 0 BY DEF NULL
    <3> HIDE DEF at
    <3>2. QED BY <1>1, <2>2, <3>1
  <2>5. strnlen(mem, at, end - at) = length BY DEF OptionLength, size
  <2> HIDE DEF at, length
  <2>6. Smaller(length, size - 1) = length BY <1>1, <2>2 DEF Smaller
  <2>7. size # 0 BY <1>1, <2>2
  <2>8. copy(i) = [returns |-> length, output |-> Peek(mem, at, length) \o <<0>>]
    BY <1>1, <1>6, <2>3, <2>4, <2>5, <2>6, <2>7
      DEF mk_load_command_linker_option_copy_string, copy, string, class
  <2>9. copy(i).output = Peek(mem, at, length) \o <<0>> BY <2>8
  <2>10. QED BY <2>2, <2>9
<1>16. IsPrefix(FlattenSeq([i \in 1 .. m |-> copy(i - 1).output]), tail)
  <2>1. \A i \in 1 .. m : copy(i - 1).output = SubSeq(tail, q[i - 1] + 1, q[i])
    <3> SUFFICES ASSUME NEW i \in 1 .. m PROVE copy(i - 1).output = SubSeq(tail, q[i - 1] + 1, q[i])
      OBVIOUS
    <3>1. i - 1 \in 0 .. m - 1 /\ (i - 1) + 1 = i BY <1>10
    <3>2. QED BY <1>15, <3>1
  <2>2. [i \in 1 .. m |-> copy(i - 1).output] = [i \in 1 .. m |-> SubSeq(tail, q[i - 1] + 1, q[i])]
    BY <2>1
  <2>3. IsPrefix(FlattenSeq([i \in 1 .. m |-> SubSeq(tail, q[i - 1] + 1, q[i])]), tail)
    BY <1>7, <1>9, <1>10, PiecesArePrefix
  <2>4. QED BY <2>2, <2>3
<1>17. m = count \/ Cardinality({i \in 1 .. Len(tail) : tail[i] = 0}) = m
  BY <1>7, <1>9, <1>10, EndsAreAll
<1>18. /\ found \subseteq 0 .. count - 1
       /\ \A i \in found : \A j \in 0 .. i : j \in found
  BY <1>5, <1>8, <1>10, <1>13
<1>19. QED BY <1>14, <1>16, <1>17, <1>18

\* The strings of every command are copied as the file has them, in each form, cut where the
\* buffer ends, and its options are found in order; and the sections and tools behind a command
\* are as many as it counts.
THEOREM AttachmentsRead == Spec => []AttachmentsAgree
<1>1. ImageInv /\ Typed => AttachmentsAgree
  <2> SUFFICES ASSUME ImageInv, Typed PROVE AttachmentsAgree OBVIOUS
  <2>1. StringsAgree BY CopiedRead, NativeRead, OptionsRead DEF StringsAgree
  <2>2. ElementsAgree BY ElementsWalked
  <2>3. QED BY <2>1, <2>2 DEF AttachmentsAgree
<1>2. QED BY <1>1, AlwaysTyped, PTL
=============================================================================
