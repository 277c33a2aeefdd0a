----------------------------- MODULE ListProofs -----------------------------
(***************************************************************************)
(* Proofs about value.List, for every limit, every set of elements and any *)
(* number of pushes.                                                       *)
(*                                                                         *)
(* First the pack: varints and elements are read back as they were         *)
(* written, wherever they stand, and the loop of packEach meets the        *)
(* elements of packAll in order.  Then the list: what is in it is a        *)
(* sequence of elements, whose pack is the pack of the list or whose       *)
(* linked nodes are its nodes.                                             *)
(***************************************************************************)
EXTENDS ListValue, WellFoundedInduction, TLAPS

USE Zenon, SMT


\* A sequence is its own part from end to end.
LEMMA WholeSequence ==
  ASSUME NEW S, NEW s \in Seq(S)
  PROVE  SubSeq(s, 1, Len(s)) = s
BY SMT

\* A sequence is empty or has a last element.
LEMMA EmptyOrAppend ==
  ASSUME NEW S, NEW s \in Seq(S), s # <<>>
  PROVE  \E h \in Seq(S) : \E e \in S : s = Append(h, e)
<1> DEFINE h == SubSeq(s, 1, Len(s) - 1)
<1> DEFINE e == s[Len(s)]
<1>1. Len(s) \in Nat /\ Len(s) # 0
  BY SMT
<1>2. h \in Seq(S) /\ e \in S
  BY SMT, <1>1
<1>3. s = Append(h, e)
  BY SMT, <1>1
<1> QED BY Zenon, <1>2, <1>3

\* A set of natural numbers has a least one.
LEMMA LeastNumber ==
  ASSUME NEW T \in SUBSET Nat, T # {}
  PROVE  \E x \in T : \A y \in T : x <= y
<1>1. PICK x \in T : \A y \in T : ~(<<y, x>> \in OpToRel(<, Nat))
  BY WFMin, NatLessThanWellFounded
<1>2. ASSUME NEW y \in T PROVE x <= y
  <2>1. x \in Nat /\ y \in Nat /\ ~(<<y, x>> \in OpToRel(<, Nat))
    BY <1>1
  <2> QED BY SMT, <2>1 DEF OpToRel
<1> QED BY <1>2

\* Induction, for the members of a set: a number is in T if all smaller ones are.
LEMMA Induction ==
  ASSUME NEW T, \A m \in Nat : (\A k \in Nat : k < m => k \in T) => m \in T
  PROVE  \A m \in Nat : m \in T
<1> DEFINE Bad == {m \in Nat : m \notin T}
<1>1. ASSUME Bad # {} PROVE FALSE
  <2>1. PICK m \in Bad : \A k \in Bad : m <= k
    BY <1>1, LeastNumber
  <2>2. ASSUME NEW k \in Nat, k < m PROVE k \in T
    <3>1. m \in Nat
      OBVIOUS
    <3>2. ~(m <= k)
      BY SMT, <2>2, <3>1
    <3> QED BY <2>1, <3>2
  <2> QED BY <2>2
<1> QED BY <1>1

\* The order of concatenation does not matter.
LEMMA BytesAssociative == \A a, b, c \in Seq(Byte) : (a \o b) \o c = a \o (b \o c)
BY SMT

\* A byte between two sequences belongs to either side.
LEMMA BytesMove ==
  ASSUME NEW d \in Byte, NEW x \in Seq(Byte), NEW z \in Seq(Byte)
  PROVE  x \o (<<d>> \o z) = (x \o <<d>>) \o z
<1>1. <<d>> \in Seq(Byte)
  OBVIOUS
<1> QED BY Zenon, <1>1, BytesAssociative

Appends(S) ==
  \A s, x \in Seq(S), e \in S :
     s \o x \in Seq(S) /\ s \o Append(x, e) = Append(s \o x, e)

\* Sequences: parts of a concatenation.
LEMMA ConcatAppend == \A S : Appends(S)
BY SMT DEF Appends

\* The first element and the others.
LEMMA HeadAndTail ==
  ASSUME NEW S, NEW s \in Seq(S), s # <<>>
  PROVE  /\ Len(s) \in Nat /\ 1 \in 1 .. Len(s) /\ s[1] \in S /\ Tail(s) \in Seq(S)
         /\ <<s[1]>> \in Seq(S) /\ s = <<s[1]>> \o Tail(s) /\ SubSeq(s, 1, 1) = <<s[1]>>
<1>1. Len(s) \in Nat /\ 1 \in 1 .. Len(s) /\ s[1] \in S /\ Tail(s) \in Seq(S)
  BY SMT
<1>2. s = <<s[1]>> \o Tail(s)
  BY SMT
<1>3. SubSeq(s, 1, 1) = <<s[1]>>
  <2>1. SubSeq(s, 1, 1) = [i \in 1 .. 1 |-> s[i]]
    BY SMT, <1>1
  <2>2. [i \in 1 .. 1 |-> s[i]] = <<s[1]>>
    BY SMT
  <2> QED BY Zenon, <2>1, <2>2
<1>4. \A x \in S : <<x>> \in Seq(S)
  OBVIOUS
<1> QED BY Zenon, <1>1, <1>2, <1>3, <1>4

\* The last element and the others.
LEMMA FrontAndLast ==
  ASSUME NEW S, NEW s \in Seq(S), s # <<>>
  PROVE  /\ Len(s) \in 1 .. Len(s) /\ Len(s) - 1 \in 0 .. Len(s) /\ s[Len(s)] \in S
         /\ SubSeq(s, 1, Len(s) - 1) \in Seq(S) /\ <<s[Len(s)]>> \in Seq(S)
         /\ s = SubSeq(s, 1, Len(s) - 1) \o <<s[Len(s)]>>
<1>1. Len(s) \in 1 .. Len(s) /\ Len(s) - 1 \in 0 .. Len(s) /\ s[Len(s)] \in S
  BY SMT
<1>2. SubSeq(s, 1, Len(s) - 1) \in Seq(S)
  BY SMT
<1>3. s = SubSeq(s, 1, Len(s) - 1) \o <<s[Len(s)]>>
  BY SMT
<1>4. \A x \in S : <<x>> \in Seq(S)
  OBVIOUS
<1> QED BY Zenon, <1>1, <1>2, <1>3, <1>4

-----------------------------------------------------------------------------
(* PutUvarint. *)

\* f gives the digits of the numbers up to n.
Digits(f, n) ==
  f = [k \in 0 .. n |-> IF k < Base THEN <<k>> ELSE <<Base + (k % Base)>> \o f[k \div Base]]

\* Division by the base: the quotient is smaller, and the number is had back.
LEMMA Division ==
  ASSUME NEW n \in Nat
  PROVE  /\ n \div Base \in Nat /\ n % Base \in Nat /\ n % Base < Base
         /\ n = Base * (n \div Base) + (n % Base)
         /\ n >= Base => n \div Base < n
         /\ Base + (n % Base) \in Byte /\ (n < Base => n \in Byte)
<1>1. Base \in Nat /\ 2 <= Base
  BY PackAssumption
<1>a. n \div Base \in Int
  BY SMT, <1>1
<1>b. n % Base \in 0 .. Base - 1
  BY SMT, <1>1
<1>c. n = Base * (n \div Base) + (n % Base)
  BY SMT, <1>1
<1> DEFINE q == n \div Base
           r == n % Base
<1> HIDE DEF q, r
<1>3. q \in Int /\ r \in 0 .. Base - 1 /\ n = Base * q + r
  BY Zenon, <1>a, <1>b, <1>c DEF q, r
<1>4. q >= 0
  BY SMT, <1>1, <1>3
<1>5. n >= Base => q < n
  BY SMT, <1>1, <1>3, <1>4
<1>6. Base + r \in Byte /\ (n < Base => n \in Byte)
  BY SMT, <1>1, <1>3 DEF Byte
<1>7. q \in Nat /\ r \in Nat /\ r < Base
  BY SMT, <1>1, <1>3, <1>4
<1> QED BY Zenon, <1>3, <1>5, <1>6, <1>7 DEF q, r

\* Digits exist.
LEMMA DigitsExist == ASSUME NEW n \in Nat PROVE \E f : Digits(f, n)
<1> DEFINE Bad == {m \in Nat : ~ \E f : Digits(f, m)}
<1> SUFFICES ASSUME Bad # {} PROVE FALSE
  OBVIOUS
<1>0. Base \in Nat /\ 2 <= Base
  BY PackAssumption
<1>1. PICK m \in Bad : \A k \in Bad : m <= k
  BY LeastNumber
<1>2. m # 0
  <2> DEFINE f == [k \in 0 .. 0 |-> <<k>>]
  <2>1. \A k \in 0 .. 0 : k < Base
    BY SMT, <1>0
  <2>2. Digits(f, 0)
    BY <2>1 DEF Digits
  <2> QED BY <2>2
<1>3. m - 1 \in Nat /\ m - 1 \notin Bad
  <2>1. m \in Nat
    OBVIOUS
  <2>2. m - 1 \in Nat /\ ~(m <= m - 1)
    BY SMT, <1>2, <2>1
  <2> QED BY <1>1, <2>2
<1>4. PICK f : Digits(f, m - 1)
  BY <1>3
<1> DEFINE NextDigits(h, k) == IF k < Base THEN <<k>> ELSE <<Base + (k % Base)>> \o h[k \div Base]
           g == [k \in 0 .. m |-> IF k = m THEN NextDigits(f, m) ELSE f[k]]
<1>5. ASSUME NEW k \in 0 .. m PROVE g[k] = NextDigits(g, k)
  <2>0. k \in Nat /\ k <= m
    BY SMT
  <2>1. k >= Base => k \div Base \in 0 .. m - 1
    <3>1. k \div Base \in Nat /\ (k >= Base => k \div Base < k)
      BY <2>0, Division
    <3> QED BY SMT, <1>3, <2>0, <3>1
  <2>2. k >= Base => g[k \div Base] = f[k \div Base]
    <3>1. \A j \in 0 .. m - 1 : j \in 0 .. m /\ j # m
      BY SMT, <1>3
    <3> QED BY <2>1, <3>1
  <2>3. k < Base \/ k >= Base
    BY SMT, <1>0, <2>0
  <2>4. NextDigits(g, k) = NextDigits(f, k)
    BY <2>2, <2>3
  <2>5. CASE k = m
    BY <2>4, <2>5
  <2>6. CASE k # m
    <3>1. k \in 0 .. m - 1
      BY SMT, <1>3, <2>6
    <3>2. f[k] = NextDigits(f, k)
      BY <1>4, <3>1 DEF Digits
    <3> QED BY <2>4, <2>6, <3>2
  <2> QED BY <2>5, <2>6
<1>6. Digits(g, m)
  BY <1>5 DEF Digits
<1> QED BY <1>6

\* They are determined.
LEMMA DigitsUnique ==
  ASSUME NEW m \in Nat, NEW n \in Nat, NEW f, NEW g, Digits(f, m), Digits(g, n),
         NEW j \in Nat, j <= m, j <= n
  PROVE  f[j] = g[j]
<1> DEFINE Bad == {i \in Nat : i <= m /\ i <= n /\ f[i] # g[i]}
<1> SUFFICES ASSUME Bad # {} PROVE FALSE
  OBVIOUS
<1>1. PICK k \in Bad : \A i \in Bad : k <= i
  BY LeastNumber
<1>2. k \in Nat /\ k <= m /\ k <= n /\ f[k] # g[k]
  OBVIOUS
<1>3. k \in 0 .. m /\ k \in 0 .. n
  BY SMT, <1>2
<1>4. f[k] = IF k < Base THEN <<k>> ELSE <<Base + (k % Base)>> \o f[k \div Base]
  BY <1>3 DEF Digits
<1>5. g[k] = IF k < Base THEN <<k>> ELSE <<Base + (k % Base)>> \o g[k \div Base]
  BY <1>3 DEF Digits
<1>6. ~(k < Base)
  BY <1>2, <1>4, <1>5
<1>7. k \div Base \in Nat /\ k \div Base < k
  <2>1. k >= Base
    BY SMT, <1>2, <1>6, PackAssumption
  <2> QED BY <1>2, <2>1, Division
<1>8. k \div Base <= m /\ k \div Base <= n /\ ~(k <= k \div Base)
  BY SMT, <1>2, <1>7
<1>9. f[k \div Base] = g[k \div Base]
  BY <1>1, <1>7, <1>8
<1> QED BY <1>2, <1>4, <1>5, <1>9

\* PutUvarint writes the lowest digit, and then the rest.
LEMMA PutUvarintStep ==
  ASSUME NEW n \in Nat
  PROVE  PutUvarint(n) = IF n < Base THEN <<n>>
                         ELSE <<Base + (n % Base)>> \o PutUvarint(n \div Base)
<1>1. \A m \in Nat : \E f : Digits(f, m) /\ PutUvarint(m) = f[m]
  <2> TAKE m \in Nat
  <2> DEFINE h == CHOOSE f : Digits(f, m)
  <2>1. Digits(h, m)
    BY DigitsExist, Zenon
  <2>2. PutUvarint(m) = h[m]
    BY Zenon DEF PutUvarint, Digits
  <2> QED BY <2>1, <2>2
<1>2. PICK f : Digits(f, n) /\ PutUvarint(n) = f[n]
  BY <1>1
<1>3. n \in 0 .. n
  BY SMT
<1>4. PutUvarint(n) = IF n < Base THEN <<n>> ELSE <<Base + (n % Base)>> \o f[n \div Base]
  BY <1>2, <1>3 DEF Digits
<1>5. CASE ~(n < Base)
  <2>1. n >= Base
    BY SMT, <1>5, PackAssumption
  <2>2. n \div Base \in Nat /\ n \div Base < n
    BY <2>1, Division
  <2>3. n \div Base <= n /\ n \div Base <= n \div Base
    BY SMT, <2>2
  <2>4. PICK g : Digits(g, n \div Base) /\ PutUvarint(n \div Base) = g[n \div Base]
    BY <1>1, <2>2
  <2>5. f[n \div Base] = g[n \div Base]
    BY <1>2, <2>2, <2>3, <2>4, DigitsUnique
  <2> QED BY <1>4, <2>4, <2>5
<1> QED BY <1>4, <1>5

\* A number takes at least one byte.
LEMMA PutUvarintType ==
  ASSUME NEW n \in Nat
  PROVE  PutUvarint(n) \in Seq(Byte) /\ Len(PutUvarint(n)) \in Nat \ {0}
<1> DEFINE Good(m) == PutUvarint(m) \in Seq(Byte) /\ Len(PutUvarint(m)) \in Nat \ {0}
           Bad == {m \in Nat : ~Good(m)}
<1> SUFFICES ASSUME Bad # {} PROVE FALSE
  OBVIOUS
<1>1. PICK m \in Bad : \A k \in Bad : m <= k
  BY LeastNumber
<1>2. m \in Nat /\ ~Good(m)
  OBVIOUS
<1>3. \A b \in Byte : <<b>> \in Seq(Byte) /\ Len(<<b>>) = 1
  OBVIOUS
<1>4. CASE m < Base
  <2>1. m \in Byte /\ PutUvarint(m) = <<m>>
    BY <1>2, <1>4, Division, PutUvarintStep
  <2> QED BY <1>2, <1>3, <2>1
<1>5. CASE ~(m < Base)
  <2> DEFINE q == m \div Base
             d == Base + (m % Base)
  <2>0. m >= Base
    BY SMT, <1>2, <1>5, PackAssumption
  <2>1. q \in Nat /\ q < m /\ d \in Byte
    BY <1>2, <2>0, Division
  <2>2. PutUvarint(m) = <<d>> \o PutUvarint(q)
    BY <1>2, <1>5, PutUvarintStep
  <2> HIDE DEF q, d
  <2>3. ~(m <= q)
    BY SMT, <1>2, <2>1
  <2>4. Good(q)
    BY <1>1, <2>1, <2>3
  <2>5. <<d>> \in Seq(Byte) /\ Len(<<d>>) = 1
    BY <1>3, <2>1
  <2>6. PutUvarint(m) \in Seq(Byte) /\ Len(PutUvarint(m)) = 1 + Len(PutUvarint(q))
    BY <2>2, <2>4, <2>5
  <2>7. Len(PutUvarint(m)) \in Nat \ {0}
    BY SMT, <2>4, <2>6
  <2> QED BY <1>2, <2>6, <2>7
<1> QED BY <1>4, <1>5

-----------------------------------------------------------------------------
(* Uvarint. *)

\* What is read at position i of a buffer, when f reads the positions after it.
Reading(f, buf, i) ==
  IF i > Len(buf) THEN <<0, 0>>
  ELSE IF buf[i] < Base THEN <<buf[i], 1>>
  ELSE IF f[i + 1][2] = 0 THEN f[i + 1]
  ELSE <<buf[i] - Base + Base * f[i + 1][1], 1 + f[i + 1][2]>>

\* The readings at all positions exist.
LEMMA ReadingsExist ==
  ASSUME NEW buf, Len(buf) \in Nat
  PROVE  \E f : f = [i \in 1 .. Len(buf) + 1 |-> Reading(f, buf, i)]
<1> DEFINE n == Len(buf)
           Some(f, m) == f = [i \in n + 1 - m .. n + 1 |-> Reading(f, buf, i)]
           Bad == {m \in Nat : ~ \E f : Some(f, m)}
<1>0. n \in Nat
  OBVIOUS
<1>1. ASSUME Bad # {} PROVE FALSE
  <2>1. PICK m \in Bad : \A k \in Bad : m <= k
    BY <1>1, LeastNumber
  <2>2. m # 0
    <3> DEFINE f == [i \in n + 1 - 0 .. n + 1 |-> <<0, 0>>]
    <3>1. \A i \in n + 1 - 0 .. n + 1 : i > n
      BY SMT, <1>0
    <3>2. Some(f, 0)
      BY <3>1 DEF Reading
    <3> QED BY <3>2
  <2>3. m - 1 \in Nat /\ m - 1 \notin Bad
    <3>1. m \in Nat
      OBVIOUS
    <3>2. m - 1 \in Nat /\ ~(m <= m - 1)
      BY SMT, <2>2, <3>1
    <3> QED BY <2>1, <3>2
  <2>4. PICK f : Some(f, m - 1)
    BY <2>3
  <2> HIDE DEF n
  <2> DEFINE j == n + 1 - m
             g == [i \in j .. n + 1 |-> IF i = j THEN Reading(f, buf, j) ELSE f[i]]
  <2>5. \A i \in j .. n + 1 : i + 1 \in j .. n + 2 /\ i + 1 # j /\ (i # j => i \in n + 1 - (m - 1) .. n + 1)
    BY SMT, <1>0, <2>3
  <2>6. \A i \in j .. n + 1 : ~(i > n) => i + 1 \in j .. n + 1 /\ i + 1 # j
    BY SMT, <1>0, <2>3
  <2> HIDE DEF j
  <2>7. ASSUME NEW i \in j .. n + 1 PROVE g[i] = Reading(g, buf, i)
    <3>1. Reading(g, buf, i) = Reading(f, buf, i)
      <4>1. CASE i > n
        BY <4>1 DEF Reading, n
      <4>2. CASE ~(i > n)
        <5>1. g[i + 1] = f[i + 1]
          BY <2>6, <4>2
        <5> HIDE DEF g
        <5> QED BY <5>1 DEF Reading
      <4> QED BY <4>1, <4>2
    <3>2. CASE i = j
      BY <3>1, <3>2
    <3>3. CASE i # j
      <4>1. f[i] = Reading(f, buf, i)
        BY <2>4, <2>5, <3>3
      <4> QED BY <3>1, <3>3, <4>1
    <3> QED BY <3>2, <3>3
  <2>8. Some(g, m)
    BY <2>7 DEF j
  <2> QED BY <2>8
<1>2. PICK f : Some(f, n)
  BY <1>0, <1>1
<1>3. n + 1 - n = 1
  BY SMT, <1>0
<1> QED BY <1>2, <1>3

\* Uvarint reads a byte, and after a marked one the rest.
LEMMA UvarintStep ==
  ASSUME NEW buf, Len(buf) \in Nat, NEW off \in 0 .. Len(buf) - 1
  PROVE  /\ buf[off + 1] < Base => Uvarint(buf, off) = <<buf[off + 1], 1>>
         /\ ~(buf[off + 1] < Base) /\ Uvarint(buf, off + 1)[2] # 0 =>
              Uvarint(buf, off) = <<buf[off + 1] - Base + Base * Uvarint(buf, off + 1)[1],
                                    1 + Uvarint(buf, off + 1)[2]>>
<1> DEFINE h == CHOOSE f : f = [i \in 1 .. Len(buf) + 1 |-> Reading(f, buf, i)]
<1>1. h = [i \in 1 .. Len(buf) + 1 |-> Reading(h, buf, i)]
  BY ReadingsExist, Zenon
<1>2. \A o : Uvarint(buf, o) = h[o + 1]
  BY Zenon DEF Uvarint, Reading
<1> HIDE DEF h
<1>3. off + 1 \in 1 .. Len(buf) + 1 /\ ~(off + 1 > Len(buf))
  BY SMT
<1>4. h[off + 1] = Reading(h, buf, off + 1)
  BY <1>1, <1>3
<1> QED BY <1>2, <1>3, <1>4 DEF Reading

\* Uvarint reads the number that PutUvarint wrote, wherever it stands.
LEMMA UvarintAt ==
  ASSUME NEW n \in Nat, NEW a \in Seq(Byte), NEW b \in Seq(Byte)
  PROVE  Uvarint(a \o (PutUvarint(n) \o b), Len(a)) = <<n, Len(PutUvarint(n))>>
<1> DEFINE Good(m) == \A x, y \in Seq(Byte) :
                        Uvarint(x \o (PutUvarint(m) \o y), Len(x)) = <<m, Len(PutUvarint(m))>>
           T == {m \in Nat : Good(m)}
<1>1. ASSUME NEW m \in Nat, \A k \in Nat : k < m => k \in T,
             NEW x \in Seq(Byte), NEW y \in Seq(Byte)
      PROVE  Uvarint(x \o (PutUvarint(m) \o y), Len(x)) = <<m, Len(PutUvarint(m))>>
  <2>0. Len(x) \in Nat /\ Len(y) \in Nat
    OBVIOUS
  <2>1. CASE m < Base
    <3>1. PutUvarint(m) = <<m>> /\ m \in Byte /\ Len(<<m>>) = 1
      BY <2>1, PutUvarintStep, Division
    <3> DEFINE buf == x \o (<<m>> \o y)
    <3>2. Len(buf) = Len(x) + 1 + Len(y) /\ buf[Len(x) + 1] = m
      <4>1. m \in Byte
        BY <3>1
      <4> QED BY SMT, <4>1
    <3> HIDE DEF buf
    <3>3. Len(buf) \in Nat /\ Len(x) \in 0 .. Len(buf) - 1
      BY SMT, <2>0, <3>2
    <3>4. Uvarint(buf, Len(x)) = <<m, 1>>
      BY <2>1, <3>2, <3>3, UvarintStep
    <3> QED BY <3>1, <3>4 DEF buf
  <2>2. CASE ~(m < Base)
    <3> DEFINE q == m \div Base
               d == Base + (m % Base)
               p == PutUvarint(q)
               z == p \o y
               buf == x \o (<<d>> \o z)
    <3>0. m >= Base
      BY SMT, <2>2, PackAssumption
    <3>1. q \in Nat /\ q < m /\ d \in Byte /\ m = Base * q + (m % Base) /\ m % Base \in Nat
      BY <3>0, Division
    <3>2. PutUvarint(m) = <<d>> \o p /\ p \in Seq(Byte) /\ Len(p) \in Nat \ {0}
      <4>1. PutUvarint(m) = <<d>> \o p
        BY <2>2, PutUvarintStep
      <4> QED BY <3>1, <4>1, PutUvarintType
    <3>a. m = d - Base + Base * q /\ ~(d < Base)
      <4> DEFINE r == m % Base
      <4> HIDE DEF q, r
      <4>1. r \in Nat /\ m = Base * q + r
        BY <3>1 DEF r
      <4> QED BY SMT, <3>1, <4>1, PackAssumption DEF r
    <3> HIDE DEF q, d, p
    <3>3. z \in Seq(Byte) /\ Len(z) \in Nat
      BY <3>2
    <3>4. <<d>> \in Seq(Byte) /\ Len(<<d>>) = 1
      BY <3>1
    <3>5. PutUvarint(m) \o y = <<d>> \o z /\ Len(PutUvarint(m)) = 1 + Len(p)
      <4>1. (<<d>> \o p) \o y = <<d>> \o (p \o y)
        <5>1. p \in Seq(Byte)
          BY <3>2
        <5> QED BY SMT, <3>4, <5>1
      <4>2. Len(<<d>> \o p) = 1 + Len(p)
        BY <3>2, <3>4
      <4> QED BY <3>2, <4>1, <4>2
    <3> HIDE DEF z
    <3>6. /\ Len(buf) = Len(x) + 1 + Len(z) /\ buf[Len(x) + 1] = d
          /\ buf = (x \o <<d>>) \o z /\ x \o <<d>> \in Seq(Byte) /\ Len(x \o <<d>>) = Len(x) + 1
      <4>1. d \in Byte /\ z \in Seq(Byte)
        BY <3>1, <3>3
      <4>2. Len(buf) = Len(x) + 1 + Len(z) /\ buf[Len(x) + 1] = d
        BY SMT, <4>1
      <4>3. x \o <<d>> \in Seq(Byte) /\ Len(x \o <<d>>) = Len(x) + 1
        BY SMT, <4>1
      <4>4. buf = (x \o <<d>>) \o z
        BY <4>1, BytesMove
      <4> QED BY <4>2, <4>3, <4>4
    <3>7. Uvarint(buf, Len(x) + 1) = <<q, Len(p)>>
      <4>2. Good(q)
        BY <1>1, <3>1
      <4>3. Uvarint((x \o <<d>>) \o (p \o y), Len(x \o <<d>>)) = <<q, Len(p)>>
        BY <3>6, <4>2 DEF p
      <4> QED BY <3>6, <4>3 DEF z
    <3> HIDE DEF buf
    <3>8. Len(buf) \in Nat /\ Len(x) \in 0 .. Len(buf) - 1
      BY SMT, <2>0, <3>3, <3>6
    <3>9. Uvarint(buf, Len(x)) = <<d - Base + Base * q, 1 + Len(p)>>
      <4>1. Uvarint(buf, Len(x) + 1)[1] = q /\ Uvarint(buf, Len(x) + 1)[2] = Len(p)
        BY <3>7
      <4> QED BY <3>2, <3>6, <3>8, <3>a, <4>1, UvarintStep
    <3> QED BY <3>5, <3>9, <3>a DEF buf
  <2> QED BY <2>1, <2>2
<1>2. \A m \in Nat : (\A k \in Nat : k < m => k \in T) => m \in T
  BY <1>1
<1>3. \A m \in Nat : m \in T
  <2> HIDE DEF T
  <2> QED BY <1>2, Induction
<1> QED BY <1>3

-----------------------------------------------------------------------------
(* Elements and packs. *)

\* An element with its length before it.
Item(e) == PutUvarint(Len(e)) \o e

\* packAppend adds an item.
LEMMA ItemType ==
  ASSUME NEW e \in Seq(Byte)
  PROVE  /\ Item(e) \in Seq(Byte) /\ Len(Item(e)) \in Nat \ {0}
         /\ Len(Item(e)) = Len(PutUvarint(Len(e))) + Len(e)
         /\ \A buf \in Seq(Byte) : packAppend(buf, e) = buf \o Item(e)
<1> DEFINE p == PutUvarint(Len(e))
<1>1. p \in Seq(Byte) /\ Len(p) \in Nat \ {0}
  <2>1. Len(e) \in Nat
    OBVIOUS
  <2> QED BY <2>1, PutUvarintType
<1> HIDE DEF p
<1>2. p \o e \in Seq(Byte) /\ Len(p \o e) = Len(p) + Len(e) /\ Len(p \o e) \in Nat \ {0}
  BY SMT, <1>1
<1>3. \A buf \in Seq(Byte) : (buf \o p) \o e = buf \o (p \o e)
  BY SMT, <1>1
<1> QED BY <1>2, <1>3 DEF Item, packAppend, p

\* An item is read where it stands: its element, and the offset after it.
LEMMA ItemAt ==
  ASSUME NEW e \in Seq(Byte), NEW a \in Seq(Byte), NEW b \in Seq(Byte)
  PROVE  /\ ElementAt(a \o (Item(e) \o b), Len(a)) = e
         /\ After(a \o (Item(e) \o b), Len(a)) = Len(a) + Len(Item(e))
<1> DEFINE p == PutUvarint(Len(e))
           buf == a \o (Item(e) \o b)
<1>0. Len(e) \in Nat
  OBVIOUS
<1>1. p \in Seq(Byte) /\ Len(p) \in Nat \ {0}
  BY <1>0, PutUvarintType
<1>2. Uvarint(a \o (p \o (e \o b)), Len(a)) = <<Len(e), Len(p)>>
  <2>1. e \o b \in Seq(Byte)
    BY SMT
  <2> QED BY <1>0, <2>1, UvarintAt
<1> HIDE DEF p
<1>3. (p \o e) \o b = p \o (e \o b)
  BY SMT, <1>1
<1>4. Uvarint(buf, Len(a)) = <<Len(e), Len(p)>>
  BY <1>2, <1>3 DEF Item, p
<1>5. SubSeq(a \o ((p \o e) \o b), Len(a) + Len(p) + 1, Len(a) + Len(p) + Len(e)) = e
  BY SMT, <1>1
<1>6. Len(p \o e) = Len(p) + Len(e)
  BY SMT, <1>1
<1>7. Len(a) + Len(p) + Len(e) = Len(a) + (Len(p) + Len(e))
  BY SMT, <1>1
<1>8. ElementAt(buf, Len(a)) = e
  BY <1>4, <1>5 DEF ElementAt, Item, p
<1>9. After(buf, Len(a)) = Len(a) + Len(Item(e))
  BY <1>4, <1>6, <1>7 DEF After, Item, p
<1> QED BY <1>8, <1>9

\* f gives the packs of the first elements.
Packs(f, elems, n) ==
  f = [i \in 0 .. n |-> IF i = 0 THEN <<>> ELSE packAppend(f[i - 1], elems[i])]

\* They exist.
LEMMA PacksExist ==
  ASSUME NEW elems, NEW n \in Nat
  PROVE  \E f : Packs(f, elems, n)
<1> DEFINE Bad == {m \in Nat : ~ \E f : Packs(f, elems, m)}
<1> SUFFICES ASSUME Bad # {} PROVE FALSE
  OBVIOUS
<1>1. PICK m \in Bad : \A k \in Bad : m <= k
  BY LeastNumber
<1>2. m # 0
  <2> DEFINE f == [i \in 0 .. 0 |-> <<>>]
  <2>1. \A i \in 0 .. 0 : i = 0
    BY SMT
  <2>2. Packs(f, elems, 0)
    BY <2>1 DEF Packs
  <2> QED BY <2>2
<1>3. m - 1 \in Nat /\ m - 1 \notin Bad
  <2>1. m \in Nat
    OBVIOUS
  <2>2. m - 1 \in Nat /\ ~(m <= m - 1)
    BY SMT, <1>2, <2>1
  <2> QED BY <1>1, <2>2
<1>4. PICK f : Packs(f, elems, m - 1)
  BY <1>3
<1> DEFINE g == [i \in 0 .. m |-> IF i = m THEN packAppend(f[m - 1], elems[m]) ELSE f[i]]
<1>5. ASSUME NEW i \in 0 .. m
      PROVE  g[i] = IF i = 0 THEN <<>> ELSE packAppend(g[i - 1], elems[i])
  <2>1. CASE i = m
    <3>1. m - 1 \in 0 .. m /\ m - 1 # m
      BY SMT, <1>3
    <3> QED BY <1>2, <2>1, <3>1
  <2>2. CASE i # m
    <3>1. i \in 0 .. m - 1 /\ (i # 0 => i - 1 \in 0 .. m /\ i - 1 # m)
      BY SMT, <1>3, <2>2
    <3>2. f[i] = IF i = 0 THEN <<>> ELSE packAppend(f[i - 1], elems[i])
      BY <1>4, <3>1 DEF Packs
    <3> QED BY <2>2, <3>1, <3>2
  <2> QED BY <2>1, <2>2
<1>6. Packs(g, elems, m)
  BY <1>5 DEF Packs
<1> QED BY <1>6

\* They are determined by the elements.
LEMMA PacksUnique ==
  ASSUME NEW s, NEW t, NEW m \in Nat, NEW n \in Nat, m <= n,
         \A i \in 1 .. m : s[i] = t[i],
         NEW f, NEW g, Packs(f, s, m), Packs(g, t, n)
  PROVE  f[m] = g[m]
<1> DEFINE Bad == {i \in 0 .. m : f[i] # g[i]}
<1> SUFFICES ASSUME Bad # {} PROVE FALSE
  BY SMT
<1>0. Bad \in SUBSET Nat
  BY SMT
<1>1. PICK k \in Bad : \A i \in Bad : k <= i
  BY <1>0, LeastNumber
<1>2. k \in 0 .. m /\ f[k] # g[k]
  OBVIOUS
<1>3. f[k] = IF k = 0 THEN <<>> ELSE packAppend(f[k - 1], s[k])
  BY <1>2 DEF Packs
<1>4. g[k] = IF k = 0 THEN <<>> ELSE packAppend(g[k - 1], t[k])
  <2>1. k \in 0 .. n
    BY SMT, <1>2
  <2> QED BY <2>1 DEF Packs
<1>5. k # 0
  BY <1>2, <1>3, <1>4
<1>6. k - 1 \in 0 .. m /\ ~(k <= k - 1) /\ k \in 1 .. m
  BY SMT, <1>2, <1>5
<1>7. f[k - 1] = g[k - 1]
  BY <1>1, <1>6
<1> QED BY <1>2, <1>3, <1>4, <1>5, <1>6, <1>7

\* packAll is the last of them.
LEMMA PackAllLast ==
  ASSUME NEW elems, Len(elems) \in Nat
  PROVE  \E f : Packs(f, elems, Len(elems)) /\ packAll(elems) = f[Len(elems)]
<1> DEFINE h == CHOOSE f : Packs(f, elems, Len(elems))
<1>1. Packs(h, elems, Len(elems))
  BY PacksExist, Zenon
<1>2. packAll(elems) = h[Len(elems)]
  BY Zenon DEF packAll, Packs
<1> QED BY <1>1, <1>2

\* An element more is an item more.
LEMMA PackAllAppend ==
  /\ packAll(<<>>) = <<>>
  /\ \A S : \A s \in Seq(S), e \in S : packAll(Append(s, e)) = packAppend(packAll(s), e)
<1>1. packAll(<<>>) = <<>>
  <2>1. Len(<<>>) = 0 /\ 0 \in Nat /\ 0 \in 0 .. 0
    BY SMT
  <2>2. PICK f : Packs(f, <<>>, 0) /\ packAll(<<>>) = f[0]
    BY <2>1, PackAllLast
  <2> QED BY <2>1, <2>2 DEF Packs
<1>2. ASSUME NEW S, NEW s \in Seq(S), NEW e \in S
      PROVE  packAll(Append(s, e)) = packAppend(packAll(s), e)
  <2> DEFINE n == Len(s)
             t == Append(s, e)
  <2>1. n \in Nat /\ Len(t) = n + 1 /\ t[n + 1] = e /\ \A i \in 1 .. n : s[i] = t[i]
    BY SMT
  <2>2. n + 1 \in Nat /\ n <= n /\ n + 1 \in 0 .. n + 1 /\ n + 1 # 0 /\ (n + 1) - 1 = n
        /\ n \in 0 .. n + 1 /\ n <= n + 1
    BY SMT, <2>1
  <2>3. PICK f : Packs(f, s, n) /\ packAll(s) = f[n]
    BY <2>1, PackAllLast
  <2>4. PICK g : Packs(g, t, n + 1) /\ packAll(t) = g[n + 1]
    BY <2>1, <2>2, PackAllLast
  <2> HIDE DEF n, t
  <2>5. g[n + 1] = packAppend(g[n], e)
    BY <2>1, <2>2, <2>4 DEF Packs
  <2>6. f[n] = g[n]
    BY <2>1, <2>2, <2>3, <2>4, PacksUnique
  <2> QED BY <2>3, <2>4, <2>5, <2>6 DEF t
<1> QED BY <1>1, <1>2

\* A pack is a sequence of bytes, one or more for each element.
LEMMA PackAllType ==
  ASSUME NEW s \in Seq(Seq(Byte))
  PROVE  packAll(s) \in Seq(Byte) /\ Len(packAll(s)) \in Nat /\ Len(s) <= Len(packAll(s))
<1> DEFINE Good(q) == packAll(q) \in Seq(Byte) /\ Len(packAll(q)) \in Nat /\ Len(q) <= Len(packAll(q))
           T == {m \in Nat : \A q \in Seq(Seq(Byte)) : Len(q) = m => Good(q)}
<1>1. ASSUME NEW m \in Nat, \A k \in Nat : k < m => k \in T, NEW q \in Seq(Seq(Byte)), Len(q) = m
      PROVE  Good(q)
  <2>5. CASE q = <<>>
    <3>1. <<>> \in Seq(Byte) /\ Len(<<>>) = 0 /\ 0 \in Nat /\ 0 <= 0
      BY SMT
    <3> QED BY <1>1, <2>5, <3>1, PackAllAppend DEF Good
  <2>6. CASE q # <<>>
    <3>1. PICK x \in Seq(Seq(Byte)), e \in Seq(Byte) : q = Append(x, e)
      BY <1>1, <2>6, EmptyOrAppend
    <3>2. Len(x) \in Nat /\ Len(q) = Len(x) + 1 /\ Len(x) < m
      BY SMT, <1>1, <3>1
    <3>3. Good(x)
      BY <1>1, <3>2
    <3>4. packAll(q) = packAll(x) \o Item(e)
      <4>1. packAll(x) \in Seq(Byte)
        BY <3>3 DEF Good
      <4>2. packAll(Append(x, e)) = packAppend(packAll(x), e)
        BY PackAllAppend
      <4>3. packAppend(packAll(x), e) = packAll(x) \o Item(e)
        BY <4>1, ItemType
      <4> QED BY ONLY <3>1, <4>2, <4>3
    <3>5. Item(e) \in Seq(Byte) /\ Len(Item(e)) \in Nat \ {0}
      BY ItemType
    <3> DEFINE a == packAll(x)
               b == Item(e)
    <3>6. a \in Seq(Byte) /\ Len(a) \in Nat /\ Len(x) <= Len(a)
      BY <3>3 DEF Good
    <3> HIDE DEF a, b
    <3>7. a \o b \in Seq(Byte) /\ Len(a \o b) \in Nat /\ Len(q) <= Len(a \o b)
      BY SMT, <3>2, <3>5, <3>6 DEF b
    <3> QED BY <1>1, <3>4, <3>7 DEF Good, a, b
  <2> QED BY <2>5, <2>6
<1>2. \A m \in Nat : (\A k \in Nat : k < m => k \in T) => m \in T
  BY <1>1
<1>3. \A m \in Nat : m \in T
  <2> HIDE DEF T
  <2> QED BY <1>2, Induction
<1>4. \A q \in Seq(Seq(Byte)) : Len(q) \in Nat
  BY SMT
<1> QED BY <1>3, <1>4

\* Appending to the second of two parts appends to the whole.
LEMMA ElementsAppend == Appends(Seq(Byte))
BY Zenon, ConcatAppend

\* One more element: what packAppend does to the pack of the second part it
\* does to the pack of the whole.
LEMMA PackAllConcatStep ==
  ASSUME NEW s \in Seq(Seq(Byte)), NEW x \in Seq(Seq(Byte)), NEW e \in Seq(Byte),
         packAll(s \o x) = packAll(s) \o packAll(x)
  PROVE  packAll(s \o Append(x, e)) = packAll(s) \o packAll(Append(x, e))
<1>4. s \o x \in Seq(Seq(Byte)) /\ s \o Append(x, e) = Append(s \o x, e)
  BY ElementsAppend DEF Appends
<1>5. packAll(s) \in Seq(Byte) /\ packAll(x) \in Seq(Byte) /\ packAll(s \o x) \in Seq(Byte)
  BY <1>4, PackAllType
<1>6. packAll(s \o Append(x, e)) = packAll(s \o x) \o Item(e)
  <2>1. packAll(Append(s \o x, e)) = packAppend(packAll(s \o x), e)
    BY <1>4, PackAllAppend
  <2>2. packAppend(packAll(s \o x), e) = packAll(s \o x) \o Item(e)
    BY <1>5, ItemType
  <2> QED BY <1>4, <2>1, <2>2
<1>7. packAll(Append(x, e)) = packAll(x) \o Item(e)
  <2>1. packAll(Append(x, e)) = packAppend(packAll(x), e)
    BY PackAllAppend
  <2>2. packAppend(packAll(x), e) = packAll(x) \o Item(e)
    BY <1>5, ItemType
  <2> QED BY <2>1, <2>2
<1>8. Item(e) \in Seq(Byte)
  BY ItemType
<1>9. (packAll(s) \o packAll(x)) \o Item(e) = packAll(s) \o (packAll(x) \o Item(e))
  <2> DEFINE a == packAll(s)
             b == packAll(x)
             c == Item(e)
  <2>1. a \in Seq(Byte) /\ b \in Seq(Byte) /\ c \in Seq(Byte)
    BY <1>5, <1>8
  <2> HIDE DEF a, b, c
  <2>2. (a \o b) \o c = a \o (b \o c)
    BY Zenon, <2>1, BytesAssociative
  <2> QED BY <2>2 DEF a, b, c
<1> QED BY <1>6, <1>7, <1>9

\* Packs of parts of a sequence follow each other.
LEMMA PackAllConcat ==
  ASSUME NEW s \in Seq(Seq(Byte)), NEW t \in Seq(Seq(Byte))
  PROVE  packAll(s \o t) = packAll(s) \o packAll(t)
<1> DEFINE Good(q) == packAll(s \o q) = packAll(s) \o packAll(q)
           T == {m \in Nat : \A q \in Seq(Seq(Byte)) : Len(q) = m => Good(q)}
<1>1. ASSUME NEW m \in Nat, \A k \in Nat : k < m => k \in T, NEW q \in Seq(Seq(Byte)), Len(q) = m
      PROVE  Good(q)
  <2>5. CASE q = <<>>
    <3>1. s \o <<>> = s
      BY SMT
    <3>2. packAll(s) \in Seq(Byte)
      BY PackAllType
    <3>3. packAll(s) \o <<>> = packAll(s)
      BY SMT, <3>2
    <3>4. Good(<<>>)
      BY <3>1, <3>3, PackAllAppend DEF Good
    <3> QED BY <1>1, <2>5, <3>4
  <2>6. CASE q # <<>>
    <3>1. PICK x \in Seq(Seq(Byte)), e \in Seq(Byte) : q = Append(x, e)
      BY <1>1, <2>6, EmptyOrAppend
    <3>2. Len(x) \in Nat /\ Len(q) = Len(x) + 1 /\ Len(x) < m
      BY SMT, <1>1, <3>1
    <3>3. packAll(s \o x) = packAll(s) \o packAll(x)
      BY <1>1, <3>2
    <3>4. packAll(s \o Append(x, e)) = packAll(s) \o packAll(Append(x, e))
      BY <3>3, PackAllConcatStep
    <3> QED BY <1>1, <3>1, <3>4 DEF Good
  <2> QED BY <2>5, <2>6
<1>2. \A m \in Nat : (\A k \in Nat : k < m => k \in T) => m \in T
  BY <1>1
<1>3. \A m \in Nat : m \in T
  <2> HIDE DEF T
  <2> QED BY <1>2, Induction
<1>4. \A q \in Seq(Seq(Byte)) : Len(q) \in Nat
  BY SMT
<1> QED BY <1>3, <1>4

-----------------------------------------------------------------------------
(* The loop over a pack. *)

\* Where the loop stands after round i, when f says where it stood before.
Standing(f, buf, i) ==
  IF i = 0 THEN 0 ELSE IF f[i - 1] < Len(buf) THEN After(buf, f[i - 1]) ELSE f[i - 1]

\* The loop can be followed for any number of rounds.
LEMMA StandingsExist ==
  ASSUME NEW buf, NEW n \in Nat
  PROVE  \E f : f = [i \in 0 .. n |-> Standing(f, buf, i)]
<1> DEFINE Some(f, m) == f = [i \in 0 .. m |-> Standing(f, buf, i)]
           Bad == {m \in Nat : ~ \E f : Some(f, m)}
<1> SUFFICES ASSUME Bad # {} PROVE FALSE
  OBVIOUS
<1>1. PICK m \in Bad : \A k \in Bad : m <= k
  BY LeastNumber
<1>2. m # 0
  <2> DEFINE f == [i \in 0 .. 0 |-> 0]
  <2>1. \A i \in 0 .. 0 : i = 0
    BY SMT
  <2>2. Some(f, 0)
    BY <2>1 DEF Standing
  <2> QED BY <2>2
<1>3. m - 1 \in Nat /\ m - 1 \notin Bad
  <2>1. m \in Nat
    OBVIOUS
  <2>2. m - 1 \in Nat /\ ~(m <= m - 1)
    BY SMT, <1>2, <2>1
  <2> QED BY <1>1, <2>2
<1>4. PICK f : Some(f, m - 1)
  BY <1>3
<1> DEFINE g == [i \in 0 .. m |-> IF i = m THEN Standing(f, buf, m) ELSE f[i]]
<1>5. ASSUME NEW i \in 0 .. m PROVE g[i] = Standing(g, buf, i)
  <2>1. i # 0 => i - 1 \in 0 .. m /\ i - 1 # m
    BY SMT, <1>3
  <2>2. Standing(g, buf, i) = Standing(f, buf, i)
    BY <2>1 DEF Standing
  <2>3. CASE i = m
    BY <2>2, <2>3
  <2>4. CASE i # m
    <3>1. i \in 0 .. m - 1
      BY SMT, <1>3, <2>4
    <3> QED BY <1>4, <2>2, <2>4, <3>1
  <2> QED BY <2>3, <2>4
<1>6. Some(g, m)
  BY <1>5
<1> QED BY <1>6

\* Offsets follows the loop.
LEMMA OffsetsStep ==
  ASSUME NEW buf, Len(buf) \in Nat
  PROVE  \A i \in 0 .. Len(buf) : Offsets(buf)[i] = Standing(Offsets(buf), buf, i)
<1> DEFINE h == CHOOSE f : f = [i \in 0 .. Len(buf) |-> Standing(f, buf, i)]
<1>1. h = [i \in 0 .. Len(buf) |-> Standing(h, buf, i)]
  BY StandingsExist, Zenon
<1>2. Offsets(buf) = h
  BY Zenon DEF Offsets, Standing
<1> HIDE DEF h
<1> QED BY <1>1, <1>2

\* The length of the first i packed elements.
Packed(s, i) == Len(packAll(SubSeq(s, 1, i)))

\* An element of a sequence between those before and those after it.
LEMMA SplitAt ==
  ASSUME NEW S, NEW s \in Seq(S), NEW i \in 1 .. Len(s)
  PROVE  /\ SubSeq(s, 1, i - 1) \in Seq(S) /\ SubSeq(s, i + 1, Len(s)) \in Seq(S) /\ s[i] \in S
         /\ s = SubSeq(s, 1, i - 1) \o (<<s[i]>> \o SubSeq(s, i + 1, Len(s)))
         /\ SubSeq(s, 1, i) = Append(SubSeq(s, 1, i - 1), s[i])
<1>1. i \in Nat /\ Len(s) \in Nat /\ 1 <= i /\ i <= Len(s)
  BY SMT
<1>2. SubSeq(s, 1, i - 1) \in Seq(S) /\ SubSeq(s, i + 1, Len(s)) \in Seq(S) /\ s[i] \in S
  BY SMT, <1>1
<1>3. SubSeq(s, 1, i) = Append(SubSeq(s, 1, i - 1), s[i])
  BY SMT, <1>1
<1>4. s = SubSeq(s, 1, i - 1) \o SubSeq(s, i, Len(s))
  <2>1. 1 \in 1 .. Len(s) + 1 /\ i - 1 \in 1 - 1 .. Len(s) /\ Len(s) \in i - 1 .. Len(s) /\ (i - 1) + 1 = i
    BY SMT, <1>1
  <2>2. SubSeq(s, 1, i - 1) \o SubSeq(s, (i - 1) + 1, Len(s)) = SubSeq(s, 1, Len(s))
    BY <2>1
  <2>3. SubSeq(s, 1, Len(s)) = s
    OBVIOUS
  <2> QED BY <2>1, <2>2, <2>3
<1>5. SubSeq(s, i, Len(s)) = <<s[i]>> \o SubSeq(s, i + 1, Len(s))
  BY SMT, <1>1
<1> QED BY <1>2, <1>3, <1>4, <1>5

\* Each item of a pack is read where the ones before it end.
LEMMA PackedItem ==
  ASSUME NEW s \in Seq(Seq(Byte)), NEW i \in 1 .. Len(s)
  PROVE  /\ Packed(s, i - 1) \in Nat /\ Packed(s, i) \in Nat
         /\ Packed(s, i - 1) < Packed(s, i) /\ Packed(s, i) <= Len(packAll(s))
         /\ ElementAt(packAll(s), Packed(s, i - 1)) = s[i]
         /\ After(packAll(s), Packed(s, i - 1)) = Packed(s, i)
<1> DEFINE pre  == SubSeq(s, 1, i - 1)
           post == SubSeq(s, i + 1, Len(s))
           e    == s[i]
<1>1. pre \in Seq(Seq(Byte)) /\ post \in Seq(Seq(Byte)) /\ e \in Seq(Byte)
  BY SplitAt
<1>2. s = pre \o (<<e>> \o post) /\ SubSeq(s, 1, i) = Append(pre, e)
  BY SplitAt
<1> HIDE DEF pre, post, e
<1>3. <<e>> \in Seq(Seq(Byte)) /\ <<e>> \o post \in Seq(Seq(Byte)) /\ <<e>> = Append(<<>>, e)
  BY SMT, <1>1
<1> DEFINE a == packAll(pre)
           b == packAll(post)
<1>4. a \in Seq(Byte) /\ b \in Seq(Byte)
  BY <1>1, PackAllType
<1>5. Item(e) \in Seq(Byte) /\ Len(Item(e)) \in Nat \ {0}
  BY <1>1, ItemType
<1>6. packAll(<<e>>) = Item(e)
  <2>1. packAll(Append(<<>>, e)) = packAppend(packAll(<<>>), e)
    <3>1. <<>> \in Seq(Seq(Byte))
      OBVIOUS
    <3> QED BY <1>1, <3>1, PackAllAppend
  <2>2. packAppend(<<>>, e) = <<>> \o Item(e)
    <3>1. <<>> \in Seq(Byte)
      OBVIOUS
    <3> QED BY <1>1, <3>1, ItemType
  <2>3. <<>> \o Item(e) = Item(e)
    BY <1>5
  <2> QED BY <1>3, <2>1, <2>2, <2>3, PackAllAppend
<1>7. packAll(s) = a \o (Item(e) \o b)
  <2>1. packAll(<<e>> \o post) = Item(e) \o b
    <3>1. packAll(<<e>> \o post) = packAll(<<e>>) \o packAll(post)
      BY <1>1, <1>3, PackAllConcat
    <3> QED BY <1>6, <3>1
  <2>2. packAll(pre \o (<<e>> \o post)) = a \o packAll(<<e>> \o post)
    BY <1>1, <1>3, PackAllConcat
  <2> QED BY <1>2, <2>1, <2>2
<1>8. packAll(SubSeq(s, 1, i)) = a \o Item(e)
  <2>1. packAll(Append(pre, e)) = packAppend(a, e)
    BY <1>1, PackAllAppend
  <2>2. packAppend(a, e) = a \o Item(e)
    BY <1>1, <1>4, ItemType
  <2> QED BY <1>2, <2>1, <2>2
<1>9. Packed(s, i - 1) = Len(a) /\ Packed(s, i) = Len(a \o Item(e))
  BY <1>8 DEF Packed, pre
<1>10. ElementAt(packAll(s), Len(a)) = e /\ After(packAll(s), Len(a)) = Len(a) + Len(Item(e))
  BY <1>1, <1>4, <1>7, ItemAt
<1> DEFINE it == Item(e)
<1> HIDE DEF a, b, it
<1>11. /\ Len(a) \in Nat /\ Len(a \o it) \in Nat /\ Len(a) < Len(a \o it)
       /\ Len(a \o it) <= Len(a \o (it \o b)) /\ Len(a) + Len(it) = Len(a \o it)
  BY SMT, <1>4, <1>5 DEF it
<1> QED BY <1>7, <1>9, <1>10, <1>11 DEF it, e

\* The first and the last of these offsets.
LEMMA PackedEnds ==
  ASSUME NEW s \in Seq(Seq(Byte))
  PROVE  /\ Packed(s, 0) = 0 /\ Packed(s, Len(s)) = Len(packAll(s))
         /\ \A i \in 0 .. Len(s) : Packed(s, i) \in Nat
         /\ \A i \in 0 .. Len(s) - 1 : Packed(s, i) < Len(packAll(s))
<1>1. Packed(s, 0) = 0
  <2>1. SubSeq(s, 1, 0) = <<>> /\ Len(<<>>) = 0
    BY SMT
  <2> QED BY <2>1, PackAllAppend DEF Packed
<1>2. Packed(s, Len(s)) = Len(packAll(s))
  BY WholeSequence DEF Packed
<1>3. ASSUME NEW i \in 0 .. Len(s) PROVE Packed(s, i) \in Nat
  <2>1. SubSeq(s, 1, i) \in Seq(Seq(Byte))
    BY SMT
  <2> QED BY <2>1, PackAllType DEF Packed
<1>4. ASSUME NEW i \in 0 .. Len(s) - 1 PROVE Packed(s, i) < Len(packAll(s))
  <2>1. i + 1 \in 1 .. Len(s) /\ (i + 1) - 1 = i
    BY SMT
  <2>2. /\ Packed(s, i) \in Nat /\ Packed(s, i + 1) \in Nat /\ Packed(s, i) < Packed(s, i + 1)
        /\ Packed(s, i + 1) <= Len(packAll(s))
    BY <2>1, PackedItem
  <2>3. Len(packAll(s)) \in Nat
    BY PackAllType
  <2> QED BY SMT, <2>2, <2>3
<1> QED BY <1>1, <1>2, <1>3, <1>4

\* The loop goes from item to item.
LEMMA OffsetsOfPack ==
  ASSUME NEW s \in Seq(Seq(Byte))
  PROVE  \A i \in 0 .. Len(s) : Offsets(packAll(s))[i] = Packed(s, i)
<1> DEFINE buf == packAll(s)
           Bad == {i \in 0 .. Len(s) : Offsets(buf)[i] # Packed(s, i)}
<1>0. Len(buf) \in Nat /\ Len(s) \in Nat /\ Len(s) <= Len(buf)
  BY PackAllType
<1> HIDE DEF buf
<1> SUFFICES ASSUME Bad # {} PROVE FALSE
  BY DEF buf
<1>1. Bad \in SUBSET Nat
  BY SMT
<1>2. PICK k \in Bad : \A i \in Bad : k <= i
  BY <1>1, LeastNumber
<1>3. k \in 0 .. Len(s) /\ Offsets(buf)[k] # Packed(s, k)
  OBVIOUS
<1>4. Offsets(buf)[k] = Standing(Offsets(buf), buf, k)
  <2>1. k \in 0 .. Len(buf)
    BY SMT, <1>0, <1>3
  <2> QED BY <1>0, <2>1, OffsetsStep
<1>5. k # 0
  BY <1>3, <1>4, PackedEnds DEF Standing
<1>6. k \in 1 .. Len(s) /\ k - 1 \in 0 .. Len(s) /\ k - 1 \in 0 .. Len(s) - 1 /\ ~(k <= k - 1)
  BY SMT, <1>0, <1>3, <1>5
<1>7. Offsets(buf)[k - 1] = Packed(s, k - 1)
  BY <1>2, <1>6
<1>8. Packed(s, k - 1) < Len(buf)
  BY <1>6, PackedEnds DEF buf
<1>9. After(buf, Packed(s, k - 1)) = Packed(s, k)
  BY <1>6, PackedItem DEF buf
<1> QED BY <1>3, <1>4, <1>5, <1>7, <1>8, <1>9 DEF Standing

\* It takes one round for each element.
LEMMA RoundsOfPack ==
  ASSUME NEW s \in Seq(Seq(Byte))
  PROVE  Rounds(packAll(s)) = Len(s)
<1> DEFINE buf == packAll(s)
           at  == Offsets(buf)
           Ends(n) == at[n] >= Len(buf) /\ \A i \in 0 .. n - 1 : at[i] < Len(buf)
<1>0. Len(buf) \in Nat /\ Len(s) \in Nat /\ Len(s) <= Len(buf)
  BY PackAllType
<1>1. at[Len(s)] = Len(buf) /\ \A i \in 0 .. Len(s) - 1 : at[i] < Len(buf)
  <2>1. Len(s) \in 0 .. Len(s) /\ \A i \in 0 .. Len(s) - 1 : i \in 0 .. Len(s)
    BY SMT, <1>0
  <2> QED BY <2>1, OffsetsOfPack, PackedEnds
<1>2. Rounds(buf) = CHOOSE n \in 0 .. Len(buf) : Ends(n)
  BY Zenon DEF Rounds
<1> HIDE DEF buf, at
<1>3. Len(s) \in 0 .. Len(buf) /\ Ends(Len(s))
  <2>1. Len(s) \in 0 .. Len(buf) /\ Len(buf) >= Len(buf)
    BY SMT, <1>0
  <2> QED BY <1>1, <2>1
<1>4. ASSUME NEW n \in 0 .. Len(buf), Ends(n) PROVE n = Len(s)
  <2>1. CASE n < Len(s)
    <3>1. n \in 0 .. Len(s) - 1
      BY SMT, <1>0, <2>1
    <3>2. at[n] < Len(buf) /\ at[n] >= Len(buf)
      BY <1>1, <1>4, <3>1
    <3>3. at[n] \in Int
      <4>1. n \in 0 .. Len(s)
        BY SMT, <1>0, <3>1
      <4> QED BY <4>1, OffsetsOfPack, PackedEnds DEF at, buf
    <3> QED BY SMT, <1>0, <3>2, <3>3
  <2>2. CASE n > Len(s)
    <3>1. Len(s) \in 0 .. n - 1
      BY SMT, <1>0, <2>2
    <3>2. Len(buf) < Len(buf)
      BY <1>1, <1>4, <3>1
    <3> QED BY SMT, <1>0, <3>2
  <2> QED BY SMT, <1>0, <2>1, <2>2
<1>5. (CHOOSE n \in 0 .. Len(buf) : Ends(n)) = Len(s)
  <2> HIDE DEF Ends
  <2> QED BY <1>3, <1>4
<1> QED BY <1>2, <1>5 DEF buf, at

\* packEach reads from a pack the elements that were packed, in their order, however
\* their bytes look.
THEOREM PackEachReads == \A s \in Seq(Seq(Byte)) : packEach(packAll(s)) = s
<1> TAKE s \in Seq(Seq(Byte))
<1> DEFINE buf == packAll(s)
<1>1. packEach(buf) = [i \in 1 .. Len(s) |-> ElementAt(buf, Offsets(buf)[i - 1])]
  BY RoundsOfPack DEF packEach
<1>2. ASSUME NEW i \in 1 .. Len(s) PROVE ElementAt(buf, Offsets(buf)[i - 1]) = s[i]
  <2>1. i - 1 \in 0 .. Len(s)
    BY SMT
  <2> QED BY <2>1, OffsetsOfPack, PackedItem
<1>3. s = [i \in 1 .. Len(s) |-> s[i]]
  BY SMT
<1> HIDE DEF buf
<1>4. packEach(buf) = [i \in 1 .. Len(s) |-> s[i]]
  BY Zenon, <1>1, <1>2
<1> QED BY Zenon, <1>3, <1>4 DEF buf

\* PopFront's reading of a pack: its first element and the pack of the others.
LEMMA FirstOfPack ==
  ASSUME NEW s \in Seq(Seq(Byte)), s # <<>>
  PROVE  /\ ElementAt(packAll(s), 0) = s[1]
         /\ SubSeq(packAll(s), After(packAll(s), 0) + 1, Len(packAll(s))) = packAll(Tail(s))
<1>1. 1 \in 1 .. Len(s) /\ 1 - 1 = 0 /\ SubSeq(s, 1, 1) = <<s[1]>> /\ s = <<s[1]>> \o Tail(s)
      /\ <<s[1]>> \in Seq(Seq(Byte)) /\ Tail(s) \in Seq(Seq(Byte))
  <2>1. 1 - 1 = 0
    BY SMT
  <2> QED BY <2>1, HeadAndTail
<1>2. ElementAt(packAll(s), 0) = s[1] /\ After(packAll(s), 0) = Packed(s, 1)
  <2>1. ElementAt(packAll(s), Packed(s, 1 - 1)) = s[1] /\ After(packAll(s), Packed(s, 1 - 1)) = Packed(s, 1)
    BY <1>1, PackedItem
  <2> QED BY <1>1, <2>1, PackedEnds
<1> DEFINE a == packAll(<<s[1]>>)
           b == packAll(Tail(s))
<1>3. packAll(s) = a \o b
  <2>1. packAll(<<s[1]>> \o Tail(s)) = a \o b
    BY <1>1, PackAllConcat
  <2> QED BY <1>1, <2>1
<1>4. a \in Seq(Byte) /\ b \in Seq(Byte)
  BY <1>1, PackAllType
<1>5. Packed(s, 1) = Len(a)
  BY <1>1 DEF Packed
<1> HIDE DEF a, b
<1>6. SubSeq(a \o b, Len(a) + 1, Len(a \o b)) = b
  BY SMT, <1>4
<1> QED BY <1>2, <1>3, <1>5, <1>6 DEF b

\* PopBack's: its last element and the pack of the others.
LEMMA LastOfPack ==
  ASSUME NEW s \in Seq(Seq(Byte)), s # <<>>, NEW off, off = Offsets(packAll(s))[Rounds(packAll(s)) - 1]
  PROVE  /\ ElementAt(packAll(s), off) = s[Len(s)]
         /\ SubSeq(packAll(s), 1, off) = packAll(SubSeq(s, 1, Len(s) - 1))
<1> DEFINE n == Len(s)
           pre == SubSeq(s, 1, n - 1)
<1>1. n \in 1 .. Len(s) /\ n - 1 \in 0 .. Len(s)
  BY FrontAndLast
<1>2. off = Packed(s, n - 1)
  BY <1>1, RoundsOfPack, OffsetsOfPack
<1>3. ElementAt(packAll(s), off) = s[n]
  BY <1>1, <1>2, PackedItem
<1>4. pre \in Seq(Seq(Byte)) /\ <<s[n]>> \in Seq(Seq(Byte)) /\ s = pre \o <<s[n]>>
  BY FrontAndLast
<1> DEFINE a == packAll(pre)
           b == packAll(<<s[n]>>)
<1>5. packAll(s) = a \o b
  <2>1. packAll(pre \o <<s[n]>>) = a \o b
    BY <1>4, PackAllConcat
  <2> QED BY <1>4, <2>1
<1>6. a \in Seq(Byte) /\ b \in Seq(Byte)
  BY <1>4, PackAllType
<1>7. off = Len(a)
  BY <1>2 DEF Packed
<1> HIDE DEF a, b, pre
<1>8. SubSeq(a \o b, 1, Len(a)) = a
  BY SMT, <1>6
<1> QED BY <1>3, <1>5, <1>7, <1>8 DEF a, pre

\* PushFront's and PushBack's packs.
LEMMA PushedPacks ==
  ASSUME NEW s \in Seq(Seq(Byte)), NEW e \in Seq(Byte)
  PROVE  /\ packAppend(packAll(s), e) = packAll(Append(s, e))
         /\ packAppend(<<>>, e) \o packAll(s) = packAll(<<e>> \o s)
<1>1. packAppend(packAll(s), e) = packAll(Append(s, e))
  BY PackAllAppend
<1>2. <<>> \in Seq(Seq(Byte)) /\ Append(<<>>, e) = <<e>> /\ <<e>> \in Seq(Seq(Byte))
  BY SMT
<1>3. packAll(Append(<<>>, e)) = packAppend(packAll(<<>>), e)
  BY <1>2, PackAllAppend
<1>4. packAppend(<<>>, e) = packAll(<<e>>)
  BY <1>2, <1>3, PackAllAppend
<1>5. packAll(<<e>> \o s) = packAll(<<e>>) \o packAll(s)
  BY <1>2, PackAllConcat
<1> QED BY <1>1, <1>4, <1>5


-----------------------------------------------------------------------------
(* The linked list. *)

Node == [value : Elements, prev : Nat, next : Nat]

\* A linked list as an object: its ends and its nodes point at nodes of its own.
Typed(l) ==
  /\ l \in [head : Nat, tail : Nat, length : Int, nodes : Seq(Node)]
  /\ l.head <= Len(l.nodes) /\ l.tail <= Len(l.nodes)
  /\ \A m \in 1 .. Len(l.nodes) :
       l.nodes[m].prev <= Len(l.nodes) /\ l.nodes[m].next <= Len(l.nodes)

\* The nodes ids[1], ids[2], ... hold the elements s and are linked in both
\* directions, with nil before the first and after the last.
Chain(l, ids, s) ==
  LET k == Len(s)
  IN  /\ ids \in [0 .. k + 1 -> 0 .. Len(l.nodes)]
      /\ ids[0] = 0 /\ ids[k + 1] = 0
      /\ \A i \in 1 .. k : ids[i] # 0
      /\ \A i, j \in 1 .. k : ids[i] = ids[j] => i = j
      /\ l.head = ids[1] /\ l.tail = ids[k] /\ l.length = k /\ k <= Len(l.nodes)
      /\ \A i \in 1 .. k : /\ l.nodes[ids[i]].value = s[i]
                           /\ l.nodes[ids[i]].prev = ids[i - 1]
                           /\ l.nodes[ids[i]].next = ids[i + 1]

\* A linked list that holds the elements s.
Holds(l, s) == Typed(l) /\ s \in Seq(Elements) /\ \E ids : Chain(l, ids, s)

\* The new list holds nothing.
LEMMA NewHolds == Holds(newFullList, <<>>)
<1> DEFINE ids == [i \in 0 .. 1 |-> 0]
<1>1. <<>> \in Seq(Node) /\ <<>> \in Seq(Elements) /\ Len(<<>>) = 0
  OBVIOUS
<1>2. Typed(newFullList)
  BY <1>1 DEF Typed, newFullList
<1>3. Chain(newFullList, ids, <<>>)
  BY SMT, <1>1 DEF Chain, newFullList
<1> QED BY <1>1, <1>2, <1>3 DEF Holds

\* The fields of a typed list.
LEMMA Fields ==
  ASSUME NEW l, Typed(l)
  PROVE  /\ l.head \in Nat /\ l.tail \in Nat /\ l.length \in Int /\ l.nodes \in Seq(Node)
         /\ Len(l.nodes) \in Nat /\ l.head <= Len(l.nodes) /\ l.tail <= Len(l.nodes)
         /\ \A m \in 1 .. Len(l.nodes) : l.nodes[m] \in Node
<1>1. l.head \in Nat /\ l.tail \in Nat /\ l.length \in Int /\ l.nodes \in Seq(Node)
  BY DEF Typed
<1>2. \A q \in Seq(Node) : Len(q) \in Nat /\ \A m \in 1 .. Len(q) : q[m] \in Node
  OBVIOUS
<1> QED BY Zenon, <1>1, <1>2 DEF Typed

\* The fields of a node.
LEMMA NodeFields ==
  /\ \A x \in Node : x.value \in Elements /\ x.prev \in Nat /\ x.next \in Nat
  /\ \A v \in Elements, a, b \in Nat : [value |-> v, prev |-> a, next |-> b] \in Node
BY DEF Node

\* The fields of a node of which one is assigned.
LEMMA NodeExcept ==
  \A x \in Node : \A v :
    /\ [x EXCEPT !.next = v] = [value |-> x.value, prev |-> x.prev, next |-> v]
    /\ [x EXCEPT !.prev = v] = [value |-> x.value, prev |-> v, next |-> x.next]
BY DEF Node

\* The assignment n.next = v makes p of the nodes q.
NextSet(q, n, v, p) ==
  /\ p \in Seq(Node) /\ Len(p) = Len(q)
  /\ \A m \in 1 .. Len(q) : /\ p[m].value = q[m].value /\ p[m].prev = q[m].prev
                            /\ p[m].next = (IF m = n THEN v ELSE q[m].next)

\* It does so in a list of nodes.
LEMMA SetNext ==
  ASSUME NEW q \in Seq(Node), NEW n \in 1 .. Len(q), NEW v \in Nat
  PROVE  NextSet(q, n, v, [q EXCEPT ![n].next = v])
<1> DEFINE p == [q EXCEPT ![n].next = v]
<1>1. q[n] \in Node
  OBVIOUS
<1>2. [q[n] EXCEPT !.next = v] = [value |-> q[n].value, prev |-> q[n].prev, next |-> v]
  BY Zenon, <1>1, NodeExcept
<1> DEFINE x == [value |-> q[n].value, prev |-> q[n].prev, next |-> v]
<1>3. x \in Node
  <2>1. q[n].value \in Elements /\ q[n].prev \in Nat /\ q[n].next \in Nat
    BY Zenon, <1>1, NodeFields
  <2> QED BY Zenon, <2>1, NodeFields
<1>4. p = [q EXCEPT ![n] = x]
  BY <1>2
<1> HIDE DEF x, p
<1>5. p \in Seq(Node) /\ Len(p) = Len(q)
  BY SMT, <1>3, <1>4
<1>6. \A m \in 1 .. Len(q) : p[m] = IF m = n THEN x ELSE q[m]
  BY SMT, <1>4
<1>7. x.value = q[n].value /\ x.prev = q[n].prev /\ x.next = v
  BY DEF x
<1>8. ASSUME NEW m \in 1 .. Len(q)
      PROVE  /\ p[m].value = q[m].value /\ p[m].prev = q[m].prev
             /\ p[m].next = (IF m = n THEN v ELSE q[m].next)
  <2>1. CASE m = n
    <3>1. p[m] = x
      BY Zenon, <1>6, <2>1
    <3> QED BY <1>7, <2>1, <3>1
  <2>2. CASE m # n
    <3>1. p[m] = q[m]
      BY Zenon, <1>6, <2>2
    <3> QED BY <2>2, <3>1
  <2> QED BY Zenon, <2>1, <2>2
<1> QED BY Zenon, <1>5, <1>8 DEF NextSet, p

\* The assignment n.prev = v makes p of the nodes q.
PrevSet(q, n, v, p) ==
  /\ p \in Seq(Node) /\ Len(p) = Len(q)
  /\ \A m \in 1 .. Len(q) : /\ p[m].value = q[m].value /\ p[m].next = q[m].next
                            /\ p[m].prev = (IF m = n THEN v ELSE q[m].prev)

\* It does so in a list of nodes.
LEMMA SetPrev ==
  ASSUME NEW q \in Seq(Node), NEW n \in 1 .. Len(q), NEW v \in Nat
  PROVE  PrevSet(q, n, v, [q EXCEPT ![n].prev = v])
<1> DEFINE p == [q EXCEPT ![n].prev = v]
<1>1. q[n] \in Node
  OBVIOUS
<1>2. [q[n] EXCEPT !.prev = v] = [value |-> q[n].value, prev |-> v, next |-> q[n].next]
  BY Zenon, <1>1, NodeExcept
<1> DEFINE x == [value |-> q[n].value, prev |-> v, next |-> q[n].next]
<1>3. x \in Node
  <2>1. q[n].value \in Elements /\ q[n].prev \in Nat /\ q[n].next \in Nat
    BY Zenon, <1>1, NodeFields
  <2> QED BY Zenon, <2>1, NodeFields
<1>4. p = [q EXCEPT ![n] = x]
  BY <1>2
<1> HIDE DEF x, p
<1>5. p \in Seq(Node) /\ Len(p) = Len(q)
  BY SMT, <1>3, <1>4
<1>6. \A m \in 1 .. Len(q) : p[m] = IF m = n THEN x ELSE q[m]
  BY SMT, <1>4
<1>7. x.value = q[n].value /\ x.next = q[n].next /\ x.prev = v
  BY DEF x
<1>8. ASSUME NEW m \in 1 .. Len(q)
      PROVE  /\ p[m].value = q[m].value /\ p[m].next = q[m].next
             /\ p[m].prev = (IF m = n THEN v ELSE q[m].prev)
  <2>1. CASE m = n
    <3>1. p[m] = x
      BY Zenon, <1>6, <2>1
    <3> QED BY <1>7, <2>1, <3>1
  <2>2. CASE m # n
    <3>1. p[m] = q[m]
      BY Zenon, <1>6, <2>2
    <3> QED BY <2>2, <3>1
  <2> QED BY Zenon, <2>1, <2>2
<1> QED BY Zenon, <1>5, <1>8 DEF PrevSet, p

\* The node x makes p of the nodes q.
Added(q, x, p) ==
  /\ p \in Seq(Node) /\ Len(p) = Len(q) + 1 /\ p[Len(q) + 1] = x
  /\ \A m \in 1 .. Len(q) : p[m] = q[m]

\* A new node is the last one.
LEMMA AddNode == \A q \in Seq(Node), x \in Node : Added(q, x, Append(q, x))
BY SMT DEF Added

\* A typed list and its fields.
Built(r, h, t, n, q) == Typed(r) /\ r.head = h /\ r.tail = t /\ r.length = n /\ r.nodes = q

\* A list from its fields.
LEMMA MakeTyped ==
  ASSUME NEW h \in Nat, NEW t \in Nat, NEW n \in Int, NEW q \in Seq(Node),
         h <= Len(q), t <= Len(q),
         \A m \in 1 .. Len(q) : q[m].prev <= Len(q) /\ q[m].next <= Len(q)
  PROVE  Built([head |-> h, tail |-> t, length |-> n, nodes |-> q], h, t, n, q)
<1> DEFINE r == [head |-> h, tail |-> t, length |-> n, nodes |-> q]
<1>1. r.head = h /\ r.tail = t /\ r.length = n /\ r.nodes = q
  BY Zenon
<1>2. r \in [head : Nat, tail : Nat, length : Int, nodes : Seq(Node)]
  BY Zenon
<1> QED BY Zenon, <1>1, <1>2 DEF Typed, Built

\* What pushBack does, field by field: the list r that it makes.
PushedBack(l, e, r) ==
  LET N == Len(l.nodes)
  IN  /\ Typed(r) /\ Len(r.nodes) = N + 1
      /\ r.head = (IF l.tail = 0 THEN N + 1 ELSE l.head)
      /\ r.tail = N + 1 /\ r.length = l.length + 1
      /\ \A m \in 1 .. N : /\ r.nodes[m].value = l.nodes[m].value
                           /\ r.nodes[m].prev = l.nodes[m].prev
                           /\ r.nodes[m].next = (IF m = l.tail THEN N + 1 ELSE l.nodes[m].next)
      /\ r.nodes[N + 1].value = e /\ r.nodes[N + 1].prev = l.tail /\ r.nodes[N + 1].next = 0

\* It does that.
LEMMA PushBackFields ==
  ASSUME NEW l, Typed(l), NEW e \in Elements
  PROVE  PushedBack(l, e, pushBack(l, e))
<1> DEFINE N == Len(l.nodes)
           r == pushBack(l, e)
           node == [value |-> e, prev |-> l.tail, next |-> 0]
           old == IF l.tail = 0 THEN l.nodes ELSE [l.nodes EXCEPT ![l.tail].next = N + 1]
           q == Append(old, node)
           h == IF l.tail = 0 THEN N + 1 ELSE l.head
<1>1. /\ l.head \in Nat /\ l.tail \in Nat /\ l.length \in Int /\ l.nodes \in Seq(Node)
      /\ N \in Nat /\ l.head <= N /\ l.tail <= N
      /\ \A m \in 1 .. N : l.nodes[m] \in Node
  BY Zenon, Fields
<1>2. \A m \in 1 .. N : l.nodes[m].prev <= N /\ l.nodes[m].next <= N
  BY Zenon DEF Typed
<1>3. \A m \in 1 .. N : l.nodes[m].prev \in Nat /\ l.nodes[m].next \in Nat
  BY Zenon, <1>1, NodeFields
<1>4. r = [head |-> h, tail |-> N + 1, length |-> l.length + 1, nodes |-> q]
  BY Zenon DEF pushBack
<1>5. node \in Node /\ node.value = e /\ node.prev = l.tail /\ node.next = 0
  <2>1. 0 \in Nat
    BY SMT
  <2> QED BY Zenon, <1>1, <2>1, NodeFields
<1> HIDE DEF node
<1>6. /\ old \in Seq(Node) /\ Len(old) = N
      /\ \A m \in 1 .. N : /\ old[m].value = l.nodes[m].value /\ old[m].prev = l.nodes[m].prev
                           /\ old[m].next = (IF m = l.tail THEN N + 1 ELSE l.nodes[m].next)
  <2>1. CASE l.tail = 0
    <3>1. \A m \in 1 .. N : m # l.tail
      BY SMT, <1>1, <2>1
    <3>2. old = l.nodes
      BY Zenon, <2>1
    <3> HIDE DEF old
    <3> QED BY <1>1, <3>1, <3>2
  <2>2. CASE l.tail # 0
    <3>1. l.tail \in 1 .. N /\ N + 1 \in Nat
      BY SMT, <1>1, <2>2
    <3>2. old = [l.nodes EXCEPT ![l.tail].next = N + 1]
      BY Zenon, <2>2
    <3> HIDE DEF old
    <3>3. NextSet(l.nodes, l.tail, N + 1, old)
      BY Zenon, <1>1, <3>1, <3>2, SetNext
    <3> QED BY Zenon, <3>3 DEF NextSet
  <2> QED BY Zenon, <2>1, <2>2
<1> HIDE DEF old
<1>7. /\ q \in Seq(Node) /\ Len(q) = N + 1 /\ q[N + 1] = node
      /\ \A m \in 1 .. N : q[m] = old[m]
  <2>1. Added(old, node, q)
    BY Zenon, <1>5, <1>6, AddNode
  <2> QED BY Zenon, <1>6, <2>1 DEF Added
<1> HIDE DEF q
<1>8. /\ h \in Nat /\ h <= Len(q) /\ N + 1 \in Nat /\ N + 1 <= Len(q) /\ l.length + 1 \in Int
  <2>1. h \in Nat /\ h <= N + 1
    BY SMT, <1>1
  <2>2. N + 1 \in Nat /\ N + 1 <= N + 1 /\ l.length + 1 \in Int
    BY SMT, <1>1
  <2> QED BY Zenon, <1>7, <2>1, <2>2
<1>9. \A m \in 1 .. Len(q) : q[m].prev <= Len(q) /\ q[m].next <= Len(q)
  <2> SUFFICES ASSUME NEW m \in 1 .. N + 1 PROVE q[m].prev <= N + 1 /\ q[m].next <= N + 1
    BY <1>7
  <2>1. CASE m = N + 1
    <3>1. q[m].prev = l.tail /\ q[m].next = 0
      BY Zenon, <1>5, <1>7, <2>1
    <3> QED BY SMT, <1>1, <3>1
  <2>2. CASE m # N + 1
    <3>1. m \in 1 .. N
      BY SMT, <1>1, <2>2
    <3>2. q[m].prev = l.nodes[m].prev /\ q[m].next = IF m = l.tail THEN N + 1 ELSE l.nodes[m].next
      BY <1>6, <1>7, <3>1
    <3>3. /\ l.nodes[m].prev \in Nat /\ l.nodes[m].next \in Nat
          /\ l.nodes[m].prev <= N /\ l.nodes[m].next <= N
      BY <1>2, <1>3, <3>1
    <3> QED BY SMT, <1>1, <3>2, <3>3
  <2> QED BY <2>1, <2>2
<1> HIDE DEF h, r
<1>10. Typed(r) /\ r.head = h /\ r.tail = N + 1 /\ r.length = l.length + 1 /\ r.nodes = q
  <2>1. Built(r, h, N + 1, l.length + 1, q)
    BY Zenon, <1>4, <1>7, <1>8, <1>9, MakeTyped
  <2> QED BY Zenon, <2>1 DEF Built
<1>11. \A m \in 1 .. N : /\ r.nodes[m].value = l.nodes[m].value
                         /\ r.nodes[m].prev = l.nodes[m].prev
                         /\ r.nodes[m].next = (IF m = l.tail THEN N + 1 ELSE l.nodes[m].next)
  BY <1>6, <1>7, <1>10
<1> QED BY Zenon, <1>5, <1>7, <1>10, <1>11 DEF PushedBack, h, r

\* What pushFront does, field by field: the list r that it makes.
PushedFront(l, e, r) ==
  LET N == Len(l.nodes)
  IN  /\ Typed(r) /\ Len(r.nodes) = N + 1
      /\ r.tail = (IF l.head = 0 THEN N + 1 ELSE l.tail)
      /\ r.head = N + 1 /\ r.length = l.length + 1
      /\ \A m \in 1 .. N : /\ r.nodes[m].value = l.nodes[m].value
                           /\ r.nodes[m].next = l.nodes[m].next
                           /\ r.nodes[m].prev = (IF m = l.head THEN N + 1 ELSE l.nodes[m].prev)
      /\ r.nodes[N + 1].value = e /\ r.nodes[N + 1].next = l.head /\ r.nodes[N + 1].prev = 0

\* It does that.
LEMMA PushFrontFields ==
  ASSUME NEW l, Typed(l), NEW e \in Elements
  PROVE  PushedFront(l, e, pushFront(l, e))
<1> DEFINE N == Len(l.nodes)
           r == pushFront(l, e)
           node == [value |-> e, prev |-> 0, next |-> l.head]
           old == IF l.head = 0 THEN l.nodes ELSE [l.nodes EXCEPT ![l.head].prev = N + 1]
           q == Append(old, node)
           h == IF l.head = 0 THEN N + 1 ELSE l.tail
<1>1. /\ l.tail \in Nat /\ l.head \in Nat /\ l.length \in Int /\ l.nodes \in Seq(Node)
      /\ N \in Nat /\ l.tail <= N /\ l.head <= N
      /\ \A m \in 1 .. N : l.nodes[m] \in Node
  BY Zenon, Fields
<1>2. \A m \in 1 .. N : l.nodes[m].next <= N /\ l.nodes[m].prev <= N
  BY Zenon DEF Typed
<1>3. \A m \in 1 .. N : l.nodes[m].next \in Nat /\ l.nodes[m].prev \in Nat
  BY Zenon, <1>1, NodeFields
<1>4. r = [head |-> N + 1, tail |-> h, length |-> l.length + 1, nodes |-> q]
  BY Zenon DEF pushFront
<1>5. node \in Node /\ node.value = e /\ node.next = l.head /\ node.prev = 0
  <2>1. 0 \in Nat
    BY SMT
  <2> QED BY Zenon, <1>1, <2>1, NodeFields
<1> HIDE DEF node
<1>6. /\ old \in Seq(Node) /\ Len(old) = N
      /\ \A m \in 1 .. N : /\ old[m].value = l.nodes[m].value /\ old[m].next = l.nodes[m].next
                           /\ old[m].prev = (IF m = l.head THEN N + 1 ELSE l.nodes[m].prev)
  <2>1. CASE l.head = 0
    <3>1. \A m \in 1 .. N : m # l.head
      BY SMT, <1>1, <2>1
    <3>2. old = l.nodes
      BY Zenon, <2>1
    <3> HIDE DEF old
    <3> QED BY <1>1, <3>1, <3>2
  <2>2. CASE l.head # 0
    <3>1. l.head \in 1 .. N /\ N + 1 \in Nat
      BY SMT, <1>1, <2>2
    <3>2. old = [l.nodes EXCEPT ![l.head].prev = N + 1]
      BY Zenon, <2>2
    <3> HIDE DEF old
    <3>3. PrevSet(l.nodes, l.head, N + 1, old)
      BY Zenon, <1>1, <3>1, <3>2, SetPrev
    <3> QED BY Zenon, <3>3 DEF PrevSet
  <2> QED BY Zenon, <2>1, <2>2
<1> HIDE DEF old
<1>7. /\ q \in Seq(Node) /\ Len(q) = N + 1 /\ q[N + 1] = node
      /\ \A m \in 1 .. N : q[m] = old[m]
  <2>1. Added(old, node, q)
    BY Zenon, <1>5, <1>6, AddNode
  <2> QED BY Zenon, <1>6, <2>1 DEF Added
<1> HIDE DEF q
<1>8. /\ h \in Nat /\ h <= Len(q) /\ N + 1 \in Nat /\ N + 1 <= Len(q) /\ l.length + 1 \in Int
  <2>1. h \in Nat /\ h <= N + 1
    BY SMT, <1>1
  <2>2. N + 1 \in Nat /\ N + 1 <= N + 1 /\ l.length + 1 \in Int
    BY SMT, <1>1
  <2> QED BY Zenon, <1>7, <2>1, <2>2
<1>9. \A m \in 1 .. Len(q) : q[m].next <= Len(q) /\ q[m].prev <= Len(q)
  <2> SUFFICES ASSUME NEW m \in 1 .. N + 1 PROVE q[m].next <= N + 1 /\ q[m].prev <= N + 1
    BY <1>7
  <2>1. CASE m = N + 1
    <3>1. q[m].next = l.head /\ q[m].prev = 0
      BY Zenon, <1>5, <1>7, <2>1
    <3> QED BY SMT, <1>1, <3>1
  <2>2. CASE m # N + 1
    <3>1. m \in 1 .. N
      BY SMT, <1>1, <2>2
    <3>2. q[m].next = l.nodes[m].next /\ q[m].prev = IF m = l.head THEN N + 1 ELSE l.nodes[m].prev
      BY <1>6, <1>7, <3>1
    <3>3. /\ l.nodes[m].next \in Nat /\ l.nodes[m].prev \in Nat
          /\ l.nodes[m].next <= N /\ l.nodes[m].prev <= N
      BY <1>2, <1>3, <3>1
    <3> QED BY SMT, <1>1, <3>2, <3>3
  <2> QED BY <2>1, <2>2
<1> HIDE DEF h, r
<1>10. Typed(r) /\ r.tail = h /\ r.head = N + 1 /\ r.length = l.length + 1 /\ r.nodes = q
  <2>1. Built(r, N + 1, h, l.length + 1, q)
    BY Zenon, <1>4, <1>7, <1>8, <1>9, MakeTyped
  <2> QED BY Zenon, <2>1 DEF Built
<1>11. \A m \in 1 .. N : /\ r.nodes[m].value = l.nodes[m].value
                         /\ r.nodes[m].next = l.nodes[m].next
                         /\ r.nodes[m].prev = (IF m = l.head THEN N + 1 ELSE l.nodes[m].prev)
  BY <1>6, <1>7, <1>10
<1> QED BY Zenon, <1>5, <1>7, <1>10, <1>11 DEF PushedFront, h, r

\* What popFront does, field by field: the list r that it makes.
PoppedFront(l, r) ==
  LET N == Len(l.nodes)
      h == l.nodes[l.head].next
  IN  /\ Typed(r) /\ Len(r.nodes) = N
      /\ r.head = h /\ r.tail = (IF h = 0 THEN 0 ELSE l.tail) /\ r.length = l.length - 1
      /\ \A m \in 1 .. N : /\ r.nodes[m].value = l.nodes[m].value
                           /\ r.nodes[m].next = l.nodes[m].next
                           /\ r.nodes[m].prev = (IF m = h THEN 0 ELSE l.nodes[m].prev)

\* It does that.
LEMMA PopFrontFields ==
  ASSUME NEW l, Typed(l), l.head # 0
  PROVE  PoppedFront(l, popFront(l))
<1> DEFINE N == Len(l.nodes)
           h == l.nodes[l.head].next
           t == IF h = 0 THEN 0 ELSE l.tail
           r == popFront(l)
           q == IF h = 0 THEN l.nodes ELSE [l.nodes EXCEPT ![h].prev = 0]
<1>1. /\ l.head \in Nat /\ l.tail \in Nat /\ l.length \in Int /\ l.nodes \in Seq(Node)
      /\ N \in Nat /\ l.head <= N /\ l.tail <= N
      /\ \A m \in 1 .. N : l.nodes[m] \in Node
  BY Zenon, Fields
<1>2. \A m \in 1 .. N : l.nodes[m].prev <= N /\ l.nodes[m].next <= N
  BY Zenon DEF Typed
<1>3. \A m \in 1 .. N : l.nodes[m].prev \in Nat /\ l.nodes[m].next \in Nat
  BY Zenon, <1>1, NodeFields
<1>4. r = [head |-> h, tail |-> t, length |-> l.length - 1, nodes |-> q]
  BY Zenon DEF popFront
<1>5. h \in Nat /\ h <= N
  <2>1. l.head \in 1 .. N
    BY SMT, <1>1
  <2> QED BY Zenon, <1>2, <1>3, <2>1
<1> HIDE DEF h
<1>6. t \in Nat /\ t <= N /\ l.length - 1 \in Int /\ 0 \in Nat
  BY SMT, <1>1
<1>7. /\ q \in Seq(Node) /\ Len(q) = N
      /\ \A m \in 1 .. N : /\ q[m].value = l.nodes[m].value /\ q[m].next = l.nodes[m].next
                           /\ q[m].prev = (IF m = h THEN 0 ELSE l.nodes[m].prev)
  <2>1. CASE h = 0
    <3>1. \A m \in 1 .. N : m # h
      BY SMT, <1>1, <2>1
    <3>2. q = l.nodes
      BY Zenon, <2>1
    <3> HIDE DEF q
    <3> QED BY <1>1, <3>1, <3>2
  <2>2. CASE h # 0
    <3>1. h \in 1 .. N
      BY SMT, <1>1, <1>5, <2>2
    <3>2. q = [l.nodes EXCEPT ![h].prev = 0]
      BY Zenon, <2>2
    <3> HIDE DEF q
    <3>3. PrevSet(l.nodes, h, 0, q)
      BY Zenon, <1>1, <1>6, <3>1, <3>2, SetPrev
    <3> QED BY Zenon, <3>3 DEF PrevSet
  <2> QED BY Zenon, <2>1, <2>2
<1> HIDE DEF q
<1>8. \A m \in 1 .. Len(q) : q[m].prev <= Len(q) /\ q[m].next <= Len(q)
  <2> SUFFICES ASSUME NEW m \in 1 .. N PROVE q[m].prev <= N /\ q[m].next <= N
    BY <1>7
  <2>1. q[m].next = l.nodes[m].next /\ q[m].prev = IF m = h THEN 0 ELSE l.nodes[m].prev
    BY <1>7
  <2>2. /\ l.nodes[m].prev \in Nat /\ l.nodes[m].next \in Nat
        /\ l.nodes[m].prev <= N /\ l.nodes[m].next <= N
    BY <1>2, <1>3
  <2> QED BY SMT, <1>1, <2>1, <2>2
<1> HIDE DEF t, r
<1>9. Typed(r) /\ r.head = h /\ r.tail = t /\ r.length = l.length - 1 /\ r.nodes = q
  <2>1. t <= Len(q) /\ h <= Len(q)
    BY Zenon, <1>5, <1>6, <1>7
  <2>2. Built(r, h, t, l.length - 1, q)
    BY Zenon, <1>4, <1>5, <1>6, <1>7, <1>8, <2>1, MakeTyped
  <2> QED BY Zenon, <2>2 DEF Built
<1>10. \A m \in 1 .. N : /\ r.nodes[m].value = l.nodes[m].value
                         /\ r.nodes[m].next = l.nodes[m].next
                         /\ r.nodes[m].prev = (IF m = h THEN 0 ELSE l.nodes[m].prev)
  BY <1>7, <1>9
<1> QED BY Zenon, <1>7, <1>9, <1>10 DEF PoppedFront, h, t, r

\* What popBack does, field by field: the list r that it makes.
PoppedBack(l, r) ==
  LET N == Len(l.nodes)
      h == l.nodes[l.tail].prev
  IN  /\ Typed(r) /\ Len(r.nodes) = N
      /\ r.tail = h /\ r.head = (IF h = 0 THEN 0 ELSE l.head) /\ r.length = l.length - 1
      /\ \A m \in 1 .. N : /\ r.nodes[m].value = l.nodes[m].value
                           /\ r.nodes[m].prev = l.nodes[m].prev
                           /\ r.nodes[m].next = (IF m = h THEN 0 ELSE l.nodes[m].next)

\* It does that.
LEMMA PopBackFields ==
  ASSUME NEW l, Typed(l), l.tail # 0
  PROVE  PoppedBack(l, popBack(l))
<1> DEFINE N == Len(l.nodes)
           h == l.nodes[l.tail].prev
           t == IF h = 0 THEN 0 ELSE l.head
           r == popBack(l)
           q == IF h = 0 THEN l.nodes ELSE [l.nodes EXCEPT ![h].next = 0]
<1>1. /\ l.tail \in Nat /\ l.head \in Nat /\ l.length \in Int /\ l.nodes \in Seq(Node)
      /\ N \in Nat /\ l.tail <= N /\ l.head <= N
      /\ \A m \in 1 .. N : l.nodes[m] \in Node
  BY Zenon, Fields
<1>2. \A m \in 1 .. N : l.nodes[m].next <= N /\ l.nodes[m].prev <= N
  BY Zenon DEF Typed
<1>3. \A m \in 1 .. N : l.nodes[m].next \in Nat /\ l.nodes[m].prev \in Nat
  BY Zenon, <1>1, NodeFields
<1>4. r = [head |-> t, tail |-> h, length |-> l.length - 1, nodes |-> q]
  BY Zenon DEF popBack
<1>5. h \in Nat /\ h <= N
  <2>1. l.tail \in 1 .. N
    BY SMT, <1>1
  <2> QED BY Zenon, <1>2, <1>3, <2>1
<1> HIDE DEF h
<1>6. t \in Nat /\ t <= N /\ l.length - 1 \in Int /\ 0 \in Nat
  BY SMT, <1>1
<1>7. /\ q \in Seq(Node) /\ Len(q) = N
      /\ \A m \in 1 .. N : /\ q[m].value = l.nodes[m].value /\ q[m].prev = l.nodes[m].prev
                           /\ q[m].next = (IF m = h THEN 0 ELSE l.nodes[m].next)
  <2>1. CASE h = 0
    <3>1. \A m \in 1 .. N : m # h
      BY SMT, <1>1, <2>1
    <3>2. q = l.nodes
      BY Zenon, <2>1
    <3> HIDE DEF q
    <3> QED BY <1>1, <3>1, <3>2
  <2>2. CASE h # 0
    <3>1. h \in 1 .. N
      BY SMT, <1>1, <1>5, <2>2
    <3>2. q = [l.nodes EXCEPT ![h].next = 0]
      BY Zenon, <2>2
    <3> HIDE DEF q
    <3>3. NextSet(l.nodes, h, 0, q)
      BY Zenon, <1>1, <1>6, <3>1, <3>2, SetNext
    <3> QED BY Zenon, <3>3 DEF NextSet
  <2> QED BY Zenon, <2>1, <2>2
<1> HIDE DEF q
<1>8. \A m \in 1 .. Len(q) : q[m].next <= Len(q) /\ q[m].prev <= Len(q)
  <2> SUFFICES ASSUME NEW m \in 1 .. N PROVE q[m].next <= N /\ q[m].prev <= N
    BY <1>7
  <2>1. q[m].prev = l.nodes[m].prev /\ q[m].next = IF m = h THEN 0 ELSE l.nodes[m].next
    BY <1>7
  <2>2. /\ l.nodes[m].next \in Nat /\ l.nodes[m].prev \in Nat
        /\ l.nodes[m].next <= N /\ l.nodes[m].prev <= N
    BY <1>2, <1>3
  <2> QED BY SMT, <1>1, <2>1, <2>2
<1> HIDE DEF t, r
<1>9. Typed(r) /\ r.tail = h /\ r.head = t /\ r.length = l.length - 1 /\ r.nodes = q
  <2>1. t <= Len(q) /\ h <= Len(q)
    BY Zenon, <1>5, <1>6, <1>7
  <2>2. Built(r, t, h, l.length - 1, q)
    BY Zenon, <1>4, <1>5, <1>6, <1>7, <1>8, <2>1, MakeTyped
  <2> QED BY Zenon, <2>2 DEF Built
<1>10. \A m \in 1 .. N : /\ r.nodes[m].value = l.nodes[m].value
                         /\ r.nodes[m].prev = l.nodes[m].prev
                         /\ r.nodes[m].next = (IF m = h THEN 0 ELSE l.nodes[m].next)
  BY <1>7, <1>9
<1> QED BY Zenon, <1>7, <1>9, <1>10 DEF PoppedBack, h, t, r

-----------------------------------------------------------------------------
(* Each operation of the linked list changes what it holds as it should. *)

\* The numbers of a chain.
LEMMA ChainNumbers ==
  ASSUME NEW l, NEW s, NEW ids, Typed(l), s \in Seq(Elements), Chain(l, ids, s)
  PROVE  /\ Len(s) \in Nat /\ Len(l.nodes) \in Nat /\ Len(s) <= Len(l.nodes)
         /\ l.length = Len(s)
<1>1. Len(s) \in Nat
  BY SMT
<1>2. Len(l.nodes) \in Nat
  BY Zenon, Fields
<1> QED BY Zenon, <1>1, <1>2 DEF Chain

\* Its nodes are nodes of the list.
LEMMA ChainNodes ==
  ASSUME NEW l, NEW s, NEW ids, Typed(l), s \in Seq(Elements), Chain(l, ids, s)
  PROVE  \A i \in 1 .. Len(s) : ids[i] \in 1 .. Len(l.nodes)
<1> DEFINE k == Len(s)
           N == Len(l.nodes)
<1>1. k \in Nat /\ N \in Nat
  BY Zenon, ChainNumbers
<1>2. ids \in [0 .. k + 1 -> 0 .. N] /\ \A i \in 1 .. k : ids[i] # 0
  BY Zenon DEF Chain
<1> HIDE DEF k, N
<1> SUFFICES ASSUME NEW i \in 1 .. k PROVE ids[i] \in 1 .. N
  BY Zenon DEF k, N
<1>3. i \in 0 .. k + 1
  BY SMT, <1>1
<1>4. ids[i] \in 0 .. N /\ ids[i] # 0
  BY Zenon, <1>2, <1>3
<1> QED BY SMT, <1>1, <1>4

\* pushBack adds its element after the others.
LEMMA PushBackHolds ==
  ASSUME NEW l, NEW s, Holds(l, s), NEW e \in Elements
  PROVE  Holds(pushBack(l, e), Append(s, e))
<1>1. Typed(l) /\ s \in Seq(Elements)
  BY DEF Holds
<1>2. PICK ids : Chain(l, ids, s)
  BY DEF Holds
<1> DEFINE k == Len(s)
           N == Len(l.nodes)
           r == pushBack(l, e)
           t == Append(s, e)
           new == [i \in 0 .. k + 2 |-> IF i = k + 1 THEN N + 1 ELSE IF i = k + 2 THEN 0 ELSE ids[i]]
<1>3. k \in Nat /\ N \in Nat /\ k <= N /\ l.length = k
  BY Zenon, <1>1, <1>2, ChainNumbers
<1>4. ids \in [0 .. k + 1 -> 0 .. N] /\ ids[0] = 0 /\ l.head = ids[1] /\ l.tail = ids[k]
  BY Zenon, <1>2 DEF Chain
<1>5. \A i \in 1 .. k : ids[i] \in 1 .. N
  BY Zenon, <1>1, <1>2, ChainNodes
<1>6. \A i, j \in 1 .. k : ids[i] = ids[j] => i = j
  BY Zenon, <1>2 DEF Chain
<1>7. \A i \in 1 .. k : /\ l.nodes[ids[i]].value = s[i]
                        /\ l.nodes[ids[i]].prev = ids[i - 1]
                        /\ l.nodes[ids[i]].next = ids[i + 1]
  BY Zenon, <1>2 DEF Chain
<1>8. PushedBack(l, e, r)
  BY Zenon, <1>1, PushBackFields
<1>9. t \in Seq(Elements) /\ Len(t) = k + 1 /\ t[k + 1] = e /\ \A i \in 1 .. k : t[i] = s[i]
  BY SMT, <1>1
<1> HIDE DEF k, N, r, t
<1>10. Typed(r) /\ Len(r.nodes) = N + 1
  BY Zenon, <1>8 DEF PushedBack, N
<1>11. r.head = (IF ids[k] = 0 THEN N + 1 ELSE ids[1]) /\ r.tail = N + 1 /\ r.length = k + 1
  BY Zenon, <1>3, <1>4, <1>8 DEF PushedBack, N
<1>12. r.nodes[N + 1].value = e /\ r.nodes[N + 1].prev = ids[k] /\ r.nodes[N + 1].next = 0
  BY Zenon, <1>4, <1>8 DEF PushedBack, N
<1>13. ASSUME NEW i \in 1 .. k
       PROVE  /\ r.nodes[ids[i]].value = s[i]
              /\ r.nodes[ids[i]].prev = ids[i - 1]
              /\ r.nodes[ids[i]].next = (IF ids[i] = ids[k] THEN N + 1 ELSE ids[i + 1])
  <2>1. \A m \in 1 .. N : /\ r.nodes[m].value = l.nodes[m].value
                          /\ r.nodes[m].prev = l.nodes[m].prev
                          /\ r.nodes[m].next = (IF m = ids[k] THEN N + 1 ELSE l.nodes[m].next)
    BY Zenon, <1>4, <1>8 DEF PushedBack, N
  <2>2. ids[i] \in 1 .. N
    BY Zenon, <1>5
  <2>3. /\ r.nodes[ids[i]].value = l.nodes[ids[i]].value
        /\ r.nodes[ids[i]].prev = l.nodes[ids[i]].prev
        /\ r.nodes[ids[i]].next = (IF ids[i] = ids[k] THEN N + 1 ELSE l.nodes[ids[i]].next)
    BY Zenon, <2>1, <2>2
  <2>4. /\ l.nodes[ids[i]].value = s[i]
        /\ l.nodes[ids[i]].prev = ids[i - 1]
        /\ l.nodes[ids[i]].next = ids[i + 1]
    BY Zenon, <1>7
  <2> QED BY Zenon, <2>3, <2>4
<1>14. /\ \A i \in 0 .. k : i \in 0 .. k + 1 /\ i \in 0 .. k + 2 /\ i # k + 1 /\ i # k + 2
       /\ k + 1 \in 0 .. k + 2 /\ k + 2 \in 0 .. k + 2 /\ k + 1 # k + 2 /\ 0 \in 0 .. k
       /\ \A i \in 0 .. k + 2 : i = k + 1 \/ i = k + 2 \/ i \in 0 .. k
  BY SMT, <1>3
<1>15. new[k + 1] = N + 1 /\ new[k + 2] = 0 /\ \A i \in 0 .. k : new[i] = ids[i]
  BY Zenon, <1>14
<1>16. new[0] = 0 /\ new \in [0 .. k + 2 -> 0 .. N + 1]
  <2>1. \A i \in 0 .. k : ids[i] \in 0 .. N
    BY Zenon, <1>4, <1>14
  <2>2. N + 1 \in 0 .. N + 1 /\ 0 \in 0 .. N + 1 /\ \A x \in 0 .. N : x \in 0 .. N + 1
    BY SMT, <1>3
  <2>3. \A i \in 0 .. k + 2 : new[i] \in 0 .. N + 1
    BY Zenon, <1>14, <1>15, <2>1, <2>2
  <2>4. new \in [0 .. k + 2 -> 0 .. N + 1]
    BY Zenon, <2>3
  <2> QED BY Zenon, <1>4, <1>14, <1>15, <2>4
<1> HIDE DEF new
<1>17. \A i \in 1 .. k + 1 : i = k + 1 \/ i \in 1 .. k
  BY SMT, <1>3
<1>18. \A i \in 1 .. k : i \in 0 .. k /\ i - 1 \in 0 .. k
  BY SMT, <1>3
<1>19. \A i \in 1 .. k : new[i] = ids[i] /\ new[i] \in 1 .. N
  BY Zenon, <1>5, <1>15, <1>18
<1>20. N + 1 # 0 /\ \A x \in 1 .. N : x # 0 /\ x # N + 1
  BY SMT, <1>3
<1>21. \A i \in 1 .. k + 1 : new[i] # 0
  BY Zenon, <1>15, <1>17, <1>19, <1>20
<1>22. \A i, j \in 1 .. k + 1 : new[i] = new[j] => i = j
  BY Zenon, <1>6, <1>15, <1>17, <1>19, <1>20
<1>23. r.head = new[1] /\ k + 1 <= N + 1
  <2>1. CASE k = 0
    <3>1. k + 1 = 1 /\ k + 1 <= N + 1
      BY SMT, <1>3, <2>1
    <3>2. r.head = N + 1
      BY Zenon, <1>4, <1>11, <2>1
    <3> QED BY Zenon, <1>15, <3>1, <3>2
  <2>2. CASE k # 0
    <3>1. k \in 1 .. k /\ 1 \in 1 .. k /\ k + 1 <= N + 1
      BY SMT, <1>3, <2>2
    <3>2. ids[k] # 0
      BY Zenon, <1>5, <1>20, <3>1
    <3> QED BY Zenon, <1>11, <1>19, <3>1, <3>2
  <2> QED BY Zenon, <2>1, <2>2
<1>24. ASSUME NEW i \in 1 .. k + 1
       PROVE  /\ r.nodes[new[i]].value = t[i]
              /\ r.nodes[new[i]].prev = new[i - 1]
              /\ r.nodes[new[i]].next = new[i + 1]
  <2>1. CASE i = k + 1
    <3>1. i - 1 = k /\ i + 1 = k + 2 /\ k \in 0 .. k
      BY SMT, <1>3, <2>1
    <3>2. new[i] = N + 1 /\ new[i - 1] = ids[k] /\ new[i + 1] = 0 /\ t[i] = e
      BY Zenon, <1>9, <1>15, <2>1, <3>1
    <3> QED BY Zenon, <1>12, <3>2
  <2>2. CASE i \in 1 .. k
    <3>1. new[i] = ids[i] /\ new[i - 1] = ids[i - 1] /\ t[i] = s[i]
      BY Zenon, <1>9, <1>15, <1>18, <2>2
    <3>2. new[i + 1] = (IF ids[i] = ids[k] THEN N + 1 ELSE ids[i + 1])
      <4>1. k \in 1 .. k
        BY SMT, <1>3, <2>2
      <4>2. CASE i = k
        BY Zenon, <1>15, <4>2
      <4>3. CASE i # k
        <5>1. i + 1 \in 0 .. k
          BY SMT, <1>3, <2>2, <4>3
        <5>2. ids[i] # ids[k]
          BY Zenon, <1>6, <2>2, <4>1, <4>3
        <5> QED BY Zenon, <1>15, <5>1, <5>2
      <4> QED BY Zenon, <4>2, <4>3
    <3> QED BY Zenon, <1>13, <2>2, <3>1, <3>2
  <2> QED BY Zenon, <1>17, <2>1, <2>2
<1>25. Chain(r, new, t)
  <2>1. (k + 1) + 1 = k + 2
    BY SMT, <1>3
  <2> QED BY Zenon, <1>9, <1>10, <1>11, <1>15, <1>16, <1>21, <1>22, <1>23, <1>24, <2>1 DEF Chain
<1> QED BY Zenon, <1>9, <1>10, <1>25 DEF Holds, r, t

\* pushFront adds its element before the others.
LEMMA PushFrontHolds ==
  ASSUME NEW l, NEW s, Holds(l, s), NEW e \in Elements
  PROVE  Holds(pushFront(l, e), <<e>> \o s)
<1>1. Typed(l) /\ s \in Seq(Elements)
  BY DEF Holds
<1>2. PICK ids : Chain(l, ids, s)
  BY DEF Holds
<1> DEFINE k == Len(s)
           N == Len(l.nodes)
           r == pushFront(l, e)
           t == <<e>> \o s
           new == [i \in 0 .. k + 2 |-> IF i = 0 THEN 0 ELSE IF i = 1 THEN N + 1 ELSE ids[i - 1]]
<1>3. k \in Nat /\ N \in Nat /\ k <= N /\ l.length = k
  BY Zenon, <1>1, <1>2, ChainNumbers
<1>4. ids \in [0 .. k + 1 -> 0 .. N] /\ ids[k + 1] = 0 /\ l.head = ids[1] /\ l.tail = ids[k]
  BY Zenon, <1>2 DEF Chain
<1>5. \A i \in 1 .. k : ids[i] \in 1 .. N
  BY Zenon, <1>1, <1>2, ChainNodes
<1>6. \A i, j \in 1 .. k : ids[i] = ids[j] => i = j
  BY Zenon, <1>2 DEF Chain
<1>7. \A i \in 1 .. k : /\ l.nodes[ids[i]].value = s[i]
                        /\ l.nodes[ids[i]].prev = ids[i - 1]
                        /\ l.nodes[ids[i]].next = ids[i + 1]
  BY Zenon, <1>2 DEF Chain
<1>8. PushedFront(l, e, r)
  BY Zenon, <1>1, PushFrontFields
<1>9. t \in Seq(Elements) /\ Len(t) = k + 1 /\ t[1] = e /\ \A i \in 1 .. k : t[i + 1] = s[i]
  BY SMT, <1>1
<1> HIDE DEF k, N, r, t
<1>10. Typed(r) /\ Len(r.nodes) = N + 1
  BY Zenon, <1>8 DEF PushedFront, N
<1>11. r.tail = (IF ids[1] = 0 THEN N + 1 ELSE ids[k]) /\ r.head = N + 1 /\ r.length = k + 1
  BY Zenon, <1>3, <1>4, <1>8 DEF PushedFront, N
<1>12. r.nodes[N + 1].value = e /\ r.nodes[N + 1].next = ids[1] /\ r.nodes[N + 1].prev = 0
  BY Zenon, <1>4, <1>8 DEF PushedFront, N
<1>13. ASSUME NEW i \in 1 .. k
       PROVE  /\ r.nodes[ids[i]].value = s[i]
              /\ r.nodes[ids[i]].next = ids[i + 1]
              /\ r.nodes[ids[i]].prev = (IF ids[i] = ids[1] THEN N + 1 ELSE ids[i - 1])
  <2>1. \A m \in 1 .. N : /\ r.nodes[m].value = l.nodes[m].value
                          /\ r.nodes[m].next = l.nodes[m].next
                          /\ r.nodes[m].prev = (IF m = ids[1] THEN N + 1 ELSE l.nodes[m].prev)
    BY Zenon, <1>4, <1>8 DEF PushedFront, N
  <2>2. ids[i] \in 1 .. N
    BY Zenon, <1>5
  <2>3. /\ r.nodes[ids[i]].value = l.nodes[ids[i]].value
        /\ r.nodes[ids[i]].next = l.nodes[ids[i]].next
        /\ r.nodes[ids[i]].prev = (IF ids[i] = ids[1] THEN N + 1 ELSE l.nodes[ids[i]].prev)
    BY Zenon, <2>1, <2>2
  <2>4. /\ l.nodes[ids[i]].value = s[i]
        /\ l.nodes[ids[i]].prev = ids[i - 1]
        /\ l.nodes[ids[i]].next = ids[i + 1]
    BY Zenon, <1>7
  <2> QED BY Zenon, <2>3, <2>4
<1>14. /\ \A i \in 1 .. k + 1 : /\ i \in 0 .. k + 1 /\ i + 1 \in 0 .. k + 2 /\ i + 1 # 0
                                /\ i + 1 # 1 /\ (i + 1) - 1 = i
       /\ 0 \in 0 .. k + 2 /\ 1 \in 0 .. k + 2 /\ 1 # 0
       /\ \A i \in 0 .. k + 2 : i = 0 \/ i = 1 \/ (i - 1 \in 1 .. k + 1 /\ i = (i - 1) + 1)
  BY SMT, <1>3
<1>15. new[0] = 0 /\ new[1] = N + 1 /\ \A i \in 1 .. k + 1 : new[i + 1] = ids[i]
  BY Zenon, <1>14
<1>16. new[k + 2] = 0 /\ new \in [0 .. k + 2 -> 0 .. N + 1]
  <2>1. \A i \in 1 .. k + 1 : ids[i] \in 0 .. N
    BY Zenon, <1>4, <1>14
  <2>2. N + 1 \in 0 .. N + 1 /\ 0 \in 0 .. N + 1 /\ \A x \in 0 .. N : x \in 0 .. N + 1
    BY SMT, <1>3
  <2>3. ASSUME NEW i \in 0 .. k + 2 PROVE new[i] \in 0 .. N + 1
    <3>1. CASE i = 0 \/ i = 1
      BY Zenon, <1>15, <2>2, <3>1
    <3>2. CASE i - 1 \in 1 .. k + 1 /\ i = (i - 1) + 1
      <4>1. new[(i - 1) + 1] = ids[i - 1] /\ ids[i - 1] \in 0 .. N
        BY Zenon, <1>15, <2>1, <3>2
      <4>2. new[i] = ids[i - 1]
        BY Zenon, <3>2, <4>1
      <4> HIDE DEF new
      <4> QED BY Zenon, <2>2, <4>1, <4>2
    <3> QED BY Zenon, <1>14, <3>1, <3>2
  <2>4. new \in [0 .. k + 2 -> 0 .. N + 1]
    BY Zenon, <2>3
  <2>5. k + 1 \in 1 .. k + 1 /\ (k + 1) + 1 = k + 2
    BY SMT, <1>3
  <2>6. new[(k + 1) + 1] = ids[k + 1]
    BY Zenon, <1>15, <2>5
  <2> HIDE DEF new
  <2> QED BY Zenon, <1>4, <2>4, <2>5, <2>6
<1> HIDE DEF new
<1>17. ASSUME NEW i \in 1 .. k + 1
       PROVE  i = 1 \/ \E j \in 1 .. k : i = j + 1
  <2>1. CASE i # 1
    <3>1. i - 1 \in 1 .. k /\ i = (i - 1) + 1
      BY SMT, <1>3, <2>1
    <3> QED BY Zenon, <3>1
  <2> QED BY Zenon, <2>1
<1>18. \A j \in 1 .. k : j \in 1 .. k + 1
  BY SMT, <1>3
<1>19. \A j \in 1 .. k : new[j + 1] = ids[j] /\ new[j + 1] \in 1 .. N
  BY Zenon, <1>5, <1>15, <1>18
<1>20. N + 1 # 0 /\ \A x \in 1 .. N : x # 0 /\ x # N + 1
  BY SMT, <1>3
<1>21. \A i \in 1 .. k + 1 : new[i] # 0
  BY Zenon, <1>15, <1>17, <1>19, <1>20
<1>22. \A i, j \in 1 .. k + 1 : new[i] = new[j] => i = j
  <2> SUFFICES ASSUME NEW i \in 1 .. k + 1, NEW j \in 1 .. k + 1, new[i] = new[j] PROVE i = j
    BY Zenon
  <2>1. CASE i = 1
    BY Zenon, <1>15, <1>17, <1>19, <1>20, <2>1
  <2>2. CASE j = 1
    BY Zenon, <1>15, <1>17, <1>19, <1>20, <2>2
  <2>3. CASE i # 1 /\ j # 1
    <3>1. PICK a \in 1 .. k : i = a + 1
      BY Zenon, <1>17, <2>3
    <3>2. PICK b \in 1 .. k : j = b + 1
      BY Zenon, <1>17, <2>3
    <3>3. ids[a] = ids[b]
      BY Zenon, <1>19, <3>1, <3>2
    <3> QED BY Zenon, <1>6, <3>1, <3>2, <3>3
  <2> QED BY Zenon, <2>1, <2>2, <2>3
<1>23. r.tail = new[k + 1] /\ k + 1 <= N + 1
  <2>1. CASE k = 0
    <3>1. k + 1 = 1 /\ k + 1 <= N + 1
      BY SMT, <1>3, <2>1
    <3>2. r.tail = N + 1
      BY Zenon, <1>4, <1>11, <3>1
    <3> QED BY Zenon, <1>15, <3>1, <3>2
  <2>2. CASE k # 0
    <3>1. k \in 1 .. k /\ 1 \in 1 .. k /\ k + 1 <= N + 1
      BY SMT, <1>3, <2>2
    <3>2. ids[1] # 0
      BY Zenon, <1>5, <1>20, <3>1
    <3> QED BY Zenon, <1>11, <1>19, <3>1, <3>2
  <2> QED BY Zenon, <2>1, <2>2
<1>24. ASSUME NEW i \in 1 .. k + 1
       PROVE  /\ r.nodes[new[i]].value = t[i]
              /\ r.nodes[new[i]].prev = new[i - 1]
              /\ r.nodes[new[i]].next = new[i + 1]
  <2>1. CASE i = 1
    <3>1. i - 1 = 0 /\ 1 \in 1 .. k + 1
      BY SMT, <1>3, <2>1
    <3>2. new[i] = N + 1 /\ new[i - 1] = 0 /\ new[i + 1] = ids[1] /\ t[i] = e
      BY Zenon, <1>9, <1>15, <2>1, <3>1
    <3> QED BY Zenon, <1>12, <3>2
  <2>2. ASSUME NEW j \in 1 .. k, i = j + 1
        PROVE  /\ r.nodes[new[i]].value = t[i]
               /\ r.nodes[new[i]].prev = new[i - 1]
               /\ r.nodes[new[i]].next = new[i + 1]
    <3>1. i - 1 = j /\ j + 1 \in 1 .. k + 1
      BY SMT, <1>3, <2>2
    <3>2. new[i] = ids[j] /\ new[i + 1] = ids[j + 1] /\ t[i] = s[j]
      BY Zenon, <1>9, <1>15, <1>19, <2>2, <3>1
    <3>3. new[j] = (IF ids[j] = ids[1] THEN N + 1 ELSE ids[j - 1])
      <4>1. 1 \in 1 .. k
        BY SMT, <1>3
      <4>2. CASE j = 1
        BY Zenon, <1>15, <4>2
      <4>3. CASE j # 1
        <5>1. j - 1 \in 1 .. k + 1 /\ (j - 1) + 1 = j
          BY SMT, <1>3, <4>3
        <5>2. new[(j - 1) + 1] = ids[j - 1]
          BY Zenon, <1>15, <5>1
        <5>3. ids[j] # ids[1]
          BY Zenon, <1>6, <4>1, <4>3
        <5> QED BY Zenon, <5>1, <5>2, <5>3
      <4> QED BY Zenon, <4>2, <4>3
    <3>4. /\ r.nodes[ids[j]].value = s[j]
          /\ r.nodes[ids[j]].next = ids[j + 1]
          /\ r.nodes[ids[j]].prev = (IF ids[j] = ids[1] THEN N + 1 ELSE ids[j - 1])
      BY Zenon, <1>13
    <3> QED BY Zenon, <3>1, <3>2, <3>3, <3>4
  <2> QED BY Zenon, <1>17, <2>1, <2>2
<1>25. Chain(r, new, t)
  <2>1. (k + 1) + 1 = k + 2
    BY SMT, <1>3
  <2> QED BY Zenon, <1>9, <1>10, <1>11, <1>15, <1>16, <1>21, <1>22, <1>23, <1>24, <2>1 DEF Chain
<1> QED BY Zenon, <1>9, <1>10, <1>25 DEF Holds, r, t

\* popFront removes the first element, and there is one if there is a head.
LEMMA PopFrontHolds ==
  ASSUME NEW l, NEW s, Holds(l, s), l.head # 0
  PROVE  /\ Len(s) >= 1 /\ l.nodes[l.head].value = s[1]
         /\ Holds(popFront(l), Tail(s))
<1>1. Typed(l) /\ s \in Seq(Elements)
  BY DEF Holds
<1>2. PICK ids : Chain(l, ids, s)
  BY DEF Holds
<1> DEFINE k == Len(s)
           N == Len(l.nodes)
           r == popFront(l)
           t == Tail(s)
           new == [i \in 0 .. k |-> IF i = 0 THEN 0 ELSE ids[i + 1]]
<1>3. k \in Nat /\ N \in Nat /\ k <= N /\ l.length = k
  BY Zenon, <1>1, <1>2, ChainNumbers
<1>4. ids \in [0 .. k + 1 -> 0 .. N] /\ ids[k + 1] = 0 /\ l.head = ids[1] /\ l.tail = ids[k]
  BY Zenon, <1>2 DEF Chain
<1>5. \A i \in 1 .. k : ids[i] \in 1 .. N
  BY Zenon, <1>1, <1>2, ChainNodes
<1>6. \A i, j \in 1 .. k : ids[i] = ids[j] => i = j
  BY Zenon, <1>2 DEF Chain
<1>7. \A i \in 1 .. k : /\ l.nodes[ids[i]].value = s[i]
                        /\ l.nodes[ids[i]].prev = ids[i - 1]
                        /\ l.nodes[ids[i]].next = ids[i + 1]
  BY Zenon, <1>2 DEF Chain
<1>8. PoppedFront(l, r)
  BY Zenon, <1>1, PopFrontFields
<1>9. k >= 1 /\ 1 \in 1 .. k /\ 1 + 1 = 2 /\ k \in 1 .. k
  <2>1. CASE k = 0
    <3>1. k + 1 = 1
      BY SMT, <2>1
    <3> QED BY Zenon, <1>4, <3>1
  <2>2. CASE k # 0
    BY SMT, <1>3, <2>2
  <2> QED BY Zenon, <2>1, <2>2
<1>10. l.nodes[l.head].value = s[1] /\ l.nodes[l.head].next = ids[2]
  BY Zenon, <1>4, <1>7, <1>9
<1>11. t \in Seq(Elements) /\ Len(t) = k - 1 /\ \A i \in 1 .. k - 1 : t[i] = s[i + 1]
  BY SMT, <1>1, <1>9
<1> HIDE DEF k, N, r, t
<1>12. Typed(r) /\ Len(r.nodes) = N
  BY Zenon, <1>8 DEF PoppedFront, N
<1>13. r.head = ids[2] /\ r.tail = (IF ids[2] = 0 THEN 0 ELSE ids[k]) /\ r.length = k - 1
  BY Zenon, <1>3, <1>4, <1>8, <1>10 DEF PoppedFront, N
<1>14. ASSUME NEW i \in 1 .. k
       PROVE  /\ r.nodes[ids[i]].value = s[i]
              /\ r.nodes[ids[i]].next = ids[i + 1]
              /\ r.nodes[ids[i]].prev = (IF ids[i] = ids[2] THEN 0 ELSE ids[i - 1])
  <2>1. \A m \in 1 .. N : /\ r.nodes[m].value = l.nodes[m].value
                          /\ r.nodes[m].next = l.nodes[m].next
                          /\ r.nodes[m].prev = (IF m = ids[2] THEN 0 ELSE l.nodes[m].prev)
    BY Zenon, <1>8, <1>10 DEF PoppedFront, N
  <2>2. ids[i] \in 1 .. N
    BY Zenon, <1>5
  <2>3. /\ r.nodes[ids[i]].value = l.nodes[ids[i]].value
        /\ r.nodes[ids[i]].next = l.nodes[ids[i]].next
        /\ r.nodes[ids[i]].prev = (IF ids[i] = ids[2] THEN 0 ELSE l.nodes[ids[i]].prev)
    BY Zenon, <2>1, <2>2
  <2>4. /\ l.nodes[ids[i]].value = s[i]
        /\ l.nodes[ids[i]].prev = ids[i - 1]
        /\ l.nodes[ids[i]].next = ids[i + 1]
    BY Zenon, <1>7
  <2> QED BY Zenon, <2>3, <2>4
<1>15. /\ \A i \in 1 .. k : i \in 0 .. k /\ i # 0 /\ i + 1 \in 0 .. k + 1
       /\ \A i \in 0 .. k : i = 0 \/ i \in 1 .. k
       /\ 0 \in 0 .. k /\ 0 \in 0 .. N
  BY SMT, <1>3
<1>16. new[0] = 0 /\ \A i \in 1 .. k : new[i] = ids[i + 1]
  BY Zenon, <1>15
<1>17. new[k] = 0 /\ new \in [0 .. k -> 0 .. N]
  <2>1. \A i \in 1 .. k : ids[i + 1] \in 0 .. N
    BY Zenon, <1>4, <1>15
  <2>2. \A i \in 0 .. k : new[i] \in 0 .. N
    BY Zenon, <1>15, <1>16, <2>1
  <2>3. new \in [0 .. k -> 0 .. N]
    BY Zenon, <2>2
  <2> QED BY Zenon, <1>4, <1>9, <1>16, <2>3
<1> HIDE DEF new
<1>18. \A i \in 1 .. k - 1 : i \in 1 .. k /\ i + 1 \in 1 .. k /\ (i + 1) - 1 = i
  BY SMT, <1>3
<1>19. \A i \in 1 .. k - 1 : new[i] = ids[i + 1] /\ new[i] \in 1 .. N
  BY Zenon, <1>5, <1>16, <1>18
<1>20. \A i \in 1 .. k - 1 : new[i] # 0
  <2>1. \A x \in 1 .. N : x # 0
    BY SMT, <1>3
  <2> QED BY Zenon, <1>19, <2>1
<1>21. \A i, j \in 1 .. k - 1 : new[i] = new[j] => i = j
  <2> SUFFICES ASSUME NEW i \in 1 .. k - 1, NEW j \in 1 .. k - 1, new[i] = new[j] PROVE i = j
    BY Zenon
  <2>1. i + 1 = j + 1
    BY Zenon, <1>6, <1>18, <1>19
  <2>2. i \in Int /\ j \in Int
    BY SMT
  <2> QED BY SMT, <2>1, <2>2
<1>22. r.head = new[1] /\ r.tail = new[k - 1] /\ k - 1 <= N
  <2>1. r.head = new[1]
    BY Zenon, <1>9, <1>13, <1>16
  <2>2. CASE k = 1
    <3>1. k - 1 = 0 /\ 2 = k + 1 /\ k - 1 <= N
      BY SMT, <1>3, <2>2
    <3> QED BY Zenon, <1>4, <1>13, <1>16, <2>1, <3>1
  <2>3. CASE k # 1
    <3>1. 1 \in 1 .. k - 1 /\ k - 1 \in 1 .. k /\ (k - 1) + 1 = k /\ k - 1 <= N
      BY SMT, <1>3, <1>9, <2>3
    <3>2. ids[2] # 0
      BY Zenon, <1>9, <1>19, <1>20, <3>1
    <3>3. new[k - 1] = ids[k]
      BY Zenon, <1>16, <3>1
    <3> QED BY Zenon, <1>13, <2>1, <3>1, <3>2, <3>3
  <2> QED BY Zenon, <2>2, <2>3
<1>23. ASSUME NEW i \in 1 .. k - 1
       PROVE  /\ r.nodes[new[i]].value = t[i]
              /\ r.nodes[new[i]].prev = new[i - 1]
              /\ r.nodes[new[i]].next = new[i + 1]
  <2>1. i + 1 \in 1 .. k /\ (i + 1) - 1 = i
    BY Zenon, <1>18
  <2>2. new[i] = ids[i + 1] /\ new[i + 1] = ids[(i + 1) + 1] /\ t[i] = s[i + 1]
    BY Zenon, <1>11, <1>16, <1>19, <2>1
  <2>3. new[i - 1] = (IF ids[i + 1] = ids[2] THEN 0 ELSE ids[i])
    <3>1. CASE i = 1
      <4>1. i - 1 = 0 /\ i + 1 = 2
        BY SMT, <3>1
      <4> QED BY Zenon, <1>16, <4>1
    <3>2. CASE i # 1
      <4>1. i - 1 \in 1 .. k /\ (i - 1) + 1 = i /\ 2 \in 1 .. k /\ i + 1 # 2
        BY SMT, <1>3, <3>2
      <4>2. new[i - 1] = ids[i]
        BY Zenon, <1>16, <4>1
      <4>3. ids[i + 1] # ids[2]
        BY Zenon, <1>6, <2>1, <4>1
      <4> QED BY Zenon, <4>2, <4>3
    <3> QED BY Zenon, <3>1, <3>2
  <2>4. /\ r.nodes[ids[i + 1]].value = s[i + 1]
        /\ r.nodes[ids[i + 1]].next = ids[(i + 1) + 1]
        /\ r.nodes[ids[i + 1]].prev = (IF ids[i + 1] = ids[2] THEN 0 ELSE ids[(i + 1) - 1])
    BY Zenon, <1>14, <2>1
  <2> QED BY Zenon, <2>1, <2>2, <2>3, <2>4
<1>24. Chain(r, new, t)
  <2>1. (k - 1) + 1 = k
    BY SMT, <1>3
  <2>2. /\ new \in [0 .. Len(t) + 1 -> 0 .. Len(r.nodes)]
        /\ new[0] = 0 /\ new[Len(t) + 1] = 0
    BY Zenon, <1>11, <1>12, <1>16, <1>17, <2>1
  <2>3. /\ \A i \in 1 .. Len(t) : new[i] # 0
        /\ \A i, j \in 1 .. Len(t) : new[i] = new[j] => i = j
    BY Zenon, <1>11, <1>20, <1>21
  <2>4. /\ r.head = new[1] /\ r.tail = new[Len(t)]
        /\ r.length = Len(t) /\ Len(t) <= Len(r.nodes)
    BY Zenon, <1>11, <1>12, <1>13, <1>22
  <2>5. \A i \in 1 .. Len(t) : /\ r.nodes[new[i]].value = t[i]
                               /\ r.nodes[new[i]].prev = new[i - 1]
                               /\ r.nodes[new[i]].next = new[i + 1]
    BY Zenon, <1>11, <1>23
  <2> QED BY Zenon, <2>2, <2>3, <2>4, <2>5 DEF Chain
<1> QED BY Zenon, <1>9, <1>10, <1>11, <1>12, <1>24 DEF Holds, k, r, t

\* All elements but the last.
LEMMA FrontPart ==
  ASSUME NEW s \in Seq(Elements), Len(s) >= 1
  PROVE  /\ SubSeq(s, 1, Len(s) - 1) \in Seq(Elements)
         /\ Len(SubSeq(s, 1, Len(s) - 1)) = Len(s) - 1
         /\ \A i \in 1 .. Len(s) - 1 : SubSeq(s, 1, Len(s) - 1)[i] = s[i]
<1>1. Len(s) \in Nat
  BY SMT
<1>2. \A i \in 1 .. Len(s) - 1 : s[i] \in Elements
  BY SMT
<1>3. 1 \in Int /\ Len(s) - 1 \in Int /\ Len(s) - 1 \in Nat
  BY SMT, <1>1
<1>4. SubSeq(s, 1, Len(s) - 1) = [i \in 1 .. Len(s) - 1 |-> s[i]]
  BY SMT, <1>1
<1> DEFINE n == Len(s) - 1
<1>5. \A q : q = [i \in 1 .. n |-> s[i]] =>
           q \in Seq(Elements) /\ Len(q) = n /\ \A i \in 1 .. n : q[i] = s[i]
  <2>1. n \in Nat
    BY <1>3
  <2> HIDE DEF n
  <2> QED BY SMT, <1>2, <2>1 DEF n
<1> QED BY Zenon, <1>4, <1>5

\* popBack removes the last element, and there is one if there is a tail.
LEMMA PopBackHolds ==
  ASSUME NEW l, NEW s, Holds(l, s), l.tail # 0
  PROVE  /\ Len(s) >= 1 /\ l.nodes[l.tail].value = s[Len(s)]
         /\ Holds(popBack(l), SubSeq(s, 1, Len(s) - 1))
<1>1. Typed(l) /\ s \in Seq(Elements)
  BY DEF Holds
<1>2. PICK ids : Chain(l, ids, s)
  BY DEF Holds
<1> DEFINE k == Len(s)
           N == Len(l.nodes)
           r == popBack(l)
           t == SubSeq(s, 1, k - 1)
           new == [i \in 0 .. k |-> IF i = k THEN 0 ELSE ids[i]]
<1>3. k \in Nat /\ N \in Nat /\ k <= N /\ l.length = k
  BY Zenon, <1>1, <1>2, ChainNumbers
<1>4. ids \in [0 .. k + 1 -> 0 .. N] /\ ids[0] = 0 /\ l.head = ids[1] /\ l.tail = ids[k]
  BY Zenon, <1>2 DEF Chain
<1>5. \A i \in 1 .. k : ids[i] \in 1 .. N
  BY Zenon, <1>1, <1>2, ChainNodes
<1>6. \A i, j \in 1 .. k : ids[i] = ids[j] => i = j
  BY Zenon, <1>2 DEF Chain
<1>7. \A i \in 1 .. k : /\ l.nodes[ids[i]].value = s[i]
                        /\ l.nodes[ids[i]].prev = ids[i - 1]
                        /\ l.nodes[ids[i]].next = ids[i + 1]
  BY Zenon, <1>2 DEF Chain
<1>8. PoppedBack(l, r)
  BY Zenon, <1>1, PopBackFields
<1>9. k >= 1 /\ k \in 1 .. k
  <2>1. k # 0
    BY Zenon, <1>4
  <2> QED BY SMT, <1>3, <2>1
<1>10. l.nodes[l.tail].value = s[k] /\ l.nodes[l.tail].prev = ids[k - 1]
  BY Zenon, <1>4, <1>7, <1>9
<1>11. t \in Seq(Elements) /\ Len(t) = k - 1 /\ \A i \in 1 .. k - 1 : t[i] = s[i]
  BY Zenon, <1>1, <1>9, FrontPart
<1> HIDE DEF k, N, r, t
<1>12. Typed(r) /\ Len(r.nodes) = N
  BY Zenon, <1>8 DEF PoppedBack, N
<1>13. r.tail = ids[k - 1] /\ r.head = (IF ids[k - 1] = 0 THEN 0 ELSE ids[1]) /\ r.length = k - 1
  BY Zenon, <1>3, <1>4, <1>8, <1>10 DEF PoppedBack, N
<1>14. ASSUME NEW i \in 1 .. k
       PROVE  /\ r.nodes[ids[i]].value = s[i]
              /\ r.nodes[ids[i]].prev = ids[i - 1]
              /\ r.nodes[ids[i]].next = (IF ids[i] = ids[k - 1] THEN 0 ELSE ids[i + 1])
  <2>1. \A m \in 1 .. N : /\ r.nodes[m].value = l.nodes[m].value
                          /\ r.nodes[m].prev = l.nodes[m].prev
                          /\ r.nodes[m].next = (IF m = ids[k - 1] THEN 0 ELSE l.nodes[m].next)
    BY Zenon, <1>8, <1>10 DEF PoppedBack, N
  <2>2. ids[i] \in 1 .. N
    BY Zenon, <1>5
  <2>3. /\ r.nodes[ids[i]].value = l.nodes[ids[i]].value
        /\ r.nodes[ids[i]].prev = l.nodes[ids[i]].prev
        /\ r.nodes[ids[i]].next = (IF ids[i] = ids[k - 1] THEN 0 ELSE l.nodes[ids[i]].next)
    BY Zenon, <2>1, <2>2
  <2>4. /\ l.nodes[ids[i]].value = s[i]
        /\ l.nodes[ids[i]].prev = ids[i - 1]
        /\ l.nodes[ids[i]].next = ids[i + 1]
    BY Zenon, <1>7
  <2> QED BY Zenon, <2>3, <2>4
<1>15. /\ \A i \in 0 .. k - 1 : i \in 0 .. k /\ i # k /\ i \in 0 .. k + 1
       /\ \A i \in 0 .. k : i = k \/ i \in 0 .. k - 1
       /\ k \in 0 .. k /\ 0 \in 0 .. k - 1 /\ 0 \in 0 .. N
  BY SMT, <1>3, <1>9
<1>16. new[k] = 0 /\ \A i \in 0 .. k - 1 : new[i] = ids[i]
  BY Zenon, <1>15
<1>17. new[0] = 0 /\ new \in [0 .. k -> 0 .. N]
  <2>1. \A i \in 0 .. k - 1 : ids[i] \in 0 .. N
    BY Zenon, <1>4, <1>15
  <2>2. \A i \in 0 .. k : new[i] \in 0 .. N
    BY Zenon, <1>15, <1>16, <2>1
  <2>3. new \in [0 .. k -> 0 .. N]
    BY Zenon, <2>2
  <2> QED BY Zenon, <1>4, <1>15, <1>16, <2>3
<1> HIDE DEF new
<1>18. \A i \in 1 .. k - 1 : i \in 1 .. k /\ i \in 0 .. k - 1 /\ i - 1 \in 0 .. k - 1
  BY SMT, <1>3
<1>19. \A i \in 1 .. k - 1 : new[i] = ids[i] /\ new[i] \in 1 .. N
  BY Zenon, <1>5, <1>16, <1>18
<1>20. \A i \in 1 .. k - 1 : new[i] # 0
  <2>1. \A x \in 1 .. N : x # 0
    BY SMT, <1>3
  <2> QED BY Zenon, <1>19, <2>1
<1>21. \A i, j \in 1 .. k - 1 : new[i] = new[j] => i = j
  BY Zenon, <1>6, <1>18, <1>19
<1>22. r.head = new[1] /\ r.tail = new[k - 1] /\ k - 1 <= N
  <2>1. k - 1 \in 0 .. k - 1 /\ k - 1 <= N
    BY SMT, <1>3, <1>9
  <2>2. r.tail = new[k - 1]
    BY Zenon, <1>13, <1>16, <2>1
  <2>3. CASE k = 1
    <3>1. k - 1 = 0
      BY SMT, <2>3
    <3>2. r.head = 0
      BY Zenon, <1>4, <1>13, <3>1
    <3> QED BY Zenon, <1>16, <2>1, <2>2, <2>3, <3>2
  <2>4. CASE k # 1
    <3>1. 1 \in 1 .. k - 1 /\ k - 1 \in 1 .. k - 1
      BY SMT, <1>3, <1>9, <2>4
    <3>2. ids[k - 1] # 0 /\ new[1] = ids[1]
      BY Zenon, <1>19, <1>20, <3>1
    <3> QED BY Zenon, <1>13, <2>1, <2>2, <3>2
  <2> QED BY Zenon, <2>3, <2>4
<1>23. ASSUME NEW i \in 1 .. k - 1
       PROVE  /\ r.nodes[new[i]].value = t[i]
              /\ r.nodes[new[i]].prev = new[i - 1]
              /\ r.nodes[new[i]].next = new[i + 1]
  <2>1. new[i] = ids[i] /\ new[i - 1] = ids[i - 1] /\ t[i] = s[i]
    BY Zenon, <1>11, <1>16, <1>18
  <2>2. new[i + 1] = (IF ids[i] = ids[k - 1] THEN 0 ELSE ids[i + 1])
    <3>1. CASE i = k - 1
      <4>1. i + 1 = k
        BY SMT, <1>3, <3>1
      <4> QED BY Zenon, <1>16, <3>1, <4>1
    <3>2. CASE i # k - 1
      <4>1. i + 1 \in 0 .. k - 1 /\ k - 1 \in 1 .. k
        BY SMT, <1>3, <3>2
      <4>2. new[i + 1] = ids[i + 1]
        BY Zenon, <1>16, <4>1
      <4>3. ids[i] # ids[k - 1]
        BY Zenon, <1>6, <1>18, <3>2, <4>1
      <4> QED BY Zenon, <4>2, <4>3
    <3> QED BY Zenon, <3>1, <3>2
  <2>3. /\ r.nodes[ids[i]].value = s[i]
        /\ r.nodes[ids[i]].prev = ids[i - 1]
        /\ r.nodes[ids[i]].next = (IF ids[i] = ids[k - 1] THEN 0 ELSE ids[i + 1])
    BY Zenon, <1>14, <1>18
  <2> QED BY Zenon, <2>1, <2>2, <2>3
<1>24. Chain(r, new, t)
  <2>1. (k - 1) + 1 = k
    BY SMT, <1>3
  <2>2. /\ new \in [0 .. Len(t) + 1 -> 0 .. Len(r.nodes)]
        /\ new[0] = 0 /\ new[Len(t) + 1] = 0
    BY Zenon, <1>11, <1>12, <1>16, <1>17, <2>1
  <2>3. /\ \A i \in 1 .. Len(t) : new[i] # 0
        /\ \A i, j \in 1 .. Len(t) : new[i] = new[j] => i = j
    BY Zenon, <1>11, <1>20, <1>21
  <2>4. /\ r.head = new[1] /\ r.tail = new[Len(t)]
        /\ r.length = Len(t) /\ Len(t) <= Len(r.nodes)
    BY Zenon, <1>11, <1>12, <1>13, <1>22
  <2>5. \A i \in 1 .. Len(t) : /\ r.nodes[new[i]].value = t[i]
                               /\ r.nodes[new[i]].prev = new[i - 1]
                               /\ r.nodes[new[i]].next = new[i + 1]
    BY Zenon, <1>11, <1>23
  <2> QED BY Zenon, <2>2, <2>3, <2>4, <2>5 DEF Chain
<1> QED BY Zenon, <1>9, <1>10, <1>11, <1>12, <1>24 DEF Holds, k, r, t

-----------------------------------------------------------------------------
(* Promotion. *)

\* Parts of a sequence of elements, one element longer or shorter.
LEMMA Parts ==
  ASSUME NEW s \in Seq(Elements)
  PROVE  /\ SubSeq(s, 1, Len(s)) = s
         /\ \A j \in 1 .. Len(s) + 1 : SubSeq(s, j, j - 1) = <<>>
         /\ \A j \in 1 .. Len(s) : \A b \in j .. Len(s) :
              <<s[j]>> \o SubSeq(s, j + 1, b) = SubSeq(s, j, b)
         /\ \A j \in 1 .. Len(s) : \A a \in 1 .. j :
              /\ SubSeq(s, a, j - 1) \o <<s[j]>> = SubSeq(s, a, j)
              /\ Append(SubSeq(s, a, j - 1), s[j]) = SubSeq(s, a, j)
<1>1. SubSeq(s, 1, Len(s)) = s
  BY SMT
<1>2. \A j \in 1 .. Len(s) + 1 : SubSeq(s, j, j - 1) = <<>>
  BY SMT
<1>3. ASSUME NEW j \in 1 .. Len(s), NEW b \in j .. Len(s)
      PROVE  <<s[j]>> \o SubSeq(s, j + 1, b) = SubSeq(s, j, b)
  BY SMT
<1>4. ASSUME NEW j \in 1 .. Len(s), NEW a \in 1 .. j
      PROVE  Append(SubSeq(s, a, j - 1), s[j]) = SubSeq(s, a, j)
  BY SMT
<1>5. ASSUME NEW j \in 1 .. Len(s), NEW a \in 1 .. j
      PROVE  SubSeq(s, a, j - 1) \o <<s[j]>> = SubSeq(s, a, j)
  BY SMT
<1> QED BY Zenon, <1>1, <1>2, <1>3, <1>4, <1>5

\* The linked lists that promote goes through.
Links(f, elems, n) ==
  f = [i \in 0 .. n |-> IF i = 0 THEN newFullList ELSE pushBack(f[i - 1], elems[i])]

\* They exist.
LEMMA LinksExist ==
  ASSUME NEW elems, NEW n \in Nat
  PROVE  \E f : Links(f, elems, n)
<1> DEFINE T == {m \in Nat : \E f : Links(f, elems, m)}
<1>1. ASSUME NEW m \in Nat, \A k \in Nat : k < m => k \in T
      PROVE  m \in T
  <2>1. CASE m = 0
    <3> DEFINE f == [i \in 0 .. 0 |-> newFullList]
    <3>1. \A i \in 0 .. 0 : i = 0
      BY SMT
    <3>2. Links(f, elems, 0)
      BY <3>1 DEF Links
    <3> QED BY <2>1, <3>2
  <2>2. CASE m # 0
    <3>1. m - 1 \in Nat /\ m - 1 < m
      BY SMT, <2>2
    <3>2. PICK f : Links(f, elems, m - 1)
      BY <1>1, <3>1
    <3> DEFINE g == [i \in 0 .. m |-> IF i = m THEN pushBack(f[m - 1], elems[m]) ELSE f[i]]
    <3>3. ASSUME NEW i \in 0 .. m
          PROVE  g[i] = IF i = 0 THEN newFullList ELSE pushBack(g[i - 1], elems[i])
      <4>1. CASE i = m
        <5>1. m - 1 \in 0 .. m /\ m - 1 # m
          BY SMT, <3>1
        <5> QED BY <2>2, <4>1, <5>1
      <4>2. CASE i # m
        <5>1. i \in 0 .. m - 1 /\ (i # 0 => i - 1 \in 0 .. m /\ i - 1 # m)
          BY SMT, <3>1, <4>2
        <5>2. f[i] = IF i = 0 THEN newFullList ELSE pushBack(f[i - 1], elems[i])
          BY <3>2, <5>1 DEF Links
        <5> QED BY <4>2, <5>1, <5>2
      <4> QED BY <4>1, <4>2
    <3>4. Links(g, elems, m)
      BY <3>3 DEF Links
    <3> QED BY <3>4
  <2> QED BY <2>1, <2>2
<1>2. \A m \in Nat : (\A k \in Nat : k < m => k \in T) => m \in T
  BY <1>1
<1>3. \A m \in Nat : m \in T
  <2> HIDE DEF T
  <2> QED BY <1>2, Induction
<1> QED BY <1>3

\* promote makes a linked list of the elements in their order.
LEMMA PromoteHolds ==
  ASSUME NEW s \in Seq(Elements)
  PROVE  Holds(promote(s), s)
<1> DEFINE n == Len(s)
           f == CHOOSE g : Links(g, s, n)
           Good(i) == i <= n => Holds(f[i], SubSeq(s, 1, i))
           T == {i \in Nat : Good(i)}
<1>1. n \in Nat
  BY SMT
<1>2. Links(f, s, n)
  BY Zenon, <1>1, LinksExist
<1>3. promote(s) = f[n]
  BY Zenon DEF promote, Links
<1>4. /\ SubSeq(s, 1, n) = s
      /\ \A j \in 1 .. n + 1 : SubSeq(s, j, j - 1) = <<>>
      /\ \A j \in 1 .. n : \A a \in 1 .. j : Append(SubSeq(s, a, j - 1), s[j]) = SubSeq(s, a, j)
  BY Zenon, Parts
<1> HIDE DEF f
<1>5. ASSUME NEW i \in Nat, \A k \in Nat : k < i => k \in T, i <= n
      PROVE  Holds(f[i], SubSeq(s, 1, i))
  <2>1. i \in 0 .. n
    BY SMT, <1>1, <1>5
  <2>2. f[i] = IF i = 0 THEN newFullList ELSE pushBack(f[i - 1], s[i])
    BY Zenon, <1>2, <2>1 DEF Links
  <2>3. CASE i = 0
    <3>1. 1 \in 1 .. n + 1 /\ 1 - 1 = 0
      BY SMT, <1>1
    <3>2. SubSeq(s, 1, 1 - 1) = <<>>
      BY Zenon, <1>4, <3>1
    <3> QED BY Zenon, <2>2, <2>3, <3>1, <3>2, NewHolds
  <2>4. CASE i # 0
    <3>1. i - 1 \in Nat /\ i - 1 < i /\ i - 1 <= n /\ i \in 1 .. n /\ 1 \in 1 .. i
      BY SMT, <1>1, <2>1, <2>4
    <3>2. Holds(f[i - 1], SubSeq(s, 1, i - 1))
      BY Zenon, <1>5, <3>1
    <3>3. s[i] \in Elements
      BY SMT, <3>1
    <3>4. Append(SubSeq(s, 1, i - 1), s[i]) = SubSeq(s, 1, i)
      BY Zenon, <1>4, <3>1
    <3>5. Holds(pushBack(f[i - 1], s[i]), Append(SubSeq(s, 1, i - 1), s[i]))
      BY Zenon, <3>2, <3>3, PushBackHolds
    <3> QED BY Zenon, <2>2, <2>4, <3>4, <3>5
  <2> QED BY Zenon, <2>3, <2>4
<1>6. \A i \in Nat : (\A k \in Nat : k < i => k \in T) => i \in T
  BY Zenon, <1>5
<1>7. \A i \in Nat : i \in T
  <2> HIDE DEF T
  <2> QED BY <1>6, Induction
<1>8. n <= n
  BY SMT, <1>1
<1> QED BY Zenon, <1>1, <1>3, <1>4, <1>7, <1>8

-----------------------------------------------------------------------------
(* What is met along the nodes. *)

\* The values met from each node in i steps, given those met in i - 1.
Row(l, rest, i) ==
  [m \in 0 .. Len(l.nodes) |->
     IF i = 0 \/ m = 0 THEN <<>> ELSE <<l.nodes[m].value>> \o rest[l.nodes[m].next]]

Walking(f, l, k) == f = [i \in 0 .. k |-> Row(l, f[i - 1], i)]

\* A walk of any length exists.
LEMMA WalksExist ==
  ASSUME NEW l, NEW k \in Nat
  PROVE  \E f : Walking(f, l, k)
<1> DEFINE T == {m \in Nat : \E f : Walking(f, l, m)}
<1>0. \A a, b : Row(l, a, 0) = Row(l, b, 0)
  BY Zenon DEF Row
<1>1. ASSUME NEW m \in Nat, \A i \in Nat : i < m => i \in T
      PROVE  m \in T
  <2>1. CASE m = 0
    <3> DEFINE f == [i \in 0 .. 0 |-> Row(l, 0, 0)]
    <3>1. \A i \in 0 .. 0 : i = 0
      BY SMT
    <3>2. \A i \in 0 .. 0 : Row(l, 0, 0) = Row(l, f[i - 1], i)
      <4> HIDE DEF f
      <4> QED BY Zenon, <1>0, <3>1
    <3>3. f = [i \in 0 .. 0 |-> Row(l, f[i - 1], i)]
      BY Zenon, <3>2
    <3> QED BY Zenon, <2>1, <3>3 DEF Walking
  <2>2. CASE m # 0
    <3>1. m - 1 \in Nat /\ m - 1 < m
      BY SMT, <2>2
    <3>2. PICK f : Walking(f, l, m - 1)
      BY Zenon, <1>1, <3>1
    <3> DEFINE g == [i \in 0 .. m |-> IF i = m THEN Row(l, f[m - 1], m) ELSE f[i]]
    <3>3. ASSUME NEW i \in 0 .. m
          PROVE  g[i] = Row(l, g[i - 1], i)
      <4>1. CASE i = m
        <5>1. m - 1 \in 0 .. m /\ m - 1 # m
          BY SMT, <3>1
        <5> QED BY Zenon, <2>2, <4>1, <5>1
      <4>2. CASE i # m
        <5>1. i \in 0 .. m - 1 /\ (i # 0 => i - 1 \in 0 .. m /\ i - 1 # m)
          BY SMT, <3>1, <4>2
        <5>2. f[i] = Row(l, f[i - 1], i)
          BY Zenon, <3>2, <5>1 DEF Walking
        <5>3. g[i] = f[i]
          BY Zenon, <4>2
        <5>4. CASE i = 0
          BY Zenon, <1>0, <5>2, <5>3, <5>4
        <5>5. CASE i # 0
          <6>1. g[i - 1] = f[i - 1]
            BY Zenon, <5>1, <5>5
          <6> HIDE DEF g
          <6> QED BY Zenon, <5>2, <5>3, <6>1
        <5> QED BY Zenon, <5>4, <5>5
      <4> QED BY Zenon, <4>1, <4>2
    <3>4. Walking(g, l, m)
      BY Zenon, <3>3 DEF Walking
    <3> QED BY Zenon, <3>4
  <2> QED BY Zenon, <2>1, <2>2
<1>2. \A m \in Nat : (\A i \in Nat : i < m => i \in T) => m \in T
  BY Zenon, <1>1
<1>3. \A m \in Nat : m \in T
  <2> HIDE DEF T
  <2> QED BY <1>2, Induction
<1> QED BY <1>3

\* The elements from the j-th on, at most i of them.
Onward(s, j, i) == SubSeq(s, j, IF j + i - 1 <= Len(s) THEN j + i - 1 ELSE Len(s))

\* They are met by a walk of i steps from the j-th node of a chain.
LEMMA WalkMeets ==
  ASSUME NEW l, NEW s, NEW ids, Typed(l), s \in Seq(Elements), Chain(l, ids, s), NEW k \in Nat
  PROVE  \A j \in 1 .. Len(s) + 1 : Walk(l, ids[j], k) = Onward(s, j, k)
<1> DEFINE n == Len(s)
           N == Len(l.nodes)
           f == CHOOSE g : Walking(g, l, k)
           T == {i \in Nat : i <= k => \A j \in 1 .. n + 1 : f[i][ids[j]] = Onward(s, j, i)}
<1>1. n \in Nat /\ N \in Nat
  BY Zenon, ChainNumbers
<1>2. Walking(f, l, k)
  BY Zenon, WalksExist
<1>3. \A x : Walk(l, x, k) = f[k][x]
  BY Zenon DEF Walk, Walking, Row
<1>4. ids \in [0 .. n + 1 -> 0 .. N] /\ ids[n + 1] = 0
  BY Zenon DEF Chain
<1>5. \A j \in 1 .. n : ids[j] # 0 /\ l.nodes[ids[j]].value = s[j] /\ l.nodes[ids[j]].next = ids[j + 1]
  BY Zenon DEF Chain
<1>6. /\ \A j \in 1 .. n + 1 : SubSeq(s, j, j - 1) = <<>>
      /\ \A j \in 1 .. n : \A b \in j .. n : <<s[j]>> \o SubSeq(s, j + 1, b) = SubSeq(s, j, b)
  BY Zenon, Parts
<1> HIDE DEF f, n, N
<1>7. ASSUME NEW i \in Nat, \A m \in Nat : m < i => m \in T, i <= k, NEW j \in 1 .. n + 1
      PROVE  f[i][ids[j]] = Onward(s, j, i)
  <2>1. i \in 0 .. k /\ j \in 0 .. n + 1
    BY SMT, <1>1, <1>7
  <2>2. ids[j] \in 0 .. N
    BY Zenon, <1>4, <2>1
  <2>3. f[i] = Row(l, f[i - 1], i)
    BY Zenon, <1>2, <2>1 DEF Walking
  <2>4. f[i][ids[j]] = IF i = 0 \/ ids[j] = 0 THEN <<>>
                       ELSE <<l.nodes[ids[j]].value>> \o f[i - 1][l.nodes[ids[j]].next]
    BY Zenon, <2>2, <2>3 DEF Row, N
  <2>5. CASE i = 0 \/ j = n + 1
    <3>1. f[i][ids[j]] = <<>>
      BY Zenon, <1>4, <2>4, <2>5
    <3>2. (IF j + i - 1 <= n THEN j + i - 1 ELSE n) = j - 1
      BY SMT, <1>1, <2>5
    <3>3. Onward(s, j, i) = SubSeq(s, j, j - 1)
      BY Zenon, <3>2 DEF Onward, n
    <3> QED BY Zenon, <1>6, <3>1, <3>3
  <2>6. CASE i # 0 /\ j # n + 1
    <3> DEFINE b == IF j + i - 1 <= n THEN j + i - 1 ELSE n
    <3>1. j \in 1 .. n /\ j + 1 \in 1 .. n + 1 /\ i - 1 \in Nat /\ i - 1 < i /\ i - 1 <= k
      BY SMT, <1>1, <1>7, <2>6
    <3>2. b \in j .. n /\ b = (IF (j + 1) + (i - 1) - 1 <= n THEN (j + 1) + (i - 1) - 1 ELSE n)
      BY SMT, <1>1, <2>6
    <3>3. f[i - 1][ids[j + 1]] = Onward(s, j + 1, i - 1)
      BY Zenon, <1>7, <3>1
    <3>4. f[i][ids[j]] = <<s[j]>> \o f[i - 1][ids[j + 1]]
      BY Zenon, <1>5, <2>4, <2>6, <3>1
    <3> HIDE DEF b
    <3>5. Onward(s, j + 1, i - 1) = SubSeq(s, j + 1, b)
      BY Zenon, <3>2 DEF Onward, n
    <3>6. Onward(s, j, i) = SubSeq(s, j, b)
      BY Zenon DEF Onward, n, b
    <3>7. <<s[j]>> \o SubSeq(s, j + 1, b) = SubSeq(s, j, b)
      BY Zenon, <1>6, <3>1, <3>2
    <3> QED BY Zenon, <3>3, <3>4, <3>5, <3>6, <3>7
  <2> QED BY Zenon, <2>5, <2>6
<1>8. \A i \in Nat : (\A m \in Nat : m < i => m \in T) => i \in T
  BY Zenon, <1>7
<1>9. \A i \in Nat : i \in T
  <2> HIDE DEF T
  <2> QED BY <1>8, Induction
<1>10. k <= k
  BY SMT
<1> QED BY Zenon, <1>3, <1>9, <1>10 DEF n

\* The values met backwards from each node in i steps, given those met in i - 1.
BackRow(l, rest, i) ==
  [m \in 0 .. Len(l.nodes) |->
     IF i = 0 \/ m = 0 THEN <<>> ELSE rest[l.nodes[m].prev] \o <<l.nodes[m].value>>]

WalkingBack(f, l, k) == f = [i \in 0 .. k |-> BackRow(l, f[i - 1], i)]

\* A backward walk of any length exists.
LEMMA BackWalksExist ==
  ASSUME NEW l, NEW k \in Nat
  PROVE  \E f : WalkingBack(f, l, k)
<1> DEFINE T == {m \in Nat : \E f : WalkingBack(f, l, m)}
<1>0. \A a, b : BackRow(l, a, 0) = BackRow(l, b, 0)
  BY Zenon DEF BackRow
<1>1. ASSUME NEW m \in Nat, \A i \in Nat : i < m => i \in T
      PROVE  m \in T
  <2>1. CASE m = 0
    <3> DEFINE f == [i \in 0 .. 0 |-> BackRow(l, 0, 0)]
    <3>1. \A i \in 0 .. 0 : i = 0
      BY SMT
    <3>2. \A i \in 0 .. 0 : BackRow(l, 0, 0) = BackRow(l, f[i - 1], i)
      <4> HIDE DEF f
      <4> QED BY Zenon, <1>0, <3>1
    <3>3. f = [i \in 0 .. 0 |-> BackRow(l, f[i - 1], i)]
      BY Zenon, <3>2
    <3> QED BY Zenon, <2>1, <3>3 DEF WalkingBack
  <2>2. CASE m # 0
    <3>1. m - 1 \in Nat /\ m - 1 < m
      BY SMT, <2>2
    <3>2. PICK f : WalkingBack(f, l, m - 1)
      BY Zenon, <1>1, <3>1
    <3> DEFINE g == [i \in 0 .. m |-> IF i = m THEN BackRow(l, f[m - 1], m) ELSE f[i]]
    <3>3. ASSUME NEW i \in 0 .. m
          PROVE  g[i] = BackRow(l, g[i - 1], i)
      <4>1. CASE i = m
        <5>1. m - 1 \in 0 .. m /\ m - 1 # m
          BY SMT, <3>1
        <5> QED BY Zenon, <2>2, <4>1, <5>1
      <4>2. CASE i # m
        <5>1. i \in 0 .. m - 1 /\ (i # 0 => i - 1 \in 0 .. m /\ i - 1 # m)
          BY SMT, <3>1, <4>2
        <5>2. f[i] = BackRow(l, f[i - 1], i)
          BY Zenon, <3>2, <5>1 DEF WalkingBack
        <5>3. g[i] = f[i]
          BY Zenon, <4>2
        <5>4. CASE i = 0
          BY Zenon, <1>0, <5>2, <5>3, <5>4
        <5>5. CASE i # 0
          <6>1. g[i - 1] = f[i - 1]
            BY Zenon, <5>1, <5>5
          <6> HIDE DEF g
          <6> QED BY Zenon, <5>2, <5>3, <6>1
        <5> QED BY Zenon, <5>4, <5>5
      <4> QED BY Zenon, <4>1, <4>2
    <3>4. WalkingBack(g, l, m)
      BY Zenon, <3>3 DEF WalkingBack
    <3> QED BY Zenon, <3>4
  <2> QED BY Zenon, <2>1, <2>2
<1>2. \A m \in Nat : (\A i \in Nat : i < m => i \in T) => m \in T
  BY Zenon, <1>1
<1>3. \A m \in Nat : m \in T
  <2> HIDE DEF T
  <2> QED BY <1>2, Induction
<1> QED BY <1>3

\* The elements up to the j-th, at most i of them.
Backward(s, j, i) == SubSeq(s, IF j - i + 1 >= 1 THEN j - i + 1 ELSE 1, j)

\* They are met by a walk of i steps backwards from the j-th node of a chain.
LEMMA WalkBackMeets ==
  ASSUME NEW l, NEW s, NEW ids, Typed(l), s \in Seq(Elements), Chain(l, ids, s), NEW k \in Nat
  PROVE  \A j \in 0 .. Len(s) : WalkBack(l, ids[j], k) = Backward(s, j, k)
<1> DEFINE n == Len(s)
           N == Len(l.nodes)
           f == CHOOSE g : WalkingBack(g, l, k)
           T == {i \in Nat : i <= k => \A j \in 0 .. n : f[i][ids[j]] = Backward(s, j, i)}
<1>1. n \in Nat /\ N \in Nat
  BY Zenon, ChainNumbers
<1>2. WalkingBack(f, l, k)
  BY Zenon, BackWalksExist
<1>3. \A x : WalkBack(l, x, k) = f[k][x]
  BY Zenon DEF WalkBack, WalkingBack, BackRow
<1>4. ids \in [0 .. n + 1 -> 0 .. N] /\ ids[0] = 0
  BY Zenon DEF Chain
<1>5. \A j \in 1 .. n : ids[j] # 0 /\ l.nodes[ids[j]].value = s[j] /\ l.nodes[ids[j]].prev = ids[j - 1]
  BY Zenon DEF Chain
<1>6. /\ \A j \in 1 .. n + 1 : SubSeq(s, j, j - 1) = <<>>
      /\ \A j \in 1 .. n : \A a \in 1 .. j : SubSeq(s, a, j - 1) \o <<s[j]>> = SubSeq(s, a, j)
  BY Zenon, Parts
<1> HIDE DEF f, n, N
<1>7. ASSUME NEW i \in Nat, \A m \in Nat : m < i => m \in T, i <= k, NEW j \in 0 .. n
      PROVE  f[i][ids[j]] = Backward(s, j, i)
  <2>1. i \in 0 .. k /\ j \in 0 .. n + 1
    BY SMT, <1>1, <1>7
  <2>2. ids[j] \in 0 .. N
    BY Zenon, <1>4, <2>1
  <2>3. f[i] = BackRow(l, f[i - 1], i)
    BY Zenon, <1>2, <2>1 DEF WalkingBack
  <2>4. f[i][ids[j]] = IF i = 0 \/ ids[j] = 0 THEN <<>>
                       ELSE f[i - 1][l.nodes[ids[j]].prev] \o <<l.nodes[ids[j]].value>>
    BY Zenon, <2>2, <2>3 DEF BackRow, N
  <2>5. CASE i = 0 \/ j = 0
    <3>1. f[i][ids[j]] = <<>>
      BY Zenon, <1>4, <2>4, <2>5
    <3>2. (IF j - i + 1 >= 1 THEN j - i + 1 ELSE 1) = j + 1 /\ j + 1 \in 1 .. n + 1 /\ (j + 1) - 1 = j
      BY SMT, <1>1, <2>5
    <3>3. Backward(s, j, i) = SubSeq(s, j + 1, (j + 1) - 1)
      BY Zenon, <3>2 DEF Backward
    <3> QED BY Zenon, <1>6, <3>1, <3>2, <3>3
  <2>6. CASE i # 0 /\ j # 0
    <3> DEFINE a == IF j - i + 1 >= 1 THEN j - i + 1 ELSE 1
    <3>1. j \in 1 .. n /\ j - 1 \in 0 .. n /\ i - 1 \in Nat /\ i - 1 < i /\ i - 1 <= k
      BY SMT, <1>1, <1>7, <2>6
    <3>2. a \in 1 .. j /\ a = (IF (j - 1) - (i - 1) + 1 >= 1 THEN (j - 1) - (i - 1) + 1 ELSE 1)
      BY SMT, <1>1, <2>6
    <3>3. f[i - 1][ids[j - 1]] = Backward(s, j - 1, i - 1)
      BY Zenon, <1>7, <3>1
    <3>4. f[i][ids[j]] = f[i - 1][ids[j - 1]] \o <<s[j]>>
      BY Zenon, <1>5, <2>4, <2>6, <3>1
    <3> HIDE DEF a
    <3>5. Backward(s, j - 1, i - 1) = SubSeq(s, a, j - 1)
      BY Zenon, <3>2 DEF Backward
    <3>6. Backward(s, j, i) = SubSeq(s, a, j)
      BY Zenon DEF Backward, a
    <3>7. SubSeq(s, a, j - 1) \o <<s[j]>> = SubSeq(s, a, j)
      BY Zenon, <1>6, <3>1, <3>2
    <3> QED BY Zenon, <3>3, <3>4, <3>5, <3>6, <3>7
  <2> QED BY Zenon, <2>5, <2>6
<1>8. \A i \in Nat : (\A m \in Nat : m < i => m \in T) => i \in T
  BY Zenon, <1>7
<1>9. \A i \in Nat : i \in T
  <2> HIDE DEF T
  <2> QED BY <1>8, Induction
<1>10. k <= k
  BY SMT
<1> QED BY Zenon, <1>3, <1>9, <1>10 DEF n

\* From either end a linked list is what it holds.
LEMMA HoldsWalks ==
  ASSUME NEW l, NEW s, Holds(l, s)
  PROVE  /\ Walk(l, l.head, Len(l.nodes)) = s
         /\ WalkBack(l, l.tail, Len(l.nodes)) = s
         /\ \A m \in 0 .. Len(s) : Walk(l, l.head, m) = SubSeq(s, 1, m)
         /\ l.length = Len(s) /\ (l.head = 0 <=> s = <<>>) /\ (l.tail = 0 <=> s = <<>>)
<1>1. Typed(l) /\ s \in Seq(Elements)
  BY DEF Holds
<1>2. PICK ids : Chain(l, ids, s)
  BY DEF Holds
<1> DEFINE n == Len(s)
           N == Len(l.nodes)
<1>3. n \in Nat /\ N \in Nat /\ n <= N /\ l.length = n
  BY Zenon, <1>1, <1>2, ChainNumbers
<1>4. l.head = ids[1] /\ l.tail = ids[n] /\ ids[0] = 0 /\ ids[n + 1] = 0 /\ \A i \in 1 .. n : ids[i] # 0
  BY Zenon, <1>2 DEF Chain
<1>5. SubSeq(s, 1, n) = s
  BY Zenon, <1>1, Parts
<1>6. s = <<>> <=> n = 0
  BY SMT, <1>1
<1>7. 1 \in 1 .. n + 1 /\ n \in 0 .. n /\ (n # 0 => 1 \in 1 .. n /\ n \in 1 .. n) /\ (n = 0 => n + 1 = 1)
  BY SMT, <1>3
<1>8. ASSUME NEW k \in Nat PROVE Walk(l, l.head, k) = Onward(s, 1, k)
  <2>1. \A j \in 1 .. n + 1 : Walk(l, ids[j], k) = Onward(s, j, k)
    BY Zenon, <1>1, <1>2, WalkMeets
  <2> QED BY Zenon, <1>4, <1>7, <2>1
<1>9. ASSUME NEW k \in Nat PROVE WalkBack(l, l.tail, k) = Backward(s, n, k)
  <2>1. \A j \in 0 .. n : WalkBack(l, ids[j], k) = Backward(s, j, k)
    BY Zenon, <1>1, <1>2, WalkBackMeets
  <2> QED BY Zenon, <1>4, <1>7, <2>1
<1> HIDE DEF n, N
<1>10. /\ (IF 1 + N - 1 <= n THEN 1 + N - 1 ELSE n) = n
       /\ (IF n - N + 1 >= 1 THEN n - N + 1 ELSE 1) = 1
  BY SMT, <1>3
<1>11. Onward(s, 1, N) = SubSeq(s, 1, n) /\ Backward(s, n, N) = SubSeq(s, 1, n)
  BY Zenon, <1>10 DEF Onward, Backward, n
<1>12. ASSUME NEW m \in 0 .. n PROVE Walk(l, l.head, m) = SubSeq(s, 1, m)
  <2>1. (IF 1 + m - 1 <= n THEN 1 + m - 1 ELSE n) = m /\ m \in Nat
    BY SMT, <1>3
  <2>2. Onward(s, 1, m) = SubSeq(s, 1, m)
    BY Zenon, <2>1 DEF Onward, n
  <2> QED BY Zenon, <1>8, <2>1, <2>2
<1>13. (l.head = 0 <=> n = 0) /\ (l.tail = 0 <=> n = 0)
  BY Zenon, <1>4, <1>7
<1> QED BY Zenon, <1>3, <1>5, <1>6, <1>8, <1>9, <1>11, <1>12, <1>13 DEF n, N

-----------------------------------------------------------------------------
(* The states of a list. *)

\* The list is the sequence s: its pack is the pack of s and stays within the
\* limit, or its linked nodes hold s and no pack is left.
Represents(s) ==
  /\ s \in Seq(Elements)
  /\ Compact => pack = packAll(s) /\ count = Len(s) /\ count <= MaxEntries
  /\ ~Compact => pack = <<>> /\ count = 0 /\ Holds(full, s)

\* The inductive invariant.
Inv ==
  /\ \E s : Represents(s)
  /\ out \in Elements \cup {None} /\ pushes \in 0 .. MaxPushes

\* Elements are sequences of bytes.
LEMMA ElementsPack ==
  /\ \A e \in Elements : e \in Seq(Byte) /\ Len(e) \in Nat
  /\ \A s \in Seq(Elements) : s \in Seq(Seq(Byte)) /\ Len(s) \in Nat
<1>1. \A e \in Elements : e \in Seq(Byte)
  BY Zenon, ListAssumption
<1>2. \A e \in Seq(Byte) : Len(e) \in Nat
  BY SMT
<1>3. ASSUME NEW s \in Seq(Elements) PROVE s \in Seq(Seq(Byte)) /\ Len(s) \in Nat
  <2> DEFINE B == Seq(Byte)
  <2>1. \A e \in Elements : e \in B
    BY Zenon, <1>1
  <2> HIDE DEF B
  <2>2. s \in Seq(B) /\ Len(s) \in Nat
    BY SMT, <2>1
  <2> QED BY Zenon, <2>2 DEF B
<1> QED BY Zenon, <1>1, <1>2, <1>3

\* A linked list is not nil.
LEMMA NotNull == \A l : Typed(l) => l # Null
<1> SUFFICES ASSUME NEW l, Typed(l), l = <<>> PROVE FALSE
  BY Zenon DEF Null
<1>1. DOMAIN l = {"head", "tail", "length", "nodes"}
  BY Zenon DEF Typed
<1>2. DOMAIN <<>> = {}
  BY SMT
<1> QED BY Zenon, <1>1, <1>2

\* What the list is, by its encoding.
LEMMA Reads ==
  ASSUME NEW s, Represents(s)
  PROVE  /\ Contents = s /\ Length = Len(s)
         /\ ~Compact => WalkBack(full, full.tail, Len(full.nodes)) = s
<1>1. s \in Seq(Elements) /\ s \in Seq(Seq(Byte))
  BY Zenon, ElementsPack DEF Represents
<1>2. CASE Compact
  <2>1. pack = packAll(s) /\ count = Len(s)
    BY Zenon, <1>2 DEF Represents
  <2>2. packEach(packAll(s)) = s
    BY Zenon, <1>1, PackEachReads
  <2> QED BY Zenon, <1>2, <2>1, <2>2 DEF Contents, Length
<1>3. CASE ~Compact
  <2>1. Holds(full, s)
    BY Zenon, <1>3 DEF Represents
  <2>2. /\ Walk(full, full.head, Len(full.nodes)) = s
        /\ WalkBack(full, full.tail, Len(full.nodes)) = s
        /\ full.length = Len(s)
    BY Zenon, <2>1, HoldsWalks
  <2> QED BY Zenon, <1>3, <2>2 DEF Contents, Length
<1> QED BY Zenon, <1>2, <1>3

\* A push on the pack, and the promotion that may follow it.
LEMMA SettleRepresents ==
  ASSUME NEW s, Represents(s), Compact, NEW e \in Elements,
         NEW t \in Seq(Elements), Len(t) = Len(s) + 1, NEW packed, packed = packAll(t),
         Settle(packed, e)
  PROVE  Represents(t)'
<1>1. count = Len(s) /\ Len(s) \in Nat /\ t \in Seq(Seq(Byte)) /\ Len(e) \in Nat
  BY Zenon, ElementsPack DEF Represents
<1>2. CASE exceeded(count + 1, e)
  <2>1. full' = promote(packEach(packed)) /\ pack' = <<>> /\ count' = 0
    BY Zenon, <1>2 DEF Settle
  <2>2. packEach(packed) = t
    BY Zenon, <1>1, PackEachReads
  <2>3. Holds(full', t)
    BY Zenon, <2>1, <2>2, PromoteHolds
  <2>4. full' # Null
    BY Zenon, <2>3, NotNull DEF Holds
  <2> QED BY Zenon, <2>1, <2>3, <2>4 DEF Represents, Compact
<1>3. CASE ~exceeded(count + 1, e)
  <2>1. pack' = packed /\ count' = count + 1 /\ full' = full
    BY Zenon, <1>3 DEF Settle
  <2>2. count + 1 <= MaxEntries
    BY SMT, <1>1, <1>3, ListAssumption DEF exceeded
  <2>3. pack' = packAll(t) /\ count' = Len(t) /\ count' <= MaxEntries /\ full' = Null
    BY Zenon, <1>1, <2>1, <2>2 DEF Compact
  <2> QED BY Zenon, <2>3 DEF Represents, Compact
<1> QED BY Zenon, <1>2, <1>3

\* A list that does not change is what it was.
LEMMA SameRepresents ==
  ASSUME NEW s, Represents(s), pack' = pack, count' = count, full' = full
  PROVE  Represents(s)'
BY Zenon DEF Represents, Compact

\* A push at either end.
LEMMA PushedRepresents ==
  ASSUME NEW s, Represents(s), NEW e \in Elements,
         NEW t \in Seq(Elements), Len(t) = Len(s) + 1,
         NEW packed, Compact => packed = packAll(t),
         NEW linked, ~Compact => Holds(linked, t),
         Pushed(packed, linked, e)
  PROVE  Represents(t)' /\ out' = out
<1>1. out' = out
  BY Zenon DEF Pushed
<1>2. CASE Compact
  <2>1. Settle(packed, e)
    BY Zenon, <1>2 DEF Pushed
  <2>2. Represents(t)'
    BY Zenon, <1>2, <2>1, SettleRepresents
  <2> QED BY Zenon, <1>1, <2>2
<1>3. CASE ~Compact
  <2>1. full' = linked /\ pack' = pack /\ count' = count
    BY Zenon, <1>3 DEF Pushed
  <2>2. Holds(full', t) /\ pack = <<>> /\ count = 0
    BY Zenon, <1>3, <2>1 DEF Represents
  <2>3. full' # Null
    BY Zenon, <2>2, NotNull DEF Holds
  <2>4. Represents(t)'
    BY Zenon, <2>1, <2>2, <2>3 DEF Represents, Compact
  <2> QED BY Zenon, <1>1, <2>4
<1> QED BY Zenon, <1>2, <1>3

\* PushFront puts its element before the others.
LEMMA PushFrontStep ==
  ASSUME NEW s, Represents(s), NEW e \in Elements, PushFront(e)
  PROVE  Represents(<<e>> \o s)' /\ out' = out /\ call' = <<"PushFront", e>>
<1> DEFINE t == <<e>> \o s
           packed == packAppend(<<>>, e) \o pack
           linked == pushFront(full, e)
<1>1. s \in Seq(Elements) /\ s \in Seq(Seq(Byte)) /\ e \in Seq(Byte)
  BY Zenon, ElementsPack DEF Represents
<1>2. t \in Seq(Elements) /\ Len(t) = Len(s) + 1
  BY SMT, <1>1
<1>3. Compact => packed = packAll(t)
  <2>1. packAppend(<<>>, e) \o packAll(s) = packAll(<<e>> \o s)
    BY Zenon, <1>1, PushedPacks
  <2>2. Compact => pack = packAll(s)
    BY Zenon DEF Represents
  <2> QED BY Zenon, <2>1, <2>2
<1>4. ~Compact => Holds(linked, t)
  <2>1. ~Compact => Holds(full, s)
    BY Zenon DEF Represents
  <2> QED BY Zenon, <2>1, PushFrontHolds
<1>5. call' = <<"PushFront", e>> /\ Pushed(packed, linked, e)
  BY Zenon DEF PushFront
<1> HIDE DEF t, packed, linked
<1>6. Represents(t)' /\ out' = out
  BY Zenon, <1>2, <1>3, <1>4, <1>5, PushedRepresents
<1> QED BY Zenon, <1>5, <1>6 DEF t

\* PushBack puts its element after the others.
LEMMA PushBackStep ==
  ASSUME NEW s, Represents(s), NEW e \in Elements, PushBack(e)
  PROVE  Represents(Append(s, e))' /\ out' = out /\ call' = <<"PushBack", e>>
<1> DEFINE t == Append(s, e)
           packed == packAppend(pack, e)
           linked == pushBack(full, e)
<1>1. s \in Seq(Elements) /\ s \in Seq(Seq(Byte)) /\ e \in Seq(Byte)
  BY Zenon, ElementsPack DEF Represents
<1>2. t \in Seq(Elements) /\ Len(t) = Len(s) + 1
  BY SMT, <1>1
<1>3. Compact => packed = packAll(t)
  <2>1. packAppend(packAll(s), e) = packAll(Append(s, e))
    BY Zenon, <1>1, PushedPacks
  <2>2. Compact => pack = packAll(s)
    BY Zenon DEF Represents
  <2> QED BY Zenon, <2>1, <2>2
<1>4. ~Compact => Holds(linked, t)
  <2>1. ~Compact => Holds(full, s)
    BY Zenon DEF Represents
  <2> QED BY Zenon, <2>1, PushBackHolds
<1>5. call' = <<"PushBack", e>> /\ Pushed(packed, linked, e)
  BY Zenon DEF PushBack
<1> HIDE DEF t, packed, linked
<1>6. Represents(t)' /\ out' = out
  BY Zenon, <1>2, <1>3, <1>4, <1>5, PushedRepresents
<1> QED BY Zenon, <1>5, <1>6 DEF t

\* A pop on the pack: the pack and the count of what is left.
LEMMA PoppedPack ==
  ASSUME NEW s, Represents(s), Compact, NEW t \in Seq(Elements), Len(t) = Len(s) - 1,
         pack' = packAll(t), count' = count - 1, full' = full, MaxEntries \in Nat
  PROVE  Represents(t)'
<1>1. count = Len(s) /\ count <= MaxEntries /\ full' = Null /\ s \in Seq(Elements)
  BY Zenon DEF Represents, Compact
<1>2. Len(s) \in Nat
  BY SMT, <1>1
<1>3. count' = Len(t) /\ count' <= MaxEntries
  BY SMT, <1>1, <1>2
<1> QED BY Zenon, <1>1, <1>3 DEF Represents, Compact

\* A pop on the linked list.
LEMMA PoppedLinked ==
  ASSUME NEW s, Represents(s), ~Compact, NEW t, Holds(full', t), pack' = pack, count' = count
  PROVE  Represents(t)'
<1>1. pack = <<>> /\ count = 0
  BY Zenon DEF Represents
<1>2. full' # Null /\ t \in Seq(Elements)
  BY Zenon, NotNull DEF Holds
<1> QED BY Zenon, <1>1, <1>2 DEF Represents, Compact

\* PopFront answers with the first element and leaves the others.
LEMMA PopFrontStep ==
  ASSUME NEW s, Represents(s), PopFront
  PROVE  /\ s = <<>> => out' = None /\ Represents(s)'
         /\ s # <<>> => out' = s[1] /\ Represents(Tail(s))'
         /\ call' = <<"PopFront">>
<1>1. s \in Seq(Elements) /\ s \in Seq(Seq(Byte)) /\ Len(s) \in Nat /\ MaxEntries \in Nat
  BY Zenon, ElementsPack, ListAssumption DEF Represents
<1>2. s = <<>> <=> Len(s) = 0
  BY SMT, <1>1
<1>3. s # <<>> => Tail(s) \in Seq(Elements) /\ Len(Tail(s)) = Len(s) - 1
  BY SMT, <1>1
<1>4. call' = <<"PopFront">>
  BY Zenon DEF PopFront
<1>5. ASSUME PopNothing PROVE out' = None /\ Represents(s)'
  BY Zenon, <1>5, SameRepresents DEF PopNothing
<1>6. CASE Compact
  <2>1. pack = packAll(s) /\ count = Len(s)
    BY Zenon, <1>6 DEF Represents
  <2>2. CASE s = <<>>
    <3>1. PopNothing
      BY Zenon, <1>2, <1>6, <2>1, <2>2 DEF PopFront
    <3> QED BY Zenon, <1>4, <1>5, <2>2, <3>1
  <2>3. CASE s # <<>>
    <3>1. /\ out' = ElementAt(pack, 0) /\ pack' = SubSeq(pack, After(pack, 0) + 1, Len(pack))
          /\ count' = count - 1 /\ full' = full
      BY Zenon, <1>2, <1>6, <2>1, <2>3 DEF PopFront
    <3>2. /\ ElementAt(packAll(s), 0) = s[1]
          /\ SubSeq(packAll(s), After(packAll(s), 0) + 1, Len(packAll(s))) = packAll(Tail(s))
      BY Zenon, <1>1, <2>3, FirstOfPack
    <3>3. out' = s[1] /\ pack' = packAll(Tail(s))
      BY Zenon, <2>1, <3>1, <3>2
    <3>4. Represents(Tail(s))'
      BY Zenon, <1>1, <1>3, <1>6, <2>3, <3>1, <3>3, PoppedPack
    <3> QED BY Zenon, <1>4, <2>3, <3>3, <3>4
  <2> QED BY Zenon, <2>2, <2>3
<1>7. CASE ~Compact
  <2>1. Holds(full, s)
    BY Zenon, <1>7 DEF Represents
  <2>2. full.head = 0 <=> s = <<>>
    BY Zenon, <2>1, HoldsWalks
  <2>3. CASE s = <<>>
    <3>1. PopNothing
      BY Zenon, <1>7, <2>2, <2>3 DEF PopFront
    <3> QED BY Zenon, <1>4, <1>5, <2>3, <3>1
  <2>4. CASE s # <<>>
    <3>1. /\ out' = full.nodes[full.head].value /\ full' = popFront(full)
          /\ pack' = pack /\ count' = count
      BY Zenon, <1>7, <2>2, <2>4 DEF PopFront
    <3>2. full.nodes[full.head].value = s[1] /\ Holds(popFront(full), Tail(s))
      BY Zenon, <2>1, <2>2, <2>4, PopFrontHolds
    <3>3. Holds(full', Tail(s))
      BY Zenon, <3>1, <3>2
    <3>4. Represents(Tail(s))'
      BY Zenon, <1>7, <3>1, <3>3, PoppedLinked
    <3> QED BY Zenon, <1>4, <2>4, <3>1, <3>2, <3>4
  <2> QED BY Zenon, <2>3, <2>4
<1> QED BY Zenon, <1>6, <1>7

\* PopBack answers with the last element and leaves the others.
LEMMA PopBackStep ==
  ASSUME NEW s, Represents(s), PopBack
  PROVE  /\ s = <<>> => out' = None /\ Represents(s)'
         /\ s # <<>> => out' = s[Len(s)] /\ Represents(SubSeq(s, 1, Len(s) - 1))'
         /\ call' = <<"PopBack">>
<1> DEFINE t == SubSeq(s, 1, Len(s) - 1)
<1>1. s \in Seq(Elements) /\ s \in Seq(Seq(Byte)) /\ Len(s) \in Nat /\ MaxEntries \in Nat
  BY Zenon, ElementsPack, ListAssumption DEF Represents
<1>2. (s = <<>> <=> Len(s) = 0) /\ (s # <<>> => Len(s) >= 1)
  BY SMT, <1>1
<1>3. s # <<>> => t \in Seq(Elements) /\ Len(t) = Len(s) - 1
  BY Zenon, <1>1, <1>2, FrontPart
<1>4. call' = <<"PopBack">>
  BY Zenon DEF PopBack
<1>5. ASSUME PopNothing PROVE out' = None /\ Represents(s)'
  BY Zenon, <1>5, SameRepresents DEF PopNothing
<1>6. CASE Compact
  <2>1. pack = packAll(s) /\ count = Len(s)
    BY Zenon, <1>6 DEF Represents
  <2>2. CASE s = <<>>
    <3>1. PopNothing
      BY Zenon, <1>2, <1>6, <2>1, <2>2 DEF PopBack
    <3> QED BY Zenon, <1>4, <1>5, <2>2, <3>1
  <2>3. CASE s # <<>>
    <3> DEFINE off == LastOffset(pack)
    <3>1. /\ out' = ElementAt(pack, off) /\ pack' = SubSeq(pack, 1, off)
          /\ count' = count - 1 /\ full' = full
      BY Zenon, <1>2, <1>6, <2>1, <2>3 DEF PopBack
    <3>2. off = Offsets(packAll(s))[Rounds(packAll(s)) - 1]
      BY Zenon, <2>1 DEF LastOffset
    <3> HIDE DEF off, t
    <3>3. ElementAt(packAll(s), off) = s[Len(s)] /\ SubSeq(packAll(s), 1, off) = packAll(t)
      BY Zenon, <1>1, <2>3, <3>2, LastOfPack DEF t
    <3>4. out' = s[Len(s)] /\ pack' = packAll(t)
      BY Zenon, <2>1, <3>1, <3>3
    <3>5. Represents(t)'
      BY Zenon, <1>1, <1>3, <1>6, <2>3, <3>1, <3>4, PoppedPack
    <3> QED BY Zenon, <1>4, <2>3, <3>4, <3>5 DEF t
  <2> QED BY Zenon, <2>2, <2>3
<1>7. CASE ~Compact
  <2>1. Holds(full, s)
    BY Zenon, <1>7 DEF Represents
  <2>2. full.tail = 0 <=> s = <<>>
    BY Zenon, <2>1, HoldsWalks
  <2>3. CASE s = <<>>
    <3>1. PopNothing
      BY Zenon, <1>7, <2>2, <2>3 DEF PopBack
    <3> QED BY Zenon, <1>4, <1>5, <2>3, <3>1
  <2>4. CASE s # <<>>
    <3>1. /\ out' = full.nodes[full.tail].value /\ full' = popBack(full)
          /\ pack' = pack /\ count' = count
      BY Zenon, <1>7, <2>2, <2>4 DEF PopBack
    <3>2. full.nodes[full.tail].value = s[Len(s)] /\ Holds(popBack(full), t)
      BY Zenon, <2>1, <2>2, <2>4, PopBackHolds
    <3> HIDE DEF t
    <3>3. Holds(full', t)
      BY Zenon, <3>1, <3>2
    <3>4. Represents(t)'
      BY Zenon, <1>7, <3>1, <3>3, PoppedLinked
    <3> QED BY Zenon, <1>4, <2>4, <3>1, <3>2, <3>4 DEF t
  <2> QED BY Zenon, <2>3, <2>4
<1> QED BY Zenon, <1>6, <1>7

\* No push goes beyond the bound, and no other operation pushes.
LEMMA PushesStep ==
  ASSUME pushes \in 0 .. MaxPushes, [Next]_vars
  PROVE  pushes' \in 0 .. MaxPushes
<1>1. MaxPushes \in Nat
  BY Zenon, ListAssumption
<1>2. CASE pushes' = pushes
  BY Zenon, <1>2
<1>3. ASSUME NEW packed, NEW linked, NEW e, Pushed(packed, linked, e)
      PROVE  pushes' \in 0 .. MaxPushes
  <2>1. pushes < MaxPushes /\ pushes' = pushes + 1
    BY Zenon, <1>3 DEF Pushed
  <2> QED BY SMT, <1>1, <2>1
<1>4. CASE PopFront \/ PopBack \/ UNCHANGED vars
  BY Zenon, <1>2, <1>4 DEF PopFront, PopBack, vars
<1>5. ASSUME NEW e \in Elements, PushFront(e) \/ PushBack(e)
      PROVE  pushes' \in 0 .. MaxPushes
  BY Zenon, <1>3, <1>5 DEF PushFront, PushBack
<1> QED BY Zenon, <1>4, <1>5 DEF Next

\* The empty list, as NewList makes it.
LEMMA InitRepresents ==
  ASSUME Init
  PROVE  Inv /\ Contents = <<>>
<1>1. <<>> \in Seq(Elements) /\ Len(<<>>) = 0
  BY SMT
<1>2. MaxEntries \in Nat /\ MaxPushes \in Nat
  BY Zenon, ListAssumption
<1>3. 0 <= MaxEntries /\ 0 \in 0 .. MaxPushes
  BY SMT, <1>2
<1>4. Represents(<<>>)
  BY Zenon, <1>1, <1>3, PackAllAppend DEF Init, Represents, Compact
<1>5. Contents = <<>>
  BY Zenon, <1>4, Reads
<1> QED BY Zenon, <1>3, <1>4, <1>5 DEF Inv, Init

\* Each step keeps the invariant.
LEMMA InvStep ==
  ASSUME Inv, [Next]_vars
  PROVE  Inv'
<1>1. PICK s : Represents(s)
  BY Zenon DEF Inv
<1>2. out \in Elements \cup {None} /\ pushes' \in 0 .. MaxPushes
  BY Zenon, PushesStep DEF Inv
<1>3. s \in Seq(Elements)
  BY Zenon, <1>1 DEF Represents
<1>4. s # <<>> => s[1] \in Elements /\ s[Len(s)] \in Elements
  BY SMT, <1>3
<1>5. ASSUME NEW e \in Elements, PushFront(e) PROVE Inv'
  BY Zenon, <1>1, <1>2, <1>5, PushFrontStep DEF Inv
<1>6. ASSUME NEW e \in Elements, PushBack(e) PROVE Inv'
  BY Zenon, <1>1, <1>2, <1>6, PushBackStep DEF Inv
<1>7. CASE PopFront
  BY Zenon, <1>1, <1>2, <1>4, <1>7, PopFrontStep DEF Inv
<1>8. CASE PopBack
  BY Zenon, <1>1, <1>2, <1>4, <1>8, PopBackStep DEF Inv
<1>9. CASE UNCHANGED vars
  <2>1. pack' = pack /\ count' = count /\ full' = full /\ out' = out
    BY Zenon, <1>9 DEF vars
  <2>2. Represents(s)'
    BY Zenon, <1>1, <2>1, SameRepresents
  <2> QED BY Zenon, <1>2, <2>1, <2>2 DEF Inv
<1> QED BY Zenon, <1>5, <1>6, <1>7, <1>8, <1>9 DEF Next

\* The invariant holds throughout.
THEOREM ListInvariant ==
  Spec => []Inv
<1>1. Init => Inv
  BY Zenon, InitRepresents
<1>2. Inv /\ [Next]_vars => Inv'
  BY Zenon, InvStep
<1> QED BY <1>1, <1>2, PTL DEF Spec

-----------------------------------------------------------------------------
(* The ranges of LRANGE and ZRANGE. *)

\* A rank lies at or after a non-negative index when it is at least that index, and
\* at or after a negative one when it is at least that far from the end; likewise
\* on the other side.
LEMMA RankOrder ==
  ASSUME NEW n \in Nat, NEW r \in 0 .. n - 1, NEW i \in Int
  PROVE  /\ AtOrBefore(i, r, n) <=> (IF i < 0 THEN n + i ELSE i) <= r
         /\ AtOrAfter(i, r, n) <=> r <= (IF i < 0 THEN n + i ELSE i)
BY DEF AtOrBefore, AtOrAfter, Names

\* normalizeRange (value.go:79-99) returns nothing exactly when no rank lies between
\* the two indices, and otherwise the first and the last of the ranks that do: the
\* loops that count from lo to hi visit no other rank and leave the collection at
\* neither end.
THEOREM NormalizeRangeSelects ==
  ASSUME NEW start \in Int, NEW stop \in Int, NEW n \in Nat
  PROVE  LET r == normalizeRange(start, stop, n)
         IN  /\ r = <<>> <=> SelectedRanks(start, stop, n) = {}
             /\ r # <<>> => SelectedRanks(start, stop, n) = r[1] .. r[2]
<1> DEFINE a  == IF start < 0 THEN n + start ELSE start
           b  == IF stop < 0 THEN n + stop ELSE stop
           lo == IF a < 0 THEN 0 ELSE a
           hi == IF b >= n THEN n - 1 ELSE b
<1>t. a \in Int /\ b \in Int /\ lo \in Nat /\ hi \in Int
  OBVIOUS
<1>1. SelectedRanks(start, stop, n) = {r \in 0 .. n - 1 : a <= r /\ r <= b}
  BY RankOrder DEF SelectedRanks
<1>2. normalizeRange(start, stop, n) =
        IF n = 0 \/ lo > hi \/ lo >= n THEN <<>> ELSE <<lo, hi>>
  BY DEF normalizeRange
<1>3. CASE n = 0 \/ lo > hi \/ lo >= n
  <2>1. normalizeRange(start, stop, n) = <<>>
    BY <1>2, <1>3
  <2>2. \A r \in 0 .. n - 1 : ~(a <= r /\ r <= b)
    BY <1>3, <1>t
  <2> QED BY <2>1, <2>2, <1>1
<1>4. CASE ~(n = 0 \/ lo > hi \/ lo >= n)
  <2>1. normalizeRange(start, stop, n) = <<lo, hi>>
    BY <1>2, <1>4
  <2>2. \A r \in Int : r \in 0 .. n - 1 /\ a <= r /\ r <= b <=> lo <= r /\ r <= hi
    BY <1>4, <1>t
  <2>3. {r \in 0 .. n - 1 : a <= r /\ r <= b} = lo .. hi
    <3> HIDE DEF a, b, lo, hi
    <3> QED BY <2>2, <1>t
  <2>4. lo \in lo .. hi
    BY <1>4, <1>t
  <2> QED BY <2>1, <2>3, <2>4, <1>1
<1> QED BY <1>3, <1>4

\* Its two ranks lie in the collection.
LEMMA RangeBounds ==
  ASSUME NEW start \in Int, NEW stop \in Int, NEW n \in Nat,
         NEW r, r = normalizeRange(start, stop, n), r # <<>>
  PROVE  r[1] \in 0 .. n - 1 /\ r[2] \in r[1] .. n - 1
<1> DEFINE a  == IF start < 0 THEN n + start ELSE start
           b  == IF stop < 0 THEN n + stop ELSE stop
           lo == IF a < 0 THEN 0 ELSE a
           hi == IF b >= n THEN n - 1 ELSE b
<1>1. r = IF n = 0 \/ lo > hi \/ lo >= n THEN <<>> ELSE <<lo, hi>>
  BY Zenon DEF normalizeRange
<1>2. lo \in Nat /\ hi \in Int /\ hi <= n - 1
  BY SMT
<1> HIDE DEF lo, hi
<1>3. ~(n = 0 \/ lo > hi \/ lo >= n) /\ r = <<lo, hi>>
  BY Zenon, <1>1
<1>4. r[1] = lo /\ r[2] = hi
  BY SMT, <1>3
<1> QED BY SMT, <1>2, <1>3, <1>4

\* What should be selected is the part of the sequence between the two ranks.
LEMMA SelectedPart ==
  ASSUME NEW s \in Seq(Elements), NEW start \in Int, NEW stop \in Int,
         NEW r, r = normalizeRange(start, stop, Len(s))
  PROVE  Selected(s, start, stop) = IF r = <<>> THEN <<>> ELSE SubSeq(s, r[1] + 1, r[2] + 1)
<1> DEFINE n == Len(s)
           ranks == SelectedRanks(start, stop, n)
           first == CHOOSE x \in ranks : \A y \in ranks : x <= y
           last  == CHOOSE x \in ranks : \A y \in ranks : x >= y
<1>1. n \in Nat
  BY SMT
<1>2. (r = <<>> <=> ranks = {}) /\ (r # <<>> => ranks = r[1] .. r[2])
  BY Zenon, <1>1, NormalizeRangeSelects
<1>3. Selected(s, start, stop) = IF ranks = {} THEN <<>> ELSE SubSeq(s, first + 1, last + 1)
  BY Zenon DEF Selected
<1>4. CASE r = <<>>
  BY Zenon, <1>2, <1>3, <1>4
<1>5. CASE r # <<>>
  <2>1. r[1] \in 0 .. n - 1 /\ r[2] \in r[1] .. n - 1
    BY Zenon, <1>1, <1>5, RangeBounds
  <2> HIDE DEF n, ranks
  <2>2. /\ r[1] \in r[1] .. r[2] /\ \A y \in r[1] .. r[2] : r[1] <= y
        /\ r[2] \in r[1] .. r[2] /\ \A y \in r[1] .. r[2] : r[2] >= y
        /\ \A x \in r[1] .. r[2] : (x <= r[1] => x = r[1]) /\ (x >= r[2] => x = r[2])
    BY SMT, <1>1, <2>1
  <2>3. first = r[1] /\ last = r[2]
    BY Zenon, <1>2, <1>5, <2>2
  <2> HIDE DEF first, last
  <2> QED BY Zenon, <1>2, <1>3, <1>5, <2>3
<1> QED BY Zenon, <1>4, <1>5

\* A part of a part that starts at the beginning.
LEMMA PartOfPart ==
  ASSUME NEW s \in Seq(Elements), NEW b \in 1 .. Len(s), NEW a \in 1 .. b
  PROVE  SubSeq(SubSeq(s, 1, b), a, b) = SubSeq(s, a, b)
BY SMT

\* Range, by its scan of the pack or along the nodes, selects what it should for
\* every pair of indices.
LEMMA RangeSelectsAll ==
  ASSUME NEW s, Represents(s), NEW start \in Int, NEW stop \in Int
  PROVE  ListRange(start, stop) = Selected(Contents, start, stop)
<1> DEFINE r == normalizeRange(start, stop, Len(s))
<1>1. s \in Seq(Elements) /\ Len(s) \in Nat
  BY Zenon, ElementsPack DEF Represents
<1>2. Contents = s /\ Length = Len(s)
  BY Zenon, Reads
<1>3. Selected(s, start, stop) = IF r = <<>> THEN <<>> ELSE SubSeq(s, r[1] + 1, r[2] + 1)
  BY Zenon, <1>1, SelectedPart
<1>4. ListRange(start, stop) =
        IF r = <<>> THEN <<>>
        ELSE IF Compact THEN SubSeq(packEach(pack), r[1] + 1, r[2] + 1)
        ELSE SubSeq(Walk(full, full.head, r[2] + 1), r[1] + 1, r[2] + 1)
  BY Zenon, <1>2 DEF ListRange
<1>5. CASE r = <<>>
  BY Zenon, <1>2, <1>3, <1>4, <1>5
<1>6. CASE r # <<>> /\ Compact
  <2>1. packEach(pack) = s
    BY Zenon, <1>2, <1>6 DEF Contents
  <2> HIDE DEF r
  <2> QED BY Zenon, <1>2, <1>3, <1>4, <1>6, <2>1
<1>7. CASE r # <<>> /\ ~Compact
  <2>1. r[1] \in 0 .. Len(s) - 1 /\ r[2] \in r[1] .. Len(s) - 1
    BY Zenon, <1>1, <1>7, RangeBounds
  <2> HIDE DEF r
  <2>2. /\ r[2] + 1 \in 0 .. Len(s) /\ r[2] + 1 \in 1 .. Len(s)
        /\ r[1] + 1 \in 1 .. r[2] + 1
    BY SMT, <1>1, <2>1
  <2>3. Holds(full, s)
    BY Zenon, <1>7 DEF Represents
  <2>4. \A m \in 0 .. Len(s) : Walk(full, full.head, m) = SubSeq(s, 1, m)
    BY Zenon, <2>3, HoldsWalks
  <2>5. Walk(full, full.head, r[2] + 1) = SubSeq(s, 1, r[2] + 1)
    BY Zenon, <2>2, <2>4
  <2>6. SubSeq(SubSeq(s, 1, r[2] + 1), r[1] + 1, r[2] + 1) = SubSeq(s, r[1] + 1, r[2] + 1)
    BY Zenon, <1>1, <2>2, PartOfPart
  <2> QED BY Zenon, <1>2, <1>3, <1>4, <1>7, <2>5, <2>6
<1> QED BY Zenon, <1>5, <1>6, <1>7

-----------------------------------------------------------------------------
(* What every list does. *)

\* The counters, the pack and the nodes have their types, the pack stays within
\* MaxEntries, and a promoted list leaves no pack behind (list.go promote).
THEOREM TypeOKHolds ==
  Spec => []TypeOK
<1>1. ASSUME Inv PROVE TypeOK
  <2>1. PICK s : Represents(s)
    BY Zenon, <1>1 DEF Inv
  <2>2. s \in Seq(Elements) /\ s \in Seq(Seq(Byte)) /\ Len(s) \in Nat /\ MaxEntries \in Nat
    BY Zenon, <2>1, ElementsPack, ListAssumption DEF Represents
  <2>3. CASE Compact
    <3>1. pack = packAll(s) /\ count = Len(s) /\ count <= MaxEntries
      BY Zenon, <2>1, <2>3 DEF Represents
    <3>2. packAll(s) \in Seq(Byte)
      BY Zenon, <2>2, PackAllType
    <3>3. count \in 0 .. MaxEntries
      BY SMT, <2>2, <3>1
    <3> QED BY Zenon, <1>1, <2>3, <3>1, <3>2, <3>3 DEF Inv, TypeOK
  <2>4. CASE ~Compact
    <3>1. pack = <<>> /\ count = 0 /\ Typed(full)
      BY Zenon, <2>1, <2>4 DEF Represents, Holds
    <3>2. <<>> \in Seq(Byte) /\ 0 \in 0 .. MaxEntries
      BY SMT, <2>2
    <3> DEFINE N == Len(full.nodes)
    <3>3. /\ full.head \in Nat /\ full.tail \in Nat /\ N \in Nat /\ full.head <= N /\ full.tail <= N
          /\ \A m \in 1 .. N : full.nodes[m] \in Node
      BY Zenon, <3>1, Fields
    <3>4. \A m \in 1 .. N : full.nodes[m].prev <= N /\ full.nodes[m].next <= N
      BY Zenon, <3>1 DEF Typed
    <3> HIDE DEF N
    <3>5. ASSUME NEW m \in 1 .. N
          PROVE  /\ full.nodes[m].value \in Elements
                 /\ {full.nodes[m].prev, full.nodes[m].next} \subseteq 0 .. N
      <4>1. full.nodes[m].value \in Elements /\ full.nodes[m].prev \in Nat /\ full.nodes[m].next \in Nat
        BY Zenon, <3>3, NodeFields
      <4>2. full.nodes[m].prev <= N /\ full.nodes[m].next <= N
        BY Zenon, <3>4
      <4>3. \A x \in Nat : x <= N => x \in 0 .. N
        BY SMT, <3>3
      <4> QED BY Zenon, <4>1, <4>2, <4>3
    <3>6. {full.head, full.tail} \subseteq 0 .. N
      <4>1. \A x \in Nat : x <= N => x \in 0 .. N
        BY SMT, <3>3
      <4> QED BY Zenon, <3>3, <4>1
    <3> QED BY Zenon, <1>1, <3>1, <3>2, <3>5, <3>6 DEF Inv, TypeOK, N
  <2> QED BY Zenon, <2>3, <2>4
<1>2. Inv => TypeOK
  BY Zenon, <1>1
<1> QED BY <1>2, ListInvariant, PTL

\* Read from the back a list is what it is from the front, and its length is the
\* number of its elements, whatever was pushed and popped at either end and
\* whether it was promoted (fullList, list.go:142-221).
THEOREM BothWaysHolds ==
  Spec => []BothWays
<1>1. Inv => BothWays
  BY Zenon, Reads DEF Inv, BothWays
<1> QED BY <1>1, ListInvariant, PTL

\* LRANGE selects what it should, for all indices.
RangeSelectsEvery ==
  \A start, stop \in Int : ListRange(start, stop) = Selected(Contents, start, stop)

\* In either encoding List.Range (list.go:102-123) yields the elements whose ranks
\* lie between the two indices, however far outside the list these are.
\* RangeSelects, which TLC checks, is the part of it around the bounds.
THEOREM RangeSelectsHolds ==
  Spec => [](RangeSelectsEvery /\ RangeSelects)
<1>1. ASSUME Inv PROVE RangeSelectsEvery
  <2>1. PICK s : Represents(s)
    BY Zenon, <1>1 DEF Inv
  <2> QED BY Zenon, <2>1, RangeSelectsAll DEF RangeSelectsEvery
<1>2. ASSUME Inv, RangeSelectsEvery PROVE RangeSelects
  <2>1. PICK s : Represents(s)
    BY Zenon, <1>2 DEF Inv
  <2>2. Length = Len(s) /\ Len(s) \in Nat
    BY Zenon, <2>1, Reads, ElementsPack DEF Represents
  <2>3. \A x \in -(Length + 2) .. Length + 2 : x \in Int
    BY SMT, <2>2
  <2> QED BY Zenon, <1>2, <2>3 DEF RangeSelectsEvery, RangeSelects
<1>3. Inv => RangeSelectsEvery /\ RangeSelects
  BY Zenon, <1>1, <1>2
<1> QED BY <1>3, ListInvariant, PTL

\* What the list represents is read back.
ReadBack == \A s : Represents(s) => Contents = s

\* It is, before and after a step.
LEMMA ReadBackAlways ==
  ReadBack /\ ReadBack'
<1>1. ReadBack
  BY Zenon, Reads DEF ReadBack
<1> QED BY <1>1, PTL

\* A step of the list is a step of the deque of its contents.
LEMMA StepRefines ==
  ASSUME Inv, [Next]_vars
  PROVE  [Abstract!Next]_<<Contents, out, call>>
<1>1. PICK s : Represents(s)
  BY Zenon DEF Inv
<1>2. Contents = s /\ \A t : Represents(t)' => Contents' = t
  BY Zenon, <1>1, ReadBackAlways DEF ReadBack
<1>3. ASSUME NEW e \in Elements, PushFront(e) PROVE Abstract!PushFront(e)
  BY Zenon, <1>1, <1>2, <1>3, PushFrontStep DEF Abstract!PushFront
<1>4. ASSUME NEW e \in Elements, PushBack(e) PROVE Abstract!PushBack(e)
  BY Zenon, <1>1, <1>2, <1>4, PushBackStep DEF Abstract!PushBack
<1>5. CASE PopFront
  <2>1. Abstract!PopFront
    BY Zenon, <1>1, <1>2, <1>5, PopFrontStep DEF Abstract!PopFront
  <2> QED BY Zenon, <2>1 DEF Abstract!Next
<1>6. CASE PopBack
  <2>1. Abstract!PopBack
    BY Zenon, <1>1, <1>2, <1>6, PopBackStep DEF Abstract!PopBack
  <2> QED BY Zenon, <2>1 DEF Abstract!Next
<1>7. CASE UNCHANGED vars
  <2>1. pack' = pack /\ count' = count /\ full' = full /\ out' = out /\ call' = call
    BY Zenon, <1>7 DEF vars
  <2>2. Contents' = Contents
    BY Zenon, <1>1, <1>2, <2>1, SameRepresents
  <2> QED BY Zenon, <2>1, <2>2
<1> QED BY Zenon, <1>3, <1>4, <1>5, <1>6, <1>7 DEF Next, Abstract!Next

\* A list does what a double-ended queue does: whichever encoding it has, and
\* through its promotion, no element is lost, duplicated, cut or moved, each push
\* adds at the end it names and each pop answers with what it removed
\* (list.go:45-100 and 125-204).
THEOREM ListImplementsDeque ==
  Spec => ImplementsDeque
<1>1. Init => Abstract!Init
  BY Zenon, InitRepresents DEF Init, Abstract!Init
<1>2. Inv /\ [Next]_vars => [Abstract!Next]_<<Contents, out, call>>
  BY Zenon, StepRefines
<1> QED BY <1>1, <1>2, ListInvariant, PTL DEF Spec, ImplementsDeque, Abstract!Spec
=============================================================================
