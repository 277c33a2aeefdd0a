-------------------------------- MODULE Pack --------------------------------
(***************************************************************************)
(* A pack: the flat encoding of a small collection, in which each element  *)
(* follows its length.  Elements and packs are sequences of bytes, and     *)
(* offsets into them count from 0.                                         *)
(***************************************************************************)
EXTENDS Integers, Sequences

CONSTANTS Base  \* a varint has digits to this base: 128 in encoding/binary

ASSUME PackAssumption == Base \in Nat /\ 2 <= Base

\* A byte: a digit, with or without the high bit.
Byte == 0 .. 2 * Base - 1

\* binary.PutUvarint: the digits of n, the lowest first; all but the last are
\* marked by the high bit.
PutUvarint(n) ==
  LET digits[k \in 0 .. n] ==
        IF k < Base THEN <<k>> ELSE <<Base + (k % Base)>> \o digits[k \div Base]
  IN  digits[n]

\* binary.Uvarint: the number at offset off, and how many bytes it takes; none if
\* the buffer ends before the number does.
Uvarint(buf, off) ==
  LET from[i \in 1 .. Len(buf) + 1] ==
        IF i > Len(buf) THEN <<0, 0>>
        ELSE IF buf[i] < Base THEN <<buf[i], 1>>
        ELSE LET rest == from[i + 1]
             IN  IF rest[2] = 0 THEN rest ELSE <<buf[i] - Base + Base * rest[1], 1 + rest[2]>>
  IN  from[off + 1]

packAppend(buf, e) == buf \o PutUvarint(Len(e)) \o e

\* The element whose length stands at offset off, and the offset after it.
After(buf, off)     == LET n == Uvarint(buf, off) IN off + n[2] + n[1]
ElementAt(buf, off) == LET n == Uvarint(buf, off) IN SubSeq(buf, off + n[2] + 1, off + n[2] + n[1])

\* Where the loop over the elements of a pack stands after each of its rounds.
Offsets(buf) ==
  LET at[i \in 0 .. Len(buf)] ==
        IF i = 0 THEN 0
        ELSE LET off == at[i - 1] IN IF off < Len(buf) THEN After(buf, off) ELSE off
  IN  at

\* The number of its rounds.
Rounds(buf) ==
  LET at == Offsets(buf)
  IN  CHOOSE n \in 0 .. Len(buf) : at[n] >= Len(buf) /\ \A i \in 0 .. n - 1 : at[i] < Len(buf)

\* packEach: the elements in order.
packEach(buf) ==
  LET at == Offsets(buf) IN [i \in 1 .. Rounds(buf) |-> ElementAt(buf, at[i - 1])]

\* The elements packed one after the other.
packAll(elems) ==
  LET buf[n \in 0 .. Len(elems)] == IF n = 0 THEN <<>> ELSE packAppend(buf[n - 1], elems[n])
  IN  buf[Len(elems)]
=============================================================================
