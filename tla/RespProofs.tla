----------------------------- MODULE RespProofs -----------------------------
(***************************************************************************)
(* The readers of RESP, for every stream.  A reader either asks for more   *)
(* or returns what it would with more input: it does not matter where TCP  *)
(* cuts the stream.  And it gives back what was written: the server's      *)
(* reader the commands of the client's writer, the client's reader the     *)
(* replies of the server's.                                                *)
(***************************************************************************)
EXTENDS Resp, WellFoundedInduction, TLAPS

USE Zenon, SMT

-----------------------------------------------------------------------------
(* Reading and writing one piece after the other (module Parsing). *)

\* A set of natural numbers has a least one.
LEMMA LeastNumber ==
  ASSUME NEW T \in SUBSET Nat, T # {}
  PROVE  \E x \in T : \A y \in T : x <= y
<1>1. PICK x \in T : \A y \in T : ~(<<y, x>> \in OpToRel(<, Nat))
  BY WFMin, NatLessThanWellFounded
<1>2. ASSUME NEW y \in T PROVE x <= y
  <2>1. x \in Nat /\ y \in Nat /\ ~(<<y, x>> \in OpToRel(<, Nat))
    BY <1>1
  <2> QED BY SMT, <2>1 DEF OpToRel
<1> QED BY <1>2

\* Induction, for the members of a set that holds 0 and with a number the next one.
LEMMA Induction ==
  ASSUME NEW T, 0 \in T, \A k \in Nat : k \in T => k + 1 \in T
  PROVE  \A k \in Nat : k \in T
<1> DEFINE Rest == {k \in Nat : k \notin T}
<1>1. ASSUME Rest # {} PROVE FALSE
  <2>1. PICK k \in Rest : \A j \in Rest : k <= j
    BY <1>1, LeastNumber
  <2>2. k \in Nat /\ k # 0 /\ k \notin T
    OBVIOUS
  <2>3. k - 1 \in Nat /\ (k - 1) + 1 = k /\ ~(k <= k - 1)
    BY SMT, <2>2
  <2>4. k - 1 \in T
    BY <2>1, <2>3
  <2> QED BY <2>2, <2>3, <2>4
<1> QED BY <1>1

\* Reading n items by Repeat, step by step.
Step(r, item) ==
  IF r.st # "ok" THEN r
  ELSE IF item[r.at].st # "ok" THEN item[r.at]
  ELSE Ok(item[r.at].at, Append(r.val, item[r.at].val))

\* f is what Repeat computes for the first n items.
Reads(f, item, i, n) ==
  f = [k \in 0 .. n |-> IF k = 0 THEN Ok(i, <<>>) ELSE Step(f[k - 1], item)]

\* The function that Repeat defines exists,
LEMMA ReadsExist ==
  ASSUME NEW item, NEW i
  PROVE  \A n \in Nat : \E f : Reads(f, item, i, n)
<1> DEFINE T == {n \in Nat : \E f : Reads(f, item, i, n)}
<1>1. 0 \in T
  <2> DEFINE f == [k \in 0 .. 0 |-> Ok(i, <<>>)]
  <2>1. f = [k \in 0 .. 0 |-> IF k = 0 THEN Ok(i, <<>>) ELSE Step(f[k - 1], item)]
    BY SMT
  <2> HIDE DEF f
  <2> QED BY <2>1 DEF Reads
<1>2. ASSUME NEW n \in Nat, n \in T PROVE n + 1 \in T
  <2>1. PICK f : Reads(f, item, i, n)
    BY <1>2
  <2>2. f = [k \in 0 .. n |-> IF k = 0 THEN Ok(i, <<>>) ELSE Step(f[k - 1], item)]
    BY <2>1 DEF Reads
  <2> DEFINE g == [k \in 0 .. n + 1 |-> IF k = n + 1 THEN Step(f[n], item) ELSE f[k]]
  <2>3. ASSUME NEW k \in 0 .. n + 1
        PROVE  g[k] = IF k = 0 THEN Ok(i, <<>>) ELSE Step(g[k - 1], item)
    <3>1. CASE k = n + 1
      <4>1. k # 0 /\ k - 1 \in 0 .. n + 1 /\ k - 1 = n /\ n # n + 1
        BY SMT, <3>1
      <4> QED BY Zenon, <3>1, <4>1
    <3>2. CASE k # n + 1 /\ k # 0
      <4>1. k \in 0 .. n /\ k - 1 \in 0 .. n + 1 /\ k - 1 # n + 1
        BY SMT, <3>2
      <4>2. g[k] = f[k] /\ g[k - 1] = f[k - 1]
        BY Zenon, <3>2, <4>1
      <4>3. f[k] = IF k = 0 THEN Ok(i, <<>>) ELSE Step(f[k - 1], item)
        BY Zenon, <2>2, <4>1
      <4> QED BY Zenon, <4>2, <4>3
    <3>3. CASE k = 0
      <4>1. k \in 0 .. n /\ k # n + 1
        BY SMT, <3>3
      <4>2. g[k] = f[k] 
        BY Zenon, <4>1
      <4>3. f[k] = IF k = 0 THEN Ok(i, <<>>) ELSE Step(f[k - 1], item)
        BY Zenon, <2>2, <4>1
      <4> QED BY Zenon, <4>2, <4>3, <3>3
    <3> QED BY <3>1, <3>2, <3>3
  <2>4. g = [k \in 0 .. n + 1 |-> IF k = 0 THEN Ok(i, <<>>) ELSE Step(g[k - 1], item)]
    <3>1. g = [k \in 0 .. n + 1 |-> g[k]]
      OBVIOUS
    <3> HIDE DEF g
    <3> QED BY Zenon, <2>3, <3>1
  <2> HIDE DEF g
  <2>5. Reads(g, item, i, n + 1)
    BY <2>4 DEF Reads
  <2> QED BY <2>5
<1> HIDE DEF T
<1>3. \A n \in Nat : n \in T
  BY <1>1, <1>2, Induction
<1> QED BY <1>3 DEF T

\* and what it gives for the first k items does not depend on n.
LEMMA ReadsAgree ==
  ASSUME NEW item, NEW i, NEW n \in Nat, NEW m \in Nat, NEW f, NEW g, n <= m,
         Reads(f, item, i, n), Reads(g, item, i, m)
  PROVE  f[n] = g[n]
<1> DEFINE T == {k \in Nat : k <= n => f[k] = g[k]}
<1>1. f = [k \in 0 .. n |-> IF k = 0 THEN Ok(i, <<>>) ELSE Step(f[k - 1], item)]
  BY DEF Reads
<1>2. g = [k \in 0 .. m |-> IF k = 0 THEN Ok(i, <<>>) ELSE Step(g[k - 1], item)]
  BY DEF Reads
<1>3. 0 \in T
  <2>1. 0 \in 0 .. n /\ 0 \in 0 .. m
    BY SMT
  <2>2. f[0] = Ok(i, <<>>) /\ g[0] = Ok(i, <<>>)
    BY Zenon, <1>1, <1>2, <2>1
  <2> QED BY <2>2
<1>4. ASSUME NEW k \in Nat, k \in T PROVE k + 1 \in T
  <2>1. CASE k + 1 <= n
    <3>1. k + 1 \in Nat /\ k <= n /\ k + 1 \in 0 .. n /\ k + 1 \in 0 .. m /\ k + 1 # 0 /\ (k + 1) - 1 = k
      BY SMT, <2>1
    <3>2. f[k] = g[k]
      BY <1>4, <3>1
    <3>3. f[k + 1] = Step(f[k], item)
      BY Zenon, <1>1, <3>1
    <3>4. g[k + 1] = Step(g[k], item)
      BY Zenon, <1>2, <3>1
    <3> QED BY Zenon, <3>1, <3>2, <3>3, <3>4
  <2> QED BY <2>1
<1> HIDE DEF T
<1>5. n \in T
  BY <1>3, <1>4, Induction
<1>6. n <= n
  BY SMT
<1> QED BY <1>5, <1>6 DEF T

\* Hence Repeat reads one item after the other.
LEMMA RepeatReads ==
  ASSUME NEW item, NEW i, NEW n \in Nat
  PROVE  \E f : Reads(f, item, i, n) /\ Repeat(item, i, n) = f[n]
<1> DEFINE F == CHOOSE f : Reads(f, item, i, n)
<1>1. Reads(F, item, i, n)
  BY ReadsExist
<1>2. \A r : Then(r, LAMBDA at, items : Then(item[at], LAMBDA end, x : Ok(end, Append(items, x))))
             = Step(r, item)
  BY DEF Then, Step
<1>3. Repeat(item, i, n) = F[n]
  BY <1>2 DEF Repeat, Reads
<1> QED BY <1>1, <1>3

\* Repeat (Parsing) reads one more item behind the ones before, as the loops of reader.go
\* and memcore.go do.
LEMMA RepeatStep ==
  ASSUME NEW item, NEW i
  PROVE  /\ Repeat(item, i, 0) = Ok(i, <<>>)
         /\ \A n \in Nat : Repeat(item, i, n + 1) = Step(Repeat(item, i, n), item)
<1>1. Repeat(item, i, 0) = Ok(i, <<>>)
  <2>1. PICK f : Reads(f, item, i, 0) /\ Repeat(item, i, 0) = f[0]
    BY RepeatReads
  <2>2. 0 \in 0 .. 0
    BY SMT
  <2> QED BY <2>1, <2>2 DEF Reads
<1>2. ASSUME NEW n \in Nat PROVE Repeat(item, i, n + 1) = Step(Repeat(item, i, n), item)
  <2>1. n + 1 \in Nat /\ n + 1 \in 0 .. n + 1 /\ n + 1 # 0 /\ (n + 1) - 1 = n /\ n <= n + 1
    BY SMT
  <2>2. PICK f : Reads(f, item, i, n) /\ Repeat(item, i, n) = f[n]
    BY RepeatReads
  <2>3. PICK g : Reads(g, item, i, n + 1) /\ Repeat(item, i, n + 1) = g[n + 1]
    BY <2>1, RepeatReads
  <2>4. f[n] = g[n]
    BY <2>1, <2>2, <2>3, ReadsAgree
  <2>5. g = [k \in 0 .. n + 1 |-> IF k = 0 THEN Ok(i, <<>>) ELSE Step(g[k - 1], item)]
    BY <2>3 DEF Reads
  <2>6. g[n + 1] = Step(g[n], item)
    BY Zenon, <2>1, <2>5
  <2> QED BY Zenon, <2>2, <2>3, <2>4, <2>6
<1> QED BY <1>1, <1>2

\* f is what ConcatTo computes for the first n pieces.
Joins(f, pieces, n) ==
  f = [k \in 0 .. n |-> IF k = 0 THEN <<>> ELSE f[k - 1] \o pieces[k]]

\* The function that ConcatTo defines exists,
LEMMA JoinsExist ==
  ASSUME NEW pieces
  PROVE  \A n \in Nat : \E f : Joins(f, pieces, n)
<1> DEFINE T == {n \in Nat : \E f : Joins(f, pieces, n)}
<1>1. 0 \in T
  <2> DEFINE f == [k \in 0 .. 0 |-> <<>>]
  <2>1. f = [k \in 0 .. 0 |-> IF k = 0 THEN <<>> ELSE f[k - 1] \o pieces[k]]
    BY SMT
  <2> HIDE DEF f
  <2> QED BY <2>1 DEF Joins
<1>2. ASSUME NEW n \in Nat, n \in T PROVE n + 1 \in T
  <2>1. PICK f : Joins(f, pieces, n)
    BY <1>2
  <2>2. f = [k \in 0 .. n |-> IF k = 0 THEN <<>> ELSE f[k - 1] \o pieces[k]]
    BY <2>1 DEF Joins
  <2> DEFINE g == [k \in 0 .. n + 1 |-> IF k = n + 1 THEN f[n] \o pieces[n + 1] ELSE f[k]]
  <2>3. ASSUME NEW k \in 0 .. n + 1
        PROVE  g[k] = IF k = 0 THEN <<>> ELSE g[k - 1] \o pieces[k]
    <3>1. CASE k = n + 1
      <4>1. k # 0 /\ k - 1 \in 0 .. n + 1 /\ k - 1 = n /\ n # n + 1
        BY SMT, <3>1
      <4> QED BY Zenon, <3>1, <4>1
    <3>2. CASE k # n + 1 /\ k # 0
      <4>1. k \in 0 .. n /\ k - 1 \in 0 .. n + 1 /\ k - 1 # n + 1
        BY SMT, <3>2
      <4>2. g[k] = f[k] /\ g[k - 1] = f[k - 1]
        BY Zenon, <3>2, <4>1
      <4>3. f[k] = IF k = 0 THEN <<>> ELSE f[k - 1] \o pieces[k]
        BY Zenon, <2>2, <4>1
      <4> QED BY Zenon, <4>2, <4>3
    <3>3. CASE k = 0
      <4>1. k \in 0 .. n /\ k # n + 1
        BY SMT, <3>3
      <4>2. g[k] = f[k] 
        BY Zenon, <4>1
      <4>3. f[k] = IF k = 0 THEN <<>> ELSE f[k - 1] \o pieces[k]
        BY Zenon, <2>2, <4>1
      <4> QED BY Zenon, <4>2, <4>3, <3>3
    <3> QED BY <3>1, <3>2, <3>3
  <2>4. g = [k \in 0 .. n + 1 |-> IF k = 0 THEN <<>> ELSE g[k - 1] \o pieces[k]]
    <3>1. g = [k \in 0 .. n + 1 |-> g[k]]
      OBVIOUS
    <3> HIDE DEF g
    <3> QED BY Zenon, <2>3, <3>1
  <2> HIDE DEF g
  <2>5. Joins(g, pieces, n + 1)
    BY <2>4 DEF Joins
  <2> QED BY <2>5
<1> HIDE DEF T
<1>3. \A n \in Nat : n \in T
  BY <1>1, <1>2, Induction
<1> QED BY <1>3 DEF T

\* and what it gives for the first k pieces does not depend on n.
LEMMA JoinsAgree ==
  ASSUME NEW pieces, NEW n \in Nat, NEW m \in Nat, NEW f, NEW g, n <= m,
         Joins(f, pieces, n), Joins(g, pieces, m)
  PROVE  f[n] = g[n]
<1> DEFINE T == {k \in Nat : k <= n => f[k] = g[k]}
<1>1. f = [k \in 0 .. n |-> IF k = 0 THEN <<>> ELSE f[k - 1] \o pieces[k]]
  BY DEF Joins
<1>2. g = [k \in 0 .. m |-> IF k = 0 THEN <<>> ELSE g[k - 1] \o pieces[k]]
  BY DEF Joins
<1>3. 0 \in T
  <2>1. 0 \in 0 .. n /\ 0 \in 0 .. m
    BY SMT
  <2>2. f[0] = <<>> /\ g[0] = <<>>
    BY Zenon, <1>1, <1>2, <2>1
  <2> QED BY <2>2
<1>4. ASSUME NEW k \in Nat, k \in T PROVE k + 1 \in T
  <2>1. CASE k + 1 <= n
    <3>1. k + 1 \in Nat /\ k <= n /\ k + 1 \in 0 .. n /\ k + 1 \in 0 .. m /\ k + 1 # 0 /\ (k + 1) - 1 = k
      BY SMT, <2>1
    <3>2. f[k] = g[k]
      BY <1>4, <3>1
    <3>3. f[k + 1] = f[k] \o pieces[k + 1]
      BY Zenon, <1>1, <3>1
    <3>4. g[k + 1] = g[k] \o pieces[k + 1]
      BY Zenon, <1>2, <3>1
    <3> QED BY Zenon, <3>1, <3>2, <3>3, <3>4
  <2> QED BY <2>1
<1> HIDE DEF T
<1>5. n \in T
  BY <1>3, <1>4, Induction
<1>6. n <= n
  BY SMT
<1> QED BY <1>5, <1>6 DEF T

\* Hence ConcatTo adds one piece after the other.
LEMMA ConcatToJoins ==
  ASSUME NEW pieces, NEW n \in Nat
  PROVE  \E f : Joins(f, pieces, n) /\ ConcatTo(pieces, n) = f[n]
<1> DEFINE F == CHOOSE f : Joins(f, pieces, n)
<1>1. Joins(F, pieces, n)
  BY JoinsExist
<1>2. ConcatTo(pieces, n) = F[n]
  BY DEF ConcatTo, Joins
<1> QED BY <1>1, <1>2

\* ConcatTo (Parsing) writes one more piece behind the ones before.
LEMMA ConcatToStep ==
  ASSUME NEW pieces
  PROVE  /\ ConcatTo(pieces, 0) = <<>>
         /\ \A n \in Nat : ConcatTo(pieces, n + 1) = ConcatTo(pieces, n) \o pieces[n + 1]
<1>1. ConcatTo(pieces, 0) = <<>>
  <2>1. PICK f : Joins(f, pieces, 0) /\ ConcatTo(pieces, 0) = f[0]
    BY ConcatToJoins
  <2>2. 0 \in 0 .. 0
    BY SMT
  <2> QED BY <2>1, <2>2 DEF Joins
<1>2. ASSUME NEW n \in Nat PROVE ConcatTo(pieces, n + 1) = ConcatTo(pieces, n) \o pieces[n + 1]
  <2>1. n + 1 \in Nat /\ n + 1 \in 0 .. n + 1 /\ n + 1 # 0 /\ (n + 1) - 1 = n /\ n <= n + 1
    BY SMT
  <2>2. PICK f : Joins(f, pieces, n) /\ ConcatTo(pieces, n) = f[n]
    BY ConcatToJoins
  <2>3. PICK g : Joins(g, pieces, n + 1) /\ ConcatTo(pieces, n + 1) = g[n + 1]
    BY <2>1, ConcatToJoins
  <2>4. f[n] = g[n]
    BY <2>1, <2>2, <2>3, JoinsAgree
  <2>5. g = [k \in 0 .. n + 1 |-> IF k = 0 THEN <<>> ELSE g[k - 1] \o pieces[k]]
    BY <2>3 DEF Joins
  <2>6. g[n + 1] = g[n] \o pieces[n + 1]
    BY Zenon, <2>1, <2>5
  <2> QED BY Zenon, <2>2, <2>3, <2>4, <2>6
<1> QED BY <1>1, <1>2

-----------------------------------------------------------------------------
(* Prefixes of streams. *)

\* Streams, and positions in them.
Tokens == Seq(Token)
Pos    == Nat \ {0}

\* What a prefix of a stream holds, and where it is cut.
LEMMA Prefix ==
  ASSUME NEW s \in Tokens, NEW t \in Tokens
  PROVE  /\ s \o t \in Tokens /\ Len(s) \in Nat /\ Len(t) \in Nat /\ Len(s \o t) = Len(s) + Len(t)
         /\ \A k \in 1 .. Len(s) : (s \o t)[k] = s[k]
         /\ \A k \in 1 .. Len(t) : (s \o t)[Len(s) + k] = t[k]
BY SMT DEF Tokens

\* A part of a prefix of a stream is that part of the stream.
LEMMA PrefixCut ==
  ASSUME NEW s \in Tokens, NEW t \in Tokens, NEW i \in Pos, NEW j \in Int, j <= Len(s)
  PROVE  SubSeq(s \o t, i, j) = SubSeq(s, i, j)
BY SMT DEF Tokens, Pos

\* The line end is the first one.
FirstEnd(s, i, k) ==
  /\ k \in Int /\ i <= k /\ k <= Len(s) /\ s[k] \in LineEnds
  /\ \A j \in Int : i <= j /\ j < k => s[j] \notin LineEnds

\* LineEnd, which is bufio's ReadSlice, finds the first line end,
LEMMA LineEndIs ==
  ASSUME NEW s \in Tokens, NEW i \in Pos, NEW k, FirstEnd(s, i, k)
  PROVE  LineEnd(s, i) = k
<1> DEFINE ends == {j \in i .. Len(s) : s[j] \in LineEnds}
<1>0. Len(s) \in Nat
  BY DEF Tokens
<1>1. k \in ends /\ \A j \in ends : k <= j
  BY SMT, <1>0 DEF FirstEnd, Pos
<1>2. \A j \in ends : (\A l \in ends : j <= l) => j = k
  BY SMT, <1>0, <1>1 DEF Pos, FirstEnd
<1>3. LineEnd(s, i) = CHOOSE j \in ends : \A l \in ends : j <= l
  BY <1>1 DEF LineEnd
<1> HIDE DEF ends
<1> QED BY Zenon, <1>1, <1>2, <1>3

\* if there is one.
LEMMA LineEndFirst ==
  ASSUME NEW s \in Tokens, NEW i \in Pos
  PROVE  \/ LineEnd(s, i) = 0 /\ \A j \in i .. Len(s) : s[j] \notin LineEnds
         \/ FirstEnd(s, i, LineEnd(s, i))
<1> DEFINE ends == {j \in i .. Len(s) : s[j] \in LineEnds}
<1>0. Len(s) \in Nat
  BY DEF Tokens
<1>1. CASE ends = {}
  BY <1>1 DEF LineEnd
<1>2. CASE ends # {}
  <2>1. ends \in SUBSET Nat
    BY SMT, <1>0 DEF Pos
  <2> HIDE DEF ends
  <2>2. PICK k \in ends : \A j \in ends : k <= j
    BY <1>2, <2>1, LeastNumber
  <2>3. FirstEnd(s, i, k)
    BY SMT, <1>0, <2>2 DEF ends, FirstEnd, Pos
  <2> QED BY <2>3, LineEndIs
<1> QED BY <1>1, <1>2

\* More input does not move it.
LEMMA LineEndStays ==
  ASSUME NEW s \in Tokens, NEW t \in Tokens, NEW i \in Pos
  PROVE  \/ FirstEnd(s, i, LineEnd(s, i)) /\ LineEnd(s \o t, i) = LineEnd(s, i)
         \/ LineEnd(s, i) = 0 /\ (LineEnd(s \o t, i) = 0 \/ (LineEnd(s \o t, i) \in Int /\ LineEnd(s \o t, i) > Len(s)))
<1>p. /\ s \o t \in Tokens /\ Len(s) \in Nat /\ Len(t) \in Nat /\ Len(s \o t) = Len(s) + Len(t)
      /\ \A k \in 1 .. Len(s) : (s \o t)[k] = s[k]
  BY Prefix
<1>1. CASE FirstEnd(s, i, LineEnd(s, i))
  <2>1. FirstEnd(s \o t, i, LineEnd(s, i))
    BY SMT, <1>1, <1>p DEF FirstEnd, Pos
  <2> QED BY <1>1, <1>p, <2>1, LineEndIs
<1>2. CASE LineEnd(s, i) = 0 /\ \A j \in i .. Len(s) : s[j] \notin LineEnds
  <2>1. CASE FirstEnd(s \o t, i, LineEnd(s \o t, i))
    BY SMT, <1>2, <1>p, <2>1 DEF FirstEnd, Pos
  <2> QED BY <1>2, <2>1, <1>p, LineEndFirst
<1> QED BY <1>1, <1>2, LineEndFirst

-----------------------------------------------------------------------------
(* A reader that does not ask for more would give the same with more input. *)

\* The result r on n tokens is the result q on more of them, unless r asks for more.
Firm(r, q, n) ==
  r.st = "more" \/ (q = r /\ (r.st \in {"ok", "error"} => r.at \in Pos /\ r.at <= n + 1))

\* readLine of reader.go: a line that is complete, or too long, stays so.
LEMMA readLineStays ==
  ASSUME NEW s \in Tokens, NEW t \in Tokens, NEW i \in Pos
  PROVE  Firm(readLine(s, i), readLine(s \o t, i), Len(s))
<1> DEFINE e == LineEnd(s, i)
           f == LineEnd(s \o t, i)
<1>p. /\ s \o t \in Tokens /\ Len(s) \in Nat /\ Len(t) \in Nat /\ Len(s \o t) = Len(s) + Len(t)
      /\ \A k \in 1 .. Len(s) : (s \o t)[k] = s[k]
  BY Prefix
<1>b. ReadBuffer \in Nat
  BY RespAssumption
<1>l. /\ readLine(s, i) =
           IF e = 0 /\ Len(s) - i + 1 < ReadBuffer THEN More
           ELSE IF e = 0 \/ e - i >= ReadBuffer \/ s[e] = "lf" THEN Bad
           ELSE Ok(e + 1, SubSeq(s, i, e - 1))
      /\ readLine(s \o t, i) =
           IF f = 0 /\ Len(s \o t) - i + 1 < ReadBuffer THEN More
           ELSE IF f = 0 \/ f - i >= ReadBuffer \/ (s \o t)[f] = "lf" THEN Bad
           ELSE Ok(f + 1, SubSeq(s \o t, i, f - 1))
  BY DEF readLine
<1> HIDE DEF e, f
<1>1. CASE FirstEnd(s, i, e) /\ f = e
  <2>1. e \in Pos /\ e <= Len(s) /\ e - 1 \in Int /\ e - 1 <= Len(s) /\ e # 0 /\ e \in 1 .. Len(s)
        /\ e + 1 \in Pos /\ e + 1 <= Len(s) + 1
    BY SMT, <1>1, <1>p DEF FirstEnd, Pos
  <2>2. SubSeq(s \o t, i, e - 1) = SubSeq(s, i, e - 1) /\ (s \o t)[e] = s[e]
    BY <2>1, <1>p, PrefixCut
  <2> DEFINE line == IF e - i >= ReadBuffer \/ s[e] = "lf" THEN Bad ELSE Ok(e + 1, SubSeq(s, i, e - 1))
  <2>3. readLine(s, i) = line
    BY Zenon, <1>l, <2>1
  <2>4. readLine(s \o t, i) = line
    BY Zenon, <1>l, <1>1, <2>1, <2>2
  <2>5. line = Bad \/ line = Ok(e + 1, SubSeq(s, i, e - 1))
    OBVIOUS
  <2> HIDE DEF line
  <2> QED BY <2>1, <2>3, <2>4, <2>5 DEF Firm, Bad, Ok, Stopped
<1>2. CASE e = 0 /\ (f = 0 \/ (f \in Int /\ f > Len(s)))
  <2>1. CASE Len(s) - i + 1 < ReadBuffer
    BY <1>l, <1>2, <2>1 DEF Firm, More, Stopped
  <2>2. CASE ~(Len(s) - i + 1 < ReadBuffer)
    <3>1. ~(Len(s \o t) - i + 1 < ReadBuffer) /\ (f = 0 \/ f - i >= ReadBuffer)
      BY SMT, <1>p, <1>b, <1>2, <2>2 DEF Pos
    <3>2. readLine(s, i) = Bad /\ readLine(s \o t, i) = Bad
      BY <1>l, <1>2, <2>2, <3>1
    <3> QED BY <3>2 DEF Firm, Bad, Stopped
  <2> QED BY <2>1, <2>2
<1> QED BY <1>1, <1>2, LineEndStays DEF e, f

\* readCount of reader.go goes on from readLine's result, which stays.
LEMMA readCountStays ==
  ASSUME NEW s \in Tokens, NEW t \in Tokens, NEW i \in Pos
  PROVE  /\ Firm(readCount(s, i), readCount(s \o t, i), Len(s))
         /\ readCount(s, i).st = "ok" => readCount(s, i).val \in Counts
<1> DEFINE Count(r) == IF r.st # "ok" THEN r
                       ELSE IF Len(r.val) = 1 /\ IsCount(r.val[1]) THEN Ok(r.at, Atoi(r.val[1])) ELSE Bad
           r == readLine(s, i)
           q == readLine(s \o t, i)
<1>1. readCount(s, i) = Count(r) /\ readCount(s \o t, i) = Count(q)
  BY DEF readCount, Then
<1>2. Firm(r, q, Len(s))
  BY readLineStays
<1> HIDE DEF r, q
<1>3. ASSUME NEW w, IsCount(w) PROVE Atoi(w) \in Counts
  BY <1>3 DEF IsCount, Atoi
<1>4. Count(r).st = "ok" => r.st = "ok" /\ Count(r) = Ok(r.at, Atoi(r.val[1])) /\ IsCount(r.val[1])
  BY DEF Bad, Stopped
<1>5. r.st = "more" => Count(r).st = "more"
  OBVIOUS
<1>6. Count(r).st = "error" => r.st = "error" /\ Count(r) = r
  BY DEF Bad, Stopped, Ok
<1> QED BY <1>1, <1>2, <1>3, <1>4, <1>5, <1>6 DEF Firm, Ok

\* readBulk's body: readN and expectCRLF look at what is there already.
LEMMA readBodyStays ==
  ASSUME NEW s \in Tokens, NEW t \in Tokens, NEW i \in Pos, NEW n \in Nat
  PROVE  Firm(readBody(s, i, n), readBody(s \o t, i, n), Len(s))
<1> DEFINE Body(x) == IF i + n - 1 > Len(x) THEN More
                      ELSE IF i + n > Len(x) THEN More
                      ELSE IF x[i + n] # "crlf" THEN Bad ELSE Ok(i + n + 1, SubSeq(x, i, i + n - 1))
<1>p. /\ s \o t \in Tokens /\ Len(s) \in Nat /\ Len(t) \in Nat /\ Len(s \o t) = Len(s) + Len(t)
      /\ \A k \in 1 .. Len(s) : (s \o t)[k] = s[k]
  BY Prefix
<1>1. ASSUME NEW x PROVE readBody(x, i, n) = Body(x)
  <2> DEFINE r == readN(x, i, n)
  <2>1. readBody(x, i, n) = IF r.st = "ok" THEN expectCRLF(x, r.at, r.val) ELSE r
    BY DEF readBody, Then
  <2>2. r = IF i + n - 1 > Len(x) THEN More ELSE Ok(i + n, SubSeq(x, i, i + n - 1))
    BY DEF readN
  <2> HIDE DEF r
  <2>3. CASE i + n - 1 > Len(x)
    BY <2>1, <2>2, <2>3 DEF More, Stopped
  <2>4. CASE ~(i + n - 1 > Len(x))
    <3>1. r.st = "ok" /\ r.at = i + n /\ r.val = SubSeq(x, i, i + n - 1)
      BY <2>2, <2>4 DEF Ok
    <3> QED BY Zenon, <2>1, <2>4, <3>1 DEF expectCRLF
  <2> QED BY <2>3, <2>4
<1>2. CASE i + n > Len(s)
  BY <1>1, <1>2 DEF Firm, More, Stopped
<1>3. CASE ~(i + n > Len(s))
  <2>1. /\ i + n \in 1 .. Len(s) /\ i + n - 1 \in Int /\ i + n - 1 <= Len(s)
        /\ i + n + 1 \in Pos /\ i + n + 1 <= Len(s) + 1
        /\ ~(i + n - 1 > Len(s)) /\ ~(i + n - 1 > Len(s \o t)) /\ ~(i + n > Len(s \o t))
    BY SMT, <1>3, <1>p DEF Pos
  <2>2. SubSeq(s \o t, i, i + n - 1) = SubSeq(s, i, i + n - 1) /\ (s \o t)[i + n] = s[i + n]
    BY <2>1, <1>p, PrefixCut
  <2>3. Body(s) = IF s[i + n] # "crlf" THEN Bad ELSE Ok(i + n + 1, SubSeq(s, i, i + n - 1))
    BY Zenon, <1>3, <2>1
  <2>4. Body(s \o t) = Body(s)
    BY Zenon, <2>1, <2>2, <2>3
  <2>5. Body(s) = Bad \/ Body(s) = Ok(i + n + 1, SubSeq(s, i, i + n - 1))
    BY Zenon, <2>3
  <2> HIDE DEF Body
  <2> QED BY <1>1, <2>1, <2>4, <2>5 DEF Firm, Bad, Ok, Stopped
<1> QED BY <1>2, <1>3

\* An argument of a multi-bulk request (readBulk behind its marker).
LEMMA readArgStays ==
  ASSUME NEW s \in Tokens, NEW t \in Tokens, NEW i \in Pos
  PROVE  Firm(readArg(s, i), readArg(s \o t, i), Len(s))
<1> DEFINE r == readCount(s, i + 1)
           q == readCount(s \o t, i + 1)
           Arg(x, c) == IF i > Len(x) THEN More ELSE IF x[i] # "$" THEN Bad
                        ELSE IF c.st # "ok" THEN c
                        ELSE IF c.val \in 0 .. MaxBulk THEN readBody(x, c.at, c.val) ELSE Bad
<1>p. /\ s \o t \in Tokens /\ Len(s) \in Nat /\ Len(t) \in Nat /\ Len(s \o t) = Len(s) + Len(t)
      /\ \A k \in 1 .. Len(s) : (s \o t)[k] = s[k]
  BY Prefix
<1>1. readArg(s, i) = Arg(s, r) /\ readArg(s \o t, i) = Arg(s \o t, q)
  <2>1. ASSUME NEW x
        PROVE  LET c == readCount(x, i + 1)
               IN  readBulk(x, i + 1) =
                     IF c.st # "ok" THEN c
                     ELSE IF c.val \in 0 .. MaxBulk THEN readBody(x, c.at, c.val) ELSE Bad
    BY DEF readBulk, Then
  <2> QED BY Zenon, <2>1 DEF readArg
<1>2. i + 1 \in Pos
  BY SMT DEF Pos
<1>3. Firm(r, q, Len(s))
  BY <1>2, readCountStays
<1> HIDE DEF r, q
<1>4. CASE i > Len(s)
  BY <1>1, <1>4 DEF Firm, More, Stopped
<1>5. CASE ~(i > Len(s))
  <2>1. i \in 1 .. Len(s) /\ ~(i > Len(s \o t)) /\ MaxBulk \in Nat
    BY SMT, <1>5, <1>p, RespAssumption DEF Pos
  <2>2. CASE s[i] # "$"
    <3>1. Arg(s, r) = Bad /\ Arg(s \o t, q) = Bad
      BY Zenon, <1>5, <1>p, <2>1, <2>2
    <3> HIDE DEF Arg
    <3> QED BY <1>1, <3>1 DEF Firm, Bad, Stopped
  <2>3. CASE s[i] = "$" /\ r.st # "ok"
    <3>1. Arg(s, r) = r /\ (q = r => Arg(s \o t, q) = r)
      BY Zenon, <1>5, <1>p, <2>1, <2>3
    <3> HIDE DEF Arg
    <3> QED BY <1>1, <1>3, <3>1 DEF Firm
  <2>4. CASE s[i] = "$" /\ r.st = "ok" /\ r.val \notin 0 .. MaxBulk
    <3>1. q = r
      BY <1>3, <2>4 DEF Firm
    <3>2. Arg(s, r) = Bad /\ Arg(s \o t, q) = Bad
      BY Zenon, <1>5, <1>p, <2>1, <2>4, <3>1
    <3> HIDE DEF Arg
    <3> QED BY <1>1, <3>2 DEF Firm, Bad, Stopped
  <2>5. CASE s[i] = "$" /\ r.st = "ok" /\ r.val \in 0 .. MaxBulk
    <3>1. q = r /\ r.at \in Pos
      BY <1>3, <2>5 DEF Firm
    <3>2. Arg(s, r) = readBody(s, r.at, r.val) /\ Arg(s \o t, q) = readBody(s \o t, r.at, r.val)
      BY Zenon, <1>5, <1>p, <2>1, <2>5, <3>1
    <3>3. r.val \in Nat
      BY SMT, <2>1, <2>5
    <3> HIDE DEF Arg
    <3> QED BY <1>1, <3>1, <3>2, <3>3, readBodyStays
  <2> QED BY <2>2, <2>3, <2>4, <2>5
<1> QED BY <1>4, <1>5

\* Repeat is firm if the items are.
LEMMA RepeatStays ==
  ASSUME NEW f, NEW g, NEW n \in Nat, NEW i \in Pos, i <= n + 1,
         \A k \in Pos : Firm(f[k], g[k], n)
  PROVE  \A k \in Nat : Firm(Repeat(f, i, k), Repeat(g, i, k), n)
<1> DEFINE T == {k \in Nat : Firm(Repeat(f, i, k), Repeat(g, i, k), n)}
<1>1. 0 \in T
  <2>1. Repeat(f, i, 0) = Ok(i, <<>>) /\ Repeat(g, i, 0) = Ok(i, <<>>)
    BY RepeatStep
  <2>2. Firm(Ok(i, <<>>), Ok(i, <<>>), n)
    BY DEF Firm, Ok
  <2> QED BY <2>1, <2>2
<1>2. ASSUME NEW k \in Nat, k \in T PROVE k + 1 \in T
  <2> DEFINE r == Repeat(f, i, k)
             q == Repeat(g, i, k)
  <2>1. Firm(r, q, n)
    BY <1>2
  <2>2. Repeat(f, i, k + 1) = Step(r, f) /\ Repeat(g, i, k + 1) = Step(q, g)
    BY RepeatStep
  <2> HIDE DEF r, q
  <2>3. CASE r.st # "ok"
    <3>1. Step(r, f) = r /\ (q = r => Step(q, g) = r)
      BY <2>3 DEF Step
    <3>2. Firm(Step(r, f), Step(q, g), n)
      BY <2>1, <3>1 DEF Firm
    <3> QED BY <2>2, <3>2
  <2>4. CASE r.st = "ok"
    <3>1. q = r /\ r.at \in Pos
      BY <2>1, <2>4 DEF Firm
    <3>2. Firm(f[r.at], g[r.at], n)
      BY <3>1
    <3>3. CASE f[r.at].st # "ok"
      <4>1. Step(r, f) = f[r.at] /\ (g[r.at] = f[r.at] => Step(q, g) = f[r.at])
        BY <2>4, <3>1, <3>3 DEF Step
      <4>2. Firm(Step(r, f), Step(q, g), n)
        BY <3>2, <4>1 DEF Firm
      <4> QED BY <2>2, <4>2
    <3>4. CASE f[r.at].st = "ok"
      <4>1. g[r.at] = f[r.at] /\ f[r.at].at \in Pos /\ f[r.at].at <= n + 1
        BY <3>2, <3>4 DEF Firm
      <4>2. Step(r, f) = Ok(f[r.at].at, Append(r.val, f[r.at].val)) /\ Step(q, g) = Step(r, f)
        BY <2>4, <3>1, <3>4, <4>1 DEF Step
      <4>3. Firm(Step(r, f), Step(q, g), n)
        BY <4>1, <4>2 DEF Firm, Ok
      <4> QED BY <2>2, <4>3
    <3> QED BY <3>3, <3>4
  <2> QED BY <2>3, <2>4
<1> HIDE DEF T
<1>3. \A k \in Nat : k \in T
  BY <1>1, <1>2, Induction
<1> QED BY <1>3 DEF T

\* readMultiBulk of reader.go, which reads the arguments in a loop.
LEMMA readMultiBulkStays ==
  ASSUME NEW s \in Tokens, NEW t \in Tokens, NEW i \in Pos
  PROVE  Firm(readMultiBulk(s, i), readMultiBulk(s \o t, i), Len(s))
<1> DEFINE r == readCount(s, i)
           q == readCount(s \o t, i)
           args(x) == [k \in Nat |-> readArg(x, k)]
           Multi(x, c) == IF c.st # "ok" THEN c
                          ELSE IF c.val <= 0 THEN Ok(c.at, <<>>)
                          ELSE IF c.val > MaxMultiBulk THEN Bad
                          ELSE Repeat(args(x), c.at, c.val)
<1>1. readMultiBulk(s, i) = Multi(s, r) /\ readMultiBulk(s \o t, i) = Multi(s \o t, q)
  BY DEF readMultiBulk, Then
<1>2. Firm(r, q, Len(s)) /\ (r.st = "ok" => r.val \in Int)
  BY readCountStays, RespAssumption
<1>3. Len(s) \in Nat
  BY DEF Tokens
<1> HIDE DEF r, q
<1>4. CASE r.st # "ok"
  <2>1. Multi(s, r) = r /\ (q = r => Multi(s \o t, q) = r)
    BY Zenon, <1>4
  <2> HIDE DEF Multi
  <2> QED BY <1>1, <1>2, <2>1 DEF Firm
<1>5. CASE r.st = "ok"
  <2>1. q = r /\ r.at \in Pos /\ r.at <= Len(s) + 1 /\ r.val \in Int
    BY <1>2, <1>5 DEF Firm
  <2>2. CASE r.val <= 0
    <3>1. Multi(s, r) = Ok(r.at, <<>>) /\ Multi(s \o t, q) = Ok(r.at, <<>>)
      BY Zenon, <1>5, <2>1, <2>2
    <3> HIDE DEF Multi
    <3> QED BY <1>1, <2>1, <3>1 DEF Firm, Ok
  <2>3. CASE ~(r.val <= 0) /\ r.val > MaxMultiBulk
    <3>1. Multi(s, r) = Bad /\ Multi(s \o t, q) = Bad
      BY Zenon, <1>5, <2>1, <2>3
    <3> HIDE DEF Multi
    <3> QED BY <1>1, <3>1 DEF Firm, Bad, Stopped
  <2>4. CASE ~(r.val <= 0) /\ ~(r.val > MaxMultiBulk)
    <3>1. Multi(s, r) = Repeat(args(s), r.at, r.val) /\ Multi(s \o t, q) = Repeat(args(s \o t), r.at, r.val)
      BY Zenon, <1>5, <2>1, <2>4
    <3>2. r.val \in Nat
      BY SMT, <2>1, <2>4
    <3>3. \A k \in Pos : Firm(args(s)[k], args(s \o t)[k], Len(s))
      BY readArgStays DEF Pos
    <3> HIDE DEF Multi, args
    <3>4. Firm(Repeat(args(s), r.at, r.val), Repeat(args(s \o t), r.at, r.val), Len(s))
      BY Zenon, <1>3, <2>1, <3>2, <3>3, RepeatStays
    <3> QED BY <1>1, <3>1, <3>4
  <2> QED BY <2>2, <2>3, <2>4
<1> QED BY <1>4, <1>5

\* readInline of reader.go.
LEMMA readInlineStays ==
  ASSUME NEW s \in Tokens, NEW t \in Tokens, NEW i \in Pos
  PROVE  Firm(readInline(s, i), readInline(s \o t, i), Len(s))
<1> DEFINE r == readLine(s, i)
           q == readLine(s \o t, i)
           Inline(c) == IF c.st # "ok" THEN c ELSE Ok(c.at, Fields(c.val))
<1>1. readInline(s, i) = Inline(r) /\ readInline(s \o t, i) = Inline(q)
  BY DEF readInline, Then
<1>2. Firm(r, q, Len(s))
  BY readLineStays
<1> HIDE DEF r, q
<1>3. CASE r.st # "ok"
  BY <1>1, <1>2, <1>3 DEF Firm
<1>4. CASE r.st = "ok"
  <2>1. q = r /\ r.at \in Pos /\ r.at <= Len(s) + 1
    BY <1>2, <1>4 DEF Firm
  <2>2. Inline(r) = Ok(r.at, Fields(r.val))
    BY <1>4
  <2> HIDE DEF Inline
  <2> QED BY <1>1, <2>1, <2>2 DEF Firm, Ok
<1> QED BY <1>3, <1>4

\* A request that has been read, or refused, from what is buffered would be the
\* same however much more had been buffered.
LEMMA ReadRequestStays ==
  ASSUME NEW s \in Tokens, NEW t \in Tokens
  PROVE  Firm(ReadRequest(s), ReadRequest(s \o t), Len(s))
<1>p. /\ s \o t \in Tokens /\ Len(s) \in Nat /\ Len(t) \in Nat /\ Len(s \o t) = Len(s) + Len(t)
      /\ \A k \in 1 .. Len(s) : (s \o t)[k] = s[k]
  BY Prefix
<1>1. CASE s = <<>>
  BY <1>1 DEF ReadRequest, Firm, More, Stopped
<1>2. CASE s # <<>>
  <2>1. 1 \in 1 .. Len(s) /\ s \o t # <<>> /\ 1 \in Pos /\ 2 \in Pos
    BY SMT, <1>2, <1>p DEF Tokens, Pos
  <2>2. (s \o t)[1] = s[1]
    BY <1>p, <2>1
  <2>3. CASE s[1] = "*"
    BY <1>2, <2>1, <2>2, <2>3, readMultiBulkStays DEF ReadRequest
  <2>4. CASE s[1] # "*"
    BY <1>2, <2>1, <2>2, <2>4, readInlineStays DEF ReadRequest
  <2> QED BY <2>3, <2>4
<1> QED BY <1>1, <1>2

\* The client's readLine (memcore.go).
LEMMA clientLineStays ==
  ASSUME NEW s \in Tokens, NEW t \in Tokens, NEW i \in Pos
  PROVE  Firm(clientLine(s, i), clientLine(s \o t, i), Len(s))
<1> DEFINE e == LineEnd(s, i)
           f == LineEnd(s \o t, i)
<1>p. /\ s \o t \in Tokens /\ Len(s) \in Nat /\ Len(t) \in Nat /\ Len(s \o t) = Len(s) + Len(t)
      /\ \A k \in 1 .. Len(s) : (s \o t)[k] = s[k]
  BY Prefix
<1>l. /\ clientLine(s, i) = IF e = 0 THEN More ELSE IF e - i # 2 THEN Bad ELSE Ok(e + 1, <<s[i], s[i + 1]>>)
      /\ clientLine(s \o t, i) =
           IF f = 0 THEN More ELSE IF f - i # 2 THEN Bad ELSE Ok(f + 1, <<(s \o t)[i], (s \o t)[i + 1]>>)
  BY DEF clientLine
<1> HIDE DEF e, f
<1>1. CASE FirstEnd(s, i, e) /\ f = e
  <2>0. e # 0 /\ e + 1 \in Pos /\ e + 1 <= Len(s) + 1
    BY SMT, <1>1, <1>p DEF FirstEnd, Pos
  <2>1. CASE e - i # 2
    <3>1. clientLine(s, i) = Bad /\ clientLine(s \o t, i) = Bad
      BY Zenon, <1>l, <1>1, <2>0, <2>1
    <3> QED BY <3>1 DEF Firm, Bad, Stopped
  <2>2. CASE e - i = 2
    <3>1. i \in 1 .. Len(s) /\ i + 1 \in 1 .. Len(s)
      BY SMT, <1>1, <1>p, <2>2 DEF FirstEnd, Pos
    <3>2. (s \o t)[i] = s[i] /\ (s \o t)[i + 1] = s[i + 1]
      BY <1>p, <3>1
    <3>3. /\ clientLine(s, i) = Ok(e + 1, <<s[i], s[i + 1]>>)
          /\ clientLine(s \o t, i) = Ok(e + 1, <<s[i], s[i + 1]>>)
      BY Zenon, <1>l, <1>1, <2>0, <2>2, <3>2
    <3> QED BY <2>0, <3>3 DEF Firm, Ok
  <2> QED BY <2>1, <2>2
<1>2. CASE e = 0
  BY <1>l, <1>2 DEF Firm, More, Stopped
<1> QED BY <1>1, <1>2, LineEndStays DEF e, f

\* The client's bulk strings, which it reads with io.ReadFull.
LEMMA clientBulkStays ==
  ASSUME NEW s \in Tokens, NEW t \in Tokens, NEW i \in Pos, i <= Len(s) + 1, NEW n \in Int
  PROVE  Firm(clientBulk(s, i, n), clientBulk(s \o t, i, n), Len(s))
<1>p. /\ s \o t \in Tokens /\ Len(s) \in Nat /\ Len(t) \in Nat /\ Len(s \o t) = Len(s) + Len(t)
  BY Prefix
<1>1. CASE n < 0
  BY <1>1 DEF clientBulk, Firm, Ok
<1>2. CASE ~(n < 0) /\ i + n > Len(s)
  BY <1>2 DEF clientBulk, Firm, More, Stopped
<1>3. CASE ~(n < 0) /\ ~(i + n > Len(s))
  <2>1. /\ ~(i + n > Len(s \o t)) /\ i + n - 1 \in Int /\ i + n - 1 <= Len(s)
        /\ i + n + 1 \in Pos /\ i + n + 1 <= Len(s) + 1
    BY SMT, <1>p, <1>3 DEF Pos
  <2>2. SubSeq(s \o t, i, i + n - 1) = SubSeq(s, i, i + n - 1)
    BY <2>1, PrefixCut
  <2>3. /\ clientBulk(s, i, n) = Ok(i + n + 1, Text(SubSeq(s, i, i + n - 1)))
        /\ clientBulk(s \o t, i, n) = Ok(i + n + 1, Text(SubSeq(s, i, i + n - 1)))
    BY Zenon, <1>3, <2>1, <2>2 DEF clientBulk
  <2> QED BY <2>1, <2>3 DEF Firm, Ok
<1> QED BY <1>1, <1>2, <1>3

\* What readFlat makes of a line.
FlatOf(s, at, line) ==
  CASE line[1] = "+" -> Ok(at, Text(<<line[2]>>))
    [] line[1] = "-" -> Failed(at, line[2])
    [] line[1] = ":" /\ IsCount(line[2]) -> Ok(at, Number(Atoi(line[2])))
    [] line[1] = "$" /\ IsCount(line[2]) -> clientBulk(s, at, Atoi(line[2]))
    [] OTHER -> Bad

\* The client's readReply, for all but arrays, in terms of its line.
LEMMA readFlatIs ==
  ASSUME NEW s, NEW i
  PROVE  LET r == clientLine(s, i)
         IN  readFlat(s, i) = IF r.st # "ok" THEN r ELSE FlatOf(s, r.at, r.val)
BY DEF readFlat, Then, FlatOf

\* What it makes of a line does not change with more input,
LEMMA FlatOfStays ==
  ASSUME NEW s \in Tokens, NEW t \in Tokens, NEW at \in Pos, at <= Len(s) + 1, NEW line
  PROVE  Firm(FlatOf(s, at, line), FlatOf(s \o t, at, line), Len(s))
<1>1. CASE line[1] = "$" /\ IsCount(line[2])
  <2>1. Atoi(line[2]) \in Int
    BY <1>1, RespAssumption DEF IsCount, Atoi
  <2>2. FlatOf(s, at, line) = clientBulk(s, at, Atoi(line[2]))
    BY <1>1 DEF FlatOf
  <2>3. FlatOf(s \o t, at, line) = clientBulk(s \o t, at, Atoi(line[2]))
    BY <1>1 DEF FlatOf
  <2> QED BY <2>1, <2>2, <2>3, clientBulkStays
<1>2. CASE ~(line[1] = "$" /\ IsCount(line[2]))
  <2>1. FlatOf(s, at, line) = FlatOf(s \o t, at, line)
    BY <1>2 DEF FlatOf
  <2>2. FlatOf(s, at, line) \in {Ok(at, Text(<<line[2]>>)), Failed(at, line[2]), Ok(at, Number(Atoi(line[2]))), Bad}
    BY <1>2 DEF FlatOf
  <2> QED BY <2>1, <2>2 DEF Firm, Ok, Failed, Bad, Stopped
<1> QED BY <1>1, <1>2

\* nor does what it returns.
LEMMA readFlatStays ==
  ASSUME NEW s \in Tokens, NEW t \in Tokens, NEW i \in Pos
  PROVE  Firm(readFlat(s, i), readFlat(s \o t, i), Len(s))
<1> DEFINE r == clientLine(s, i)
           q == clientLine(s \o t, i)
<1>1. /\ readFlat(s, i) = IF r.st # "ok" THEN r ELSE FlatOf(s, r.at, r.val)
      /\ readFlat(s \o t, i) = IF q.st # "ok" THEN q ELSE FlatOf(s \o t, q.at, q.val)
  BY readFlatIs
<1>2. Firm(r, q, Len(s))
  BY clientLineStays
<1> HIDE DEF r, q
<1>3. CASE r.st # "ok"
  BY <1>1, <1>2, <1>3 DEF Firm
<1>4. CASE r.st = "ok"
  <2>1. q = r /\ r.at \in Pos /\ r.at <= Len(s) + 1
    BY <1>2, <1>4 DEF Firm
  <2>2. readFlat(s, i) = FlatOf(s, r.at, r.val) /\ readFlat(s \o t, i) = FlatOf(s \o t, r.at, r.val)
    BY <1>1, <1>4, <2>1
  <2> QED BY <2>1, <2>2, FlatOfStays
<1> QED BY <1>3, <1>4

\* The client's loop over the items of an array.
LEMMA readArrayIs ==
  ASSUME NEW s, NEW i, NEW n
  PROVE  LET r == Repeat([k \in Nat |-> readFlat(s, k)], i, n)
         IN  readArray(s, i, n) = IF n < 0 THEN Ok(i, Nil)
                                  ELSE IF r.st # "ok" THEN r ELSE Ok(r.at, Array(r.val))
BY DEF readArray, Then

\* The items of an array that are all there are read as they will be.
LEMMA readArrayStays ==
  ASSUME NEW s \in Tokens, NEW t \in Tokens, NEW i \in Pos, i <= Len(s) + 1, NEW n \in Int
  PROVE  Firm(readArray(s, i, n), readArray(s \o t, i, n), Len(s))
<1> DEFINE flats(x) == [k \in Nat |-> readFlat(x, k)]
           r == Repeat(flats(s), i, n)
           q == Repeat(flats(s \o t), i, n)
<1>0. Len(s) \in Nat
  BY DEF Tokens
<1>1. /\ readArray(s, i, n) = IF n < 0 THEN Ok(i, Nil) ELSE IF r.st # "ok" THEN r ELSE Ok(r.at, Array(r.val))
      /\ readArray(s \o t, i, n) = IF n < 0 THEN Ok(i, Nil) ELSE IF q.st # "ok" THEN q ELSE Ok(q.at, Array(q.val))
  BY readArrayIs
<1>2. CASE n < 0
  <2> HIDE DEF r, q
  <2> QED BY <1>1, <1>2 DEF Firm, Ok
<1>3. CASE ~(n < 0)
  <2>1. n \in Nat
    BY SMT, <1>3
  <2>2. \A k \in Pos : Firm(flats(s)[k], flats(s \o t)[k], Len(s))
    BY readFlatStays DEF Pos
  <2> HIDE DEF flats
  <2>3. Firm(r, q, Len(s))
    BY Zenon, <1>0, <2>1, <2>2, RepeatStays
  <2> HIDE DEF r, q
  <2>4. CASE r.st # "ok"
    BY <1>1, <1>3, <2>3, <2>4 DEF Firm
  <2>5. CASE r.st = "ok"
    <3>1. q = r /\ r.at \in Pos /\ r.at <= Len(s) + 1
      BY <2>3, <2>5 DEF Firm
    <3>2. readArray(s, i, n) = Ok(r.at, Array(r.val)) /\ readArray(s \o t, i, n) = Ok(r.at, Array(r.val))
      BY Zenon, <1>1, <1>3, <2>5, <3>1
    <3> QED BY <3>1, <3>2 DEF Firm, Ok
  <2> QED BY <2>4, <2>5
<1> QED BY <1>2, <1>3

\* The client's readReply, by the first byte of the line.
LEMMA readAnyIs ==
  ASSUME NEW s, NEW i
  PROVE  LET r == clientLine(s, i)
         IN  readAny(s, i) = IF r.st # "ok" THEN r
                             ELSE IF r.val[1] # "*" THEN readFlat(s, i)
                             ELSE IF IsCount(r.val[2]) THEN readArray(s, r.at, Atoi(r.val[2]))
                             ELSE Bad
BY DEF readAny, Then

\* A reply that is complete is read as it will be with more input.
LEMMA readAnyStays ==
  ASSUME NEW s \in Tokens, NEW t \in Tokens, NEW i \in Pos
  PROVE  Firm(readAny(s, i), readAny(s \o t, i), Len(s))
<1> DEFINE r == clientLine(s, i)
           q == clientLine(s \o t, i)
<1>1. /\ readAny(s, i) = IF r.st # "ok" THEN r
                         ELSE IF r.val[1] # "*" THEN readFlat(s, i)
                         ELSE IF IsCount(r.val[2]) THEN readArray(s, r.at, Atoi(r.val[2]))
                         ELSE Bad
      /\ readAny(s \o t, i) = IF q.st # "ok" THEN q
                              ELSE IF q.val[1] # "*" THEN readFlat(s \o t, i)
                              ELSE IF IsCount(q.val[2]) THEN readArray(s \o t, q.at, Atoi(q.val[2]))
                              ELSE Bad
  BY Zenon, readAnyIs
<1>2. Firm(r, q, Len(s))
  BY clientLineStays
<1> HIDE DEF r, q
<1>3. CASE r.st # "ok"
  <2>1. readAny(s, i) = r /\ (q = r => readAny(s \o t, i) = r)
    BY Zenon, <1>1, <1>3
  <2> QED BY <1>2, <2>1 DEF Firm
<1>4. CASE r.st = "ok"
  <2>1. q = r /\ r.at \in Pos /\ r.at <= Len(s) + 1
    BY <1>2, <1>4 DEF Firm
  <2>2. CASE r.val[1] # "*"
    <3>1. readAny(s, i) = readFlat(s, i) /\ readAny(s \o t, i) = readFlat(s \o t, i)
      BY Zenon, <1>1, <1>4, <2>1, <2>2
    <3> QED BY <3>1, readFlatStays
  <2>3. CASE r.val[1] = "*" /\ IsCount(r.val[2])
    <3>1. /\ readAny(s, i) = readArray(s, r.at, Atoi(r.val[2]))
          /\ readAny(s \o t, i) = readArray(s \o t, r.at, Atoi(r.val[2]))
      BY Zenon, <1>1, <1>4, <2>1, <2>3
    <3>2. Atoi(r.val[2]) \in Int
      BY <2>3, RespAssumption DEF IsCount, Atoi
    <3> QED BY <2>1, <3>1, <3>2, readArrayStays
  <2>4. CASE r.val[1] = "*" /\ ~IsCount(r.val[2])
    <3>1. readAny(s, i) = Bad /\ readAny(s \o t, i) = Bad
      BY Zenon, <1>1, <1>4, <2>1, <2>4
    <3> QED BY <3>1 DEF Firm, Bad, Stopped
  <2> QED BY <2>2, <2>3, <2>4
<1> QED BY <1>3, <1>4

\* Do returns an error reply as its result.
LEMMA readReplyIs ==
  ASSUME NEW s, NEW i
  PROVE  LET r == readAny(s, i) IN readReply(s, i) = IF r.st = "error" THEN Ok(r.at, r.val) ELSE r
BY DEF readReply

\* What the client has read would be the same if more had arrived.
LEMMA readReplyStays ==
  ASSUME NEW s \in Tokens, NEW t \in Tokens, NEW i \in Pos
  PROVE  Firm(readReply(s, i), readReply(s \o t, i), Len(s))
<1> DEFINE r == readAny(s, i)
           q == readAny(s \o t, i)
<1>1. /\ readReply(s, i) = IF r.st = "error" THEN Ok(r.at, r.val) ELSE r
      /\ readReply(s \o t, i) = IF q.st = "error" THEN Ok(q.at, q.val) ELSE q
  BY readReplyIs
<1>2. Firm(r, q, Len(s))
  BY readAnyStays
<1> HIDE DEF r, q
<1>3. CASE r.st # "error"
  BY <1>1, <1>2, <1>3 DEF Firm
<1>4. CASE r.st = "error"
  <2>1. q = r /\ r.at \in Pos /\ r.at <= Len(s) + 1
    BY <1>2, <1>4 DEF Firm
  <2>2. readReply(s, i) = Ok(r.at, r.val) /\ readReply(s \o t, i) = Ok(r.at, r.val)
    BY Zenon, <1>1, <1>4, <2>1
  <2> QED BY <2>1, <2>2 DEF Firm, Ok
<1> QED BY <1>3, <1>4

\* What several calls of Do return would be the same if more had arrived.
LEMMA readRepliesStays ==
  ASSUME NEW s \in Tokens, NEW t \in Tokens, NEW n \in Nat
  PROVE  Firm(readReplies(s, n), readReplies(s \o t, n), Len(s))
<1> DEFINE calls(x) == [k \in Nat |-> readReply(x, k)]
<1>1. readReplies(s, n) = Repeat(calls(s), 1, n) /\ readReplies(s \o t, n) = Repeat(calls(s \o t), 1, n)
  BY DEF readReplies
<1>2. Len(s) \in Nat /\ 1 \in Pos /\ 1 <= Len(s) + 1
  BY SMT DEF Tokens, Pos
<1>3. \A k \in Pos : Firm(calls(s)[k], calls(s \o t)[k], Len(s))
  BY readReplyStays DEF Pos
<1> HIDE DEF calls
<1>4. Firm(Repeat(calls(s), 1, n), Repeat(calls(s \o t), 1, n), Len(s))
  BY Zenon, <1>2, <1>3, RepeatStays
<1> QED BY <1>1, <1>4

-----------------------------------------------------------------------------
(* What is written is read back. *)

\* The sequence y begins with x.
Begins(S, x, y) == \E rest \in Seq(S) : y = x \o rest

\* The first n pieces are sequences over S.
Pieces(S, pieces, n) == \A k \in 1 .. n : pieces[k] \in Seq(S)

\* Pieces one after the other are a sequence again.
LEMMA ConcatToType ==
  ASSUME NEW S, NEW pieces, NEW n \in Nat, Pieces(S, pieces, n)
  PROVE  \A k \in 0 .. n : ConcatTo(pieces, k) \in Seq(S)
<1> DEFINE T == {k \in Nat : k <= n => ConcatTo(pieces, k) \in Seq(S)}
<1>1. 0 \in T
  <2>1. ConcatTo(pieces, 0) = <<>>
    BY ConcatToStep
  <2>2. <<>> \in Seq(S)
    BY SMT
  <2> QED BY <2>1, <2>2
<1>2. ASSUME NEW k \in Nat, k \in T PROVE k + 1 \in T
  <2>1. CASE k + 1 <= n
    <3>1. k + 1 \in Nat /\ k + 1 \in 1 .. n /\ k <= n
      BY SMT, <2>1
    <3>2. ConcatTo(pieces, k) \in Seq(S) /\ pieces[k + 1] \in Seq(S)
      BY <1>2, <3>1 DEF Pieces
    <3>3. ConcatTo(pieces, k + 1) = ConcatTo(pieces, k) \o pieces[k + 1]
      BY ConcatToStep
    <3>4. ConcatTo(pieces, k) \o pieces[k + 1] \in Seq(S)
      BY <3>2
    <3> QED BY Zenon, <3>1, <3>3, <3>4
  <2> QED BY <2>1
<1> HIDE DEF T
<1>3. \A k \in Nat : k \in T
  BY <1>1, <1>2, Induction
<1>4. \A k \in 0 .. n : k \in Nat /\ k <= n
  BY SMT
<1> QED BY <1>3, <1>4 DEF T

\* Concatenation of sequences over S is associative.
Associates(S) ==
  \A x, y, z \in Seq(S) : (x \o y) \o z = x \o (y \o z) /\ y \o z \in Seq(S)

\* It is, for every S.
LEMMA Associative == \A S : Associates(S)
<1> SUFFICES ASSUME NEW S, NEW x \in Seq(S), NEW y \in Seq(S), NEW z \in Seq(S)
             PROVE  (x \o y) \o z = x \o (y \o z) /\ y \o z \in Seq(S)
  BY Zenon DEF Associates
<1> QED BY SMT

\* The first pieces are a prefix of all.
LEMMA ConcatSplit ==
  ASSUME NEW S, NEW pieces, NEW n \in Nat, Pieces(S, pieces, n),
         NEW k \in Nat, k <= n
  PROVE  Begins(S, ConcatTo(pieces, k), ConcatTo(pieces, n))
<1> DEFINE T == {m \in Nat : k + m <= n =>
                   \E rest \in Seq(S) : ConcatTo(pieces, k + m) = ConcatTo(pieces, k) \o rest}
           c == ConcatTo(pieces, k)
<1>0. c \in Seq(S)
  <2>1. k \in 0 .. n
    BY SMT
  <2> QED BY <2>1, ConcatToType
<1>1. 0 \in T
  <2>1. <<>> \in Seq(S) /\ c \o <<>> = c /\ k + 0 = k
    BY <1>0
  <2> QED BY <2>1
<1>2. ASSUME NEW m \in Nat, m \in T PROVE m + 1 \in T
  <2>1. CASE k + (m + 1) <= n
    <3>1. m + 1 \in Nat /\ k + m <= n /\ (k + m) + 1 \in 1 .. n /\ k + m \in Nat /\ k + (m + 1) = (k + m) + 1
      BY SMT, <2>1
    <3>2. PICK rest \in Seq(S) : ConcatTo(pieces, k + m) = c \o rest
      BY <1>2, <3>1
    <3>3. ConcatTo(pieces, (k + m) + 1) = (c \o rest) \o pieces[(k + m) + 1]
      BY <3>1, <3>2, ConcatToStep
    <3>4. pieces[(k + m) + 1] \in Seq(S)
      BY <3>1 DEF Pieces
    <3> DEFINE p == pieces[(k + m) + 1]
    <3>5. p \in Seq(S)
      BY <3>4
    <3> HIDE DEF c, p
    <3>6. (c \o rest) \o p = c \o (rest \o p) /\ rest \o p \in Seq(S)
      <4>1. Associates(S)
        BY Associative
      <4> QED BY Zenon, <1>0, <3>5, <4>1 DEF Associates
    <3> QED BY Zenon, <3>1, <3>3, <3>6 DEF p, c
  <2>2. m + 1 \in Nat
    BY SMT
  <2> QED BY Zenon, <2>1, <2>2
<1> HIDE DEF T
<1>3. n - k \in T
  <2>1. n - k \in Nat
    BY SMT
  <2> QED BY <1>1, <1>2, <2>1, Induction
<1>4. k + (n - k) = n /\ n <= n
  BY SMT
<1>5. \E rest \in Seq(S) : ConcatTo(pieces, n) = ConcatTo(pieces, k) \o rest
  BY Zenon, <1>3, <1>4 DEF T
<1> QED BY Zenon, <1>5 DEF Begins

\* A stream s holds x at position i.
Holds(s, i, x) == i + Len(x) - 1 <= Len(s) /\ \A k \in 1 .. Len(x) : s[i + k - 1] = x[k]

\* A stream that holds x \o y holds x, and y behind it,
LEMMA HoldsParts ==
  ASSUME NEW s \in Tokens, NEW i \in Pos, NEW x \in Tokens, NEW y \in Tokens, Holds(s, i, x \o y)
  PROVE  Holds(s, i, x) /\ Holds(s, i + Len(x), y) /\ i + Len(x) \in Pos
<1>p. /\ x \o y \in Tokens /\ Len(x) \in Nat /\ Len(y) \in Nat /\ Len(x \o y) = Len(x) + Len(y)
      /\ \A k \in 1 .. Len(x) : (x \o y)[k] = x[k]
      /\ \A k \in 1 .. Len(y) : (x \o y)[Len(x) + k] = y[k]
  BY Prefix
<1>0. Len(s) \in Nat /\ i \in Nat
  BY DEF Tokens, Pos
<1>1. /\ i + (Len(x) + Len(y)) - 1 <= Len(s)
      /\ \A k \in 1 .. Len(x) + Len(y) : s[i + k - 1] = (x \o y)[k]
  BY <1>p DEF Holds
<1>2. Holds(s, i, x)
  <2>1. i + Len(x) - 1 <= Len(s)
    BY SMT, <1>0, <1>1, <1>p
  <2>2. ASSUME NEW k \in 1 .. Len(x) PROVE s[i + k - 1] = x[k]
    <3>1. k \in 1 .. Len(x) + Len(y)
      BY SMT, <1>p
    <3> QED BY <1>1, <1>p, <3>1
  <2> QED BY <2>1, <2>2 DEF Holds
<1>3. Holds(s, i + Len(x), y)
  <2>1. (i + Len(x)) + Len(y) - 1 <= Len(s)
    BY SMT, <1>0, <1>1, <1>p
  <2>2. ASSUME NEW k \in 1 .. Len(y) PROVE s[(i + Len(x)) + k - 1] = y[k]
    <3>1. Len(x) + k \in 1 .. Len(x) + Len(y) /\ (i + Len(x)) + k - 1 = i + (Len(x) + k) - 1
      BY SMT, <1>0, <1>p
    <3> QED BY <1>1, <1>p, <3>1
  <2> QED BY <2>1, <2>2 DEF Holds
<1>4. i + Len(x) \in Pos
  BY SMT, <1>0, <1>p DEF Pos
<1> QED BY <1>2, <1>3, <1>4

\* and what it holds can be cut out of it.
LEMMA HoldsCut ==
  ASSUME NEW s \in Tokens, NEW i \in Pos, NEW x \in Tokens, Holds(s, i, x)
  PROVE  SubSeq(s, i, i + Len(x) - 1) = x
<1>0. Len(s) \in Nat /\ Len(x) \in Nat /\ i \in Nat /\ i > 0
  BY SMT DEF Tokens, Pos
<1> DEFINE y == SubSeq(s, i, i + Len(x) - 1)
<1>1. y \in Tokens /\ Len(y) = Len(x)
  BY SMT, <1>0 DEF Holds, Tokens
<1>2. ASSUME NEW k \in 1 .. Len(x) PROVE y[k] = x[k]
  <2>1. y[k] = s[i + k - 1]
    BY SMT, <1>0 DEF Holds, Tokens
  <2> QED BY <2>1 DEF Holds
<1> HIDE DEF y
<1>3. y = x
  BY SMT, <1>1, <1>2 DEF Tokens
<1> QED BY <1>3 DEF y

\* A numeral is read as its number, and a line of one word as it is.
LEMMA AtoiItoa ==
  ASSUME NEW n \in Counts
  PROVE  /\ Itoa(n) \in Token /\ Itoa(n) \notin LineEnds
         /\ IsCount(Itoa(n)) /\ Atoi(Itoa(n)) = n
BY RespAssumption DEF Itoa, IsCount, Atoi, Word

\* A line of one word ends behind the word.
LEMMA WordLine ==
  ASSUME NEW s \in Tokens, NEW i \in Pos, i + 1 <= Len(s), s[i] \notin LineEnds, s[i + 1] = "crlf"
  PROVE  LineEnd(s, i) = i + 1
<1>1. FirstEnd(s, i, i + 1)
  BY SMT DEF FirstEnd, LineEnds, Pos, Tokens
<1> QED BY <1>1, LineEndIs

\* A part of one token.
LEMMA OneCut ==
  ASSUME NEW s \in Tokens, NEW i \in 1 .. Len(s)
  PROVE  SubSeq(s, i, i) = <<s[i]>>
<1> DEFINE y == SubSeq(s, i, i)
<1>1. y \in Tokens /\ Len(y) = 1 /\ y[1] = s[i] /\ s[i] \in Token
  BY SMT DEF Tokens
<1> HIDE DEF y
<1>2. y = <<s[i]>>
  BY SMT, <1>1 DEF Tokens
<1> QED BY <1>2 DEF y

\* Tokens written one by one, and after others.
LEMMA Tuples ==
  ASSUME NEW S, NEW u \in S, NEW v \in S, NEW w \in S
  PROVE  /\ <<u>> \in Seq(S) /\ Len(<<u>>) = 1 /\ <<u>>[1] = u
         /\ <<u, v, w>> \in Seq(S) /\ Len(<<u, v, w>>) = 3
         /\ <<u, v, w>>[1] = u /\ <<u, v, w>>[2] = v /\ <<u, v, w>>[3] = w
BY SMT

\* The markers of RESP are tokens.
LEMMA Marks ==
  /\ "*" \in Token /\ "$" \in Token /\ ":" \in Token /\ "+" \in Token /\ "-" \in Token
  /\ "crlf" \in Token /\ "sp" \in Token
BY RespAssumption DEF Markers, LineEnds

\* A marker, a word and the line end, as writer.go writes them.
LEMMA FrameIs ==
  ASSUME NEW p \in Token, NEW w \in Token
  PROVE  /\ Frame(p, w) \in Tokens /\ Len(Frame(p, w)) = 3
         /\ Frame(p, w)[1] = p /\ Frame(p, w)[2] = w /\ Frame(p, w)[3] = "crlf"
<1>1. "crlf" \in Token
  BY Marks
<1> QED BY Zenon, <1>1, Tuples DEF Frame, Tokens

\* One token is a stream.
LEMMA OneToken ==
  ASSUME NEW w \in Token
  PROVE  <<w>> \in Tokens /\ Len(<<w>>) = 1 /\ <<w>>[1] = w
BY Zenon, Tuples DEF Tokens

\* Two streams are one, of their lengths together.
LEMMA Joined == \A x, y \in Tokens : x \o y \in Tokens /\ Len(x \o y) = Len(x) + Len(y)
BY SMT DEF Tokens

\* readCount reads the numeral that Itoa wrote, unless the line is too long for the
\* buffer.
LEMMA readCountReads ==
  ASSUME NEW s \in Tokens, NEW i \in Pos, NEW n \in Counts,
         i + 1 <= Len(s), s[i] = Itoa(n), s[i + 1] = "crlf"
  PROVE  readCount(s, i) = Bad \/ readCount(s, i) = Ok(i + 2, n)
<1>1. LineEnd(s, i) = i + 1
  BY AtoiItoa, WordLine
<1> DEFINE r == readLine(s, i)
<1>2. i + 1 # 0 /\ (i + 1) + 1 = i + 2 /\ (i + 1) - 1 = i /\ i \in 1 .. Len(s)
  BY SMT DEF Pos, Tokens
<1>3. SubSeq(s, i, i) = <<s[i]>>
  BY <1>2, OneCut
<1>4. r = Bad \/ r = Ok(i + 2, <<s[i]>>)
  BY Zenon, <1>1, <1>2, <1>3 DEF readLine
<1>5. readCount(s, i) = IF r.st # "ok" THEN r
                        ELSE IF Len(r.val) = 1 /\ IsCount(r.val[1]) THEN Ok(r.at, Atoi(r.val[1])) ELSE Bad
  BY DEF readCount, Then
<1> HIDE DEF r
<1>6. CASE r = Bad
  BY <1>5, <1>6 DEF Bad, Stopped
<1>7. CASE r = Ok(i + 2, <<s[i]>>)
  <2>1. r.st = "ok" /\ r.at = i + 2 /\ Len(r.val) = 1 /\ r.val[1] = s[i]
    BY <1>7 DEF Ok
  <2>2. IsCount(s[i]) /\ Atoi(s[i]) = n
    BY AtoiItoa
  <2> QED BY Zenon, <1>5, <2>1, <2>2
<1> QED BY <1>4, <1>6, <1>7

\* A bulk in a stream.
LEMMA BulkAt ==
  ASSUME NEW s \in Tokens, NEW i \in Pos, NEW b \in Tokens, Len(b) \in Counts, Holds(s, i, writeBulk(b))
  PROVE  /\ writeBulk(b) \in Tokens /\ Len(writeBulk(b)) = Len(b) + 4
         /\ s[i] = "$" /\ s[i + 1] = Itoa(Len(b)) /\ s[i + 2] = "crlf"
         /\ Holds(s, i + 3, b) /\ s[i + 3 + Len(b)] = "crlf"
         /\ i + 3 + Len(b) <= Len(s)
<1> DEFINE h == Frame("$", Itoa(Len(b)))
           e == <<"crlf">>
<1>0. Len(s) \in Nat /\ Len(b) \in Nat /\ i \in Nat /\ i > 0
  BY SMT DEF Tokens, Pos
<1>1. h \in Tokens /\ Len(h) = 3 /\ h[1] = "$" /\ h[2] = Itoa(Len(b)) /\ h[3] = "crlf"
  <2>1. Itoa(Len(b)) \in Token /\ "$" \in Token
    BY AtoiItoa, Marks
  <2> QED BY SMT, <2>1, FrameIs
<1>2. e \in Tokens /\ Len(e) = 1 /\ e[1] = "crlf"
  BY Zenon, Marks, OneToken
<1>3. writeBulk(b) = (h \o b) \o e
  BY DEF writeBulk
<1> HIDE DEF h, e
<1>4. h \o b \in Tokens /\ Len(h \o b) = 3 + Len(b)
  BY Zenon, <1>1, Joined
<1>5. (h \o b) \o e \in Tokens /\ Len((h \o b) \o e) = Len(b) + 4
  <2>1. (h \o b) \o e \in Tokens /\ Len((h \o b) \o e) = (3 + Len(b)) + 1
    BY Zenon, <1>2, <1>4, Joined
  <2> QED BY SMT, <1>0, <2>1
<1>6. Holds(s, i, h \o b) /\ Holds(s, i + (3 + Len(b)), e)
  <2>1. Holds(s, i, (h \o b) \o e)
    BY Zenon, <1>3
  <2> QED BY Zenon, <1>2, <1>4, <2>1, HoldsParts
<1>7. Holds(s, i, h) /\ Holds(s, i + 3, b)
  BY Zenon, <1>1, <1>6, HoldsParts
<1>8. s[i + 1 - 1] = h[1] /\ s[i + 2 - 1] = h[2] /\ s[i + 3 - 1] = h[3]
  BY <1>1, <1>7 DEF Holds
<1>9. s[i + (3 + Len(b)) + 1 - 1] = e[1] /\ i + (3 + Len(b)) + 1 - 1 <= Len(s)
  BY <1>2, <1>6 DEF Holds
<1>10. /\ i + 1 - 1 = i /\ i + 2 - 1 = i + 1 /\ i + 3 - 1 = i + 2
       /\ i + (3 + Len(b)) + 1 - 1 = i + 3 + Len(b)
  BY SMT, <1>0
<1> QED BY Zenon, <1>1, <1>2, <1>3, <1>5, <1>7, <1>8, <1>9, <1>10

\* readBulk reads the bulk that writeBulk wrote, or refuses it by its limits.
LEMMA readArgReads ==
  ASSUME NEW s \in Tokens, NEW i \in Pos, NEW b \in Tokens, Len(b) \in Counts, Holds(s, i, writeBulk(b))
  PROVE  readArg(s, i) = Bad \/ readArg(s, i) = Ok(i + Len(writeBulk(b)), b)
<1> DEFINE c == readCount(s, i + 1)
           n == Len(b)
<1>0. Len(s) \in Nat /\ n \in Nat /\ i \in Nat /\ i > 0
  BY SMT DEF Tokens, Pos
<1>1. /\ Len(writeBulk(b)) = n + 4
      /\ s[i] = "$" /\ s[i + 1] = Itoa(n) /\ s[i + 2] = "crlf"
      /\ Holds(s, i + 3, b) /\ s[i + 3 + n] = "crlf"
      /\ i + 3 + n <= Len(s)
  BY BulkAt
<1>2. /\ i + 1 \in Pos /\ (i + 1) + 1 = i + 2 /\ (i + 1) + 1 <= Len(s) /\ (i + 1) + 2 = i + 3
      /\ i + 3 \in Pos /\ ~(i > Len(s)) /\ i + (n + 4) = i + 3 + n + 1
      /\ ~(i + 3 + n - 1 > Len(s)) /\ ~(i + 3 + n > Len(s))
  BY SMT, <1>0, <1>1 DEF Pos
<1>3. c = Bad \/ c = Ok(i + 3, n)
  <2>1. s[i + 1] = Itoa(n) /\ s[(i + 1) + 1] = "crlf" /\ (i + 1) + 1 <= Len(s)
    BY Zenon, <1>1, <1>2
  <2>2. c = Bad \/ c = Ok((i + 1) + 2, n)
    BY Zenon, <1>2, <2>1, readCountReads
  <2> QED BY Zenon, <1>2, <2>2
<1>4. readArg(s, i) = readBulk(s, i + 1)
  BY <1>1, <1>2 DEF readArg
<1>5. readBulk(s, i + 1) = IF c.st # "ok" THEN c
                           ELSE IF c.val \in 0 .. MaxBulk THEN readBody(s, c.at, c.val) ELSE Bad
  BY DEF readBulk, Then
<1> HIDE DEF c
<1>6. CASE c = Bad
  BY <1>4, <1>5, <1>6 DEF Bad, Stopped
<1>7. CASE c = Ok(i + 3, n)
  <2>1. c.st = "ok" /\ c.at = i + 3 /\ c.val = n
    BY <1>7 DEF Ok
  <2>2. readArg(s, i) = Bad \/ readArg(s, i) = readBody(s, i + 3, n)
    BY Zenon, <1>4, <1>5, <2>1
  <2>3. readN(s, i + 3, n) = Ok(i + 3 + n, b)
    <3>1. SubSeq(s, i + 3, i + 3 + n - 1) = b
      BY Zenon, <1>1, <1>2, HoldsCut
    <3> QED BY Zenon, <1>2, <3>1 DEF readN
  <2>4. readBody(s, i + 3, n) = expectCRLF(s, i + 3 + n, b)
    BY <2>3 DEF readBody, Then, Ok
  <2>5. expectCRLF(s, i + 3 + n, b) = Ok(i + 3 + n + 1, b)
    BY Zenon, <1>1, <1>2 DEF expectCRLF
  <2> QED BY Zenon, <1>1, <1>2, <2>2, <2>4, <2>5
<1> QED BY <1>3, <1>6, <1>7

\* A piece of a stream stands behind the ones before it.
Stands(s, i, pieces, k) ==
  /\ ConcatTo(pieces, k) \in Tokens /\ i + Len(ConcatTo(pieces, k)) \in Pos
  /\ Holds(s, i + Len(ConcatTo(pieces, k)), pieces[k + 1])
  /\ Len(ConcatTo(pieces, k + 1)) = Len(ConcatTo(pieces, k)) + Len(pieces[k + 1])

\* In a stream that holds all the pieces, each stands behind the ones before it.
LEMMA PieceAt ==
  ASSUME NEW s \in Tokens, NEW i \in Pos, NEW pieces, NEW n \in Nat,
         Pieces(Token, pieces, n), Holds(s, i, ConcatTo(pieces, n)),
         NEW k \in Nat, k + 1 <= n
  PROVE  Stands(s, i, pieces, k)
<1> DEFINE c == ConcatTo(pieces, k)
           p == pieces[k + 1]
<1>1. k \in 0 .. n /\ k + 1 \in 1 .. n /\ k + 1 \in Nat
  BY SMT
<1>2. c \in Tokens /\ p \in Tokens
  <2>1. c \in Seq(Token)
    BY <1>1, ConcatToType
  <2>2. p \in Seq(Token)
    BY <1>1 DEF Pieces
  <2> QED BY <2>1, <2>2 DEF Tokens
<1>3. ConcatTo(pieces, k + 1) = c \o p
  BY ConcatToStep
<1>4. PICK rest \in Tokens : ConcatTo(pieces, n) = (c \o p) \o rest
  <2>1. Begins(Token, ConcatTo(pieces, k + 1), ConcatTo(pieces, n))
    BY Zenon, <1>1, ConcatSplit
  <2> QED BY Zenon, <1>3, <2>1 DEF Begins, Tokens
<1> HIDE DEF c, p
<1>5. c \o p \in Tokens /\ Len(c \o p) = Len(c) + Len(p)
  BY <1>2, Joined
<1>6. Holds(s, i, c \o p)
  BY <1>4, <1>5, HoldsParts
<1>7. Holds(s, i + Len(c), p) /\ i + Len(c) \in Pos
  BY <1>2, <1>6, HoldsParts
<1> QED BY Zenon, <1>2, <1>3, <1>5, <1>7 DEF c, p, Stands

\* The first elements of a sequence, one more at a time.
LEMMA FirstOnes ==
  ASSUME NEW V, NEW v \in Seq(V)
  PROVE  /\ SubSeq(v, 1, 0) = <<>> /\ SubSeq(v, 1, Len(v)) = v
         /\ \A k \in Nat : k + 1 <= Len(v) => SubSeq(v, 1, k + 1) = Append(SubSeq(v, 1, k), v[k + 1])
<1>1. SubSeq(v, 1, 0) = <<>>
  BY SMT
<1>2. SubSeq(v, 1, Len(v)) = v
  BY SMT
<1>3. ASSUME NEW k \in Nat, k + 1 <= Len(v)
      PROVE  SubSeq(v, 1, k + 1) = Append(SubSeq(v, 1, k), v[k + 1])
  <2> DEFINE a == SubSeq(v, 1, k + 1)
             b == SubSeq(v, 1, k)
  <2>1. a \in Seq(V) /\ Len(a) = k + 1 /\ \A j \in 1 .. k + 1 : a[j] = v[j]
    BY SMT, <1>3
  <2>2. b \in Seq(V) /\ Len(b) = k /\ \A j \in 1 .. k : b[j] = v[j]
    BY SMT, <1>3
  <2>3. v[k + 1] \in V
    BY SMT, <1>3
  <2> HIDE DEF a, b
  <2>4. a = Append(b, v[k + 1])
    BY SMT, <2>1, <2>2, <2>3
  <2> QED BY <2>4 DEF a, b
<1> QED BY <1>1, <1>2, <1>3

\* Reading items that a stream holds one behind the other, each of which is read
\* as it should or stops the reading.
ItemsRead(s, pieces, v, item, Stops) ==
  \A k \in 1 .. Len(v), at \in Pos :
     Holds(s, at, pieces[k]) => item[at] \in Stops \/ item[at] = Ok(at + Len(pieces[k]), v[k])

\* Repeat reads the items that were written one behind the other, or stops with one of
\* the allowed results.
LEMMA RepeatHolds ==
  ASSUME NEW s \in Tokens, NEW i \in Pos, NEW pieces, NEW V, NEW v \in Seq(V),
         Pieces(Token, pieces, Len(v)),
         Holds(s, i, ConcatTo(pieces, Len(v))),
         NEW item, NEW Stops, \A r \in Stops : r.st # "ok", ItemsRead(s, pieces, v, item, Stops)
  PROVE  \A n \in 0 .. Len(v) :
            \/ Repeat(item, i, n) \in Stops
            \/ Repeat(item, i, n) = Ok(i + Len(ConcatTo(pieces, n)), SubSeq(v, 1, n))
<1> DEFINE Good(n) == \/ Repeat(item, i, n) \in Stops
                      \/ Repeat(item, i, n) = Ok(i + Len(ConcatTo(pieces, n)), SubSeq(v, 1, n))
           T == {n \in Nat : n <= Len(v) => Good(n)}
<1>0. Len(v) \in Nat
  OBVIOUS
<1>1. 0 \in T
  <2>1. Repeat(item, i, 0) = Ok(i, <<>>) /\ ConcatTo(pieces, 0) = <<>> /\ SubSeq(v, 1, 0) = <<>>
    BY RepeatStep, ConcatToStep, FirstOnes
  <2>2. i + Len(<<>>) = i
    BY SMT DEF Pos
  <2> QED BY Zenon, <2>1, <2>2
<1>2. ASSUME NEW n \in Nat, n \in T PROVE n + 1 \in T
  <2>0. n + 1 \in Nat
    BY SMT
  <2>1. CASE n + 1 <= Len(v)
    <3> DEFINE r == Repeat(item, i, n)
               c == ConcatTo(pieces, n)
               p == pieces[n + 1]
    <3>1. n <= Len(v) /\ n + 1 \in 1 .. Len(v)
      BY SMT, <1>0, <2>1
    <3>2. Repeat(item, i, n + 1) = Step(r, item)
      BY RepeatStep
    <3>3. r \in Stops \/ r = Ok(i + Len(c), SubSeq(v, 1, n))
      BY <1>2, <3>1
    <3>4. /\ c \in Tokens /\ i + Len(c) \in Pos /\ Holds(s, i + Len(c), p)
          /\ Len(ConcatTo(pieces, n + 1)) = Len(c) + Len(p)
      <4>1. Stands(s, i, pieces, n)
        BY Zenon, <1>0, <2>1, PieceAt
      <4> QED BY Zenon, <4>1 DEF Stands
    <3>5. item[i + Len(c)] \in Stops \/ item[i + Len(c)] = Ok((i + Len(c)) + Len(p), v[n + 1])
      BY <3>1, <3>4 DEF ItemsRead
    <3>6. (i + Len(c)) + Len(p) = i + (Len(c) + Len(p))
      <4>1. Len(c) \in Nat /\ p \in Tokens
        BY <3>1, <3>4 DEF Tokens, Pieces
      <4>2. Len(p) \in Nat
        BY <4>1 DEF Tokens
      <4> HIDE DEF c, p
      <4> QED BY SMT, <4>1, <4>2 DEF Pos
    <3>7. SubSeq(v, 1, n + 1) = Append(SubSeq(v, 1, n), v[n + 1])
      BY <2>1, FirstOnes
    <3>8. Good(n + 1) <=> \/ Step(r, item) \in Stops
                          \/ Step(r, item) = Ok(i + (Len(c) + Len(p)), Append(SubSeq(v, 1, n), v[n + 1]))
      BY Zenon, <3>2, <3>4, <3>7
    <3> HIDE DEF r, c, p, Good
    <3>9. CASE r \in Stops
      <4>1. Step(r, item) = r
        BY <3>9 DEF Step
      <4> QED BY <2>0, <3>8, <3>9, <4>1
    <3>10. CASE r = Ok(i + Len(c), SubSeq(v, 1, n)) /\ item[i + Len(c)] \in Stops
      <4>1. Step(r, item) = item[i + Len(c)]
        BY <3>10 DEF Step, Ok
      <4> QED BY <2>0, <3>8, <3>10, <4>1
    <3>11. CASE /\ r = Ok(i + Len(c), SubSeq(v, 1, n))
                /\ item[i + Len(c)] = Ok(i + (Len(c) + Len(p)), v[n + 1])
      <4>1. Step(r, item) = Ok(i + (Len(c) + Len(p)), Append(SubSeq(v, 1, n), v[n + 1]))
        <5>1. /\ r.st = "ok" /\ r.at = i + Len(c) /\ r.val = SubSeq(v, 1, n)
          BY <3>11 DEF Ok
        <5>2. /\ item[i + Len(c)].st = "ok" /\ item[i + Len(c)].at = i + (Len(c) + Len(p))
              /\ item[i + Len(c)].val = v[n + 1]
          BY <3>11 DEF Ok
        <5> QED BY Zenon, <5>1, <5>2 DEF Step
      <4> QED BY <2>0, <3>8, <4>1
    <3> QED BY Zenon, <3>3, <3>5, <3>6, <3>9, <3>10, <3>11
  <2> QED BY Zenon, <2>0, <2>1
<1> HIDE DEF T
<1>3. \A n \in Nat : n \in T
  BY <1>1, <1>2, Induction
<1>4. \A n \in 0 .. Len(v) : n \in Nat /\ n <= Len(v)
  BY SMT, <1>0
<1> HIDE DEF Good
<1>5. \A n \in 0 .. Len(v) : Good(n)
  BY Zenon, <1>3, <1>4 DEF T
<1> QED BY <1>5 DEF Good

-----------------------------------------------------------------------------
(* Requests: what a client sends is read back, or refused. *)

\* What is made of a sequence element by element is one of the same length.
LEMMA Mapped ==
  ASSUME NEW V, NEW v \in Seq(V), NEW f, f = [i \in DOMAIN v |-> f[i]]
  PROVE  Len(f) = Len(v) /\ Len(v) \in Nat /\ DOMAIN v = 1 .. Len(v)
BY SMT

\* writeBulk (writer.go) writes tokens: the header, the body, the line end.
LEMMA writeBulkIs ==
  ASSUME NEW b \in Tokens, Len(b) \in Counts
  PROVE  writeBulk(b) \in Tokens /\ Len(writeBulk(b)) = Len(b) + 4
<1> DEFINE h == Frame("$", Itoa(Len(b)))
           e == <<"crlf">>
<1>1. h \in Tokens /\ Len(h) = 3 /\ e \in Tokens /\ Len(e) = 1
  <2>1. Itoa(Len(b)) \in Token /\ "$" \in Token /\ "crlf" \in Token
    BY AtoiItoa, Marks
  <2> QED BY SMT, <2>1, FrameIs, OneToken
<1>2. writeBulk(b) = (h \o b) \o e
  BY DEF writeBulk
<1> HIDE DEF h, e
<1>3. h \o b \in Tokens /\ Len(h \o b) = 3 + Len(b)
  BY Zenon, <1>1, Joined
<1>4. (h \o b) \o e \in Tokens /\ Len((h \o b) \o e) = (3 + Len(b)) + 1
  BY Zenon, <1>1, <1>3, Joined
<1>5. Len(b) \in Nat
  BY DEF Tokens
<1>6. (3 + Len(b)) + 1 = Len(b) + 4
  BY SMT, <1>5
<1> QED BY Zenon, <1>2, <1>4, <1>6

\* A stream holds itself.
LEMMA HoldsSelf ==
  ASSUME NEW s \in Tokens
  PROVE  Holds(s, 1, s) /\ 1 \in Pos
<1>1. Len(s) \in Nat /\ 1 \in Pos
  BY DEF Tokens, Pos
<1>2. \A k \in 1 .. Len(s) : 1 + k - 1 = k
  BY SMT, <1>1
<1>3. 1 + Len(s) - 1 <= Len(s)
  BY SMT, <1>1
<1> QED BY <1>1, <1>2, <1>3 DEF Holds

\* A command in bulk form is read as it is, or refused by the limits.
Command(args) ==
  /\ args \in Seq(Tokens) /\ args # <<>> /\ Len(args) \in Counts
  /\ \A i \in DOMAIN args : Len(args[i]) \in Counts

\* The client's writeCommand (memcore.go): a header and the arguments as bulks.
LEMMA writeCommandIs ==
  ASSUME NEW args, Command(args)
  PROVE  LET bulks == [i \in DOMAIN args |-> writeBulk(args[i])]
         IN  /\ Pieces(Token, bulks, Len(args)) /\ Len(args) \in Nat
             /\ writeCommand(args) = Frame("*", Itoa(Len(args))) \o ConcatTo(bulks, Len(args))
             /\ ConcatTo(bulks, Len(args)) \in Tokens
             /\ Frame("*", Itoa(Len(args))) \in Tokens
             /\ writeCommand(args) \in Tokens
<1> DEFINE bulks == [i \in DOMAIN args |-> writeBulk(args[i])]
           h == Frame("*", Itoa(Len(args)))
<1>1. args \in Seq(Tokens) /\ Len(args) \in Counts
  BY DEF Command
<1>2. Len(bulks) = Len(args) /\ Len(args) \in Nat /\ DOMAIN args = 1 .. Len(args)
  BY <1>1, Mapped
<1>3. ASSUME NEW k \in 1 .. Len(args) PROVE bulks[k] \in Seq(Token)
  <2>1. args[k] \in Tokens /\ Len(args[k]) \in Counts
    BY <1>1, <1>2 DEF Command
  <2>2. writeBulk(args[k]) \in Tokens
    BY <2>1, writeBulkIs
  <2> QED BY <1>2, <2>2 DEF Tokens
<1>4. Pieces(Token, bulks, Len(args))
  BY <1>3 DEF Pieces
<1>5. h \in Tokens
  <2>1. Itoa(Len(args)) \in Token /\ "*" \in Token
    BY <1>1, AtoiItoa, Marks
  <2> QED BY SMT, <2>1, FrameIs
<1>6. writeCommand(args) = h \o ConcatTo(bulks, Len(args))
  BY Zenon, <1>2 DEF writeCommand, Concat
<1> HIDE DEF bulks, h
<1>7. ConcatTo(bulks, Len(args)) \in Tokens
  <2>1. Len(args) \in 0 .. Len(args)
    BY SMT, <1>2
  <2> QED BY <1>2, <1>4, <2>1, ConcatToType DEF Tokens
<1>8. h \o ConcatTo(bulks, Len(args)) \in Tokens
  BY Zenon, <1>5, <1>7, Joined
<1> QED BY Zenon, <1>2, <1>4, <1>5, <1>6, <1>7, <1>8 DEF bulks, h

\* ReadRequest reads the command that the client's writeCommand wrote, or refuses it.
THEOREM BulkReads ==
  ASSUME NEW args, Command(args)
  PROVE  LET s == writeCommand(args)
         IN  ReadRequest(s) = Bad \/ ReadRequest(s) = Ok(Len(s) + 1, args)
<1> DEFINE bulks == [i \in DOMAIN args |-> writeBulk(args[i])]
           h == Frame("*", Itoa(Len(args)))
           s == writeCommand(args)
           n == Len(args)
           c == ConcatTo(bulks, n)
           item == [k \in Nat |-> readArg(s, k)]
<1>1. /\ Pieces(Token, bulks, n) /\ n \in Nat /\ s = h \o c /\ c \in Tokens /\ h \in Tokens /\ s \in Tokens
  BY Zenon, writeCommandIs
<1>2. args \in Seq(Tokens) /\ n \in Counts /\ n > 0 /\ n # 0
  BY SMT DEF Command
<1>3. Len(h) = 3 /\ h[1] = "*" /\ h[2] = Itoa(n) /\ h[3] = "crlf"
  <2>1. Itoa(n) \in Token /\ "*" \in Token
    BY <1>2, AtoiItoa, Marks
  <2> QED BY SMT, <2>1, FrameIs
<1>4. DOMAIN args = 1 .. n
  BY <1>2
<1>a. \A k \in 1 .. n : bulks[k] = writeBulk(args[k])
  BY <1>4
<1>b. \A k \in Pos : item[k] = readArg(s, k)
  BY DEF Pos
<1> HIDE DEF bulks, h, s, c, item
<1>5. /\ Len(s) = 3 + Len(c) /\ Len(c) \in Nat
      /\ s[1] = "*" /\ s[2] = Itoa(n) /\ s[3] = "crlf"
  <2>1. Len(h \o c) = Len(h) + Len(c) /\ \A k \in 1 .. Len(h) : (h \o c)[k] = h[k]
    BY Zenon, <1>1, Prefix
  <2>2. 1 \in 1 .. Len(h) /\ 2 \in 1 .. Len(h) /\ 3 \in 1 .. Len(h)
    BY SMT, <1>3
  <2>3. Len(c) \in Nat
    BY <1>1 DEF Tokens
  <2> QED BY Zenon, <1>1, <1>3, <2>1, <2>2, <2>3
<1>6. Holds(s, 4, c)
  <2>1. Holds(s, 1, h \o c) /\ 1 \in Pos
    BY <1>1, HoldsSelf
  <2>2. Holds(s, 1 + 3, c)
    BY Zenon, <1>1, <1>3, <2>1, HoldsParts
  <2> QED BY <2>2
<1>7. readCount(s, 2) = Bad \/ readCount(s, 2) = Ok(4, n)
  <2>1. 2 \in Pos /\ 2 + 1 <= Len(s) /\ 2 + 1 = 3 /\ 2 + 2 = 4
    BY SMT, <1>5 DEF Pos
  <2>2. readCount(s, 2) = Bad \/ readCount(s, 2) = Ok(2 + 2, n)
    BY <1>1, <1>2, <1>5, <2>1, readCountReads
  <2> QED BY <2>1, <2>2
<1>8. ItemsRead(s, bulks, args, item, {Bad})
  <2>1. ASSUME NEW k \in 1 .. n, NEW at \in Pos, Holds(s, at, bulks[k])
        PROVE  item[at] \in {Bad} \/ item[at] = Ok(at + Len(bulks[k]), args[k])
    <3>1. args[k] \in Tokens /\ Len(args[k]) \in Counts
      BY <1>2, <1>4 DEF Command
    <3>2. Holds(s, at, writeBulk(args[k]))
      BY <1>a, <2>1
    <3>3. readArg(s, at) = Bad \/ readArg(s, at) = Ok(at + Len(writeBulk(args[k])), args[k])
      BY Zenon, <1>1, <3>1, <3>2, readArgReads
    <3> QED BY <1>a, <1>b, <3>3
  <2> QED BY <2>1 DEF ItemsRead
<1>9. Repeat(item, 4, n) = Bad \/ Repeat(item, 4, n) = Ok(Len(s) + 1, args)
  <2>1. 4 \in Pos /\ n \in 0 .. n
    BY SMT, <1>1 DEF Pos
  <2>2. \A r \in {Bad} : r.st # "ok"
    BY DEF Bad, Stopped
  <2>3. Repeat(item, 4, n) \in {Bad} \/ Repeat(item, 4, n) = Ok(4 + Len(c), SubSeq(args, 1, n))
    BY <1>1, <1>2, <1>6, <1>8, <2>1, <2>2, RepeatHolds DEF c
  <2>4. 4 + Len(c) = Len(s) + 1
    BY SMT, <1>5
  <2>5. SubSeq(args, 1, n) = args
    BY <1>2, FirstOnes
  <2> QED BY <2>3, <2>4, <2>5
<1>10. ReadRequest(s) = readMultiBulk(s, 2)
  <2>1. s # <<>>
    BY SMT, <1>5
  <2> QED BY <1>5, <2>1 DEF ReadRequest
<1>11. LET r == readCount(s, 2)
       IN  readMultiBulk(s, 2) = IF r.st # "ok" THEN r
                                 ELSE IF r.val <= 0 THEN Ok(r.at, <<>>)
                                 ELSE IF r.val > MaxMultiBulk THEN Bad
                                 ELSE Repeat(item, r.at, r.val)
  BY DEF readMultiBulk, Then, item
<1>12. CASE readCount(s, 2) = Bad
  BY <1>10, <1>11, <1>12 DEF s, Bad, Stopped
<1>13. CASE readCount(s, 2) = Ok(4, n)
  <2>1. readCount(s, 2).st = "ok" /\ readCount(s, 2).at = 4 /\ readCount(s, 2).val = n /\ ~(n <= 0)
    BY SMT, <1>1, <1>2, <1>13 DEF Ok
  <2>2. readMultiBulk(s, 2) = Bad \/ readMultiBulk(s, 2) = Repeat(item, 4, n)
    BY Zenon, <1>11, <2>1
  <2> QED BY Zenon, <1>9, <1>10, <2>2 DEF s
<1> QED BY <1>7, <1>12, <1>13

\* The words of an inline command, each with the blank or line end after it.
Words(args) ==
  args \in Seq(Tokens) /\ args # <<>>
  /\ \A i \in DOMAIN args : Len(args[i]) = 1 /\ args[i][1] \in Word \ {"sp"}

\* What follows word i.
Separator(args, i) == IF i = Len(args) THEN "crlf" ELSE "sp"

\* Each word with what follows it.
Spaced(args) == [i \in DOMAIN args |-> args[i] \o <<Separator(args, i)>>]

\* They are pieces of two tokens.
LEMMA SpacedIs ==
  ASSUME NEW args, Words(args)
  PROVE  /\ Len(args) \in Pos /\ DOMAIN args = 1 .. Len(args) /\ Len(Spaced(args)) = Len(args)
         /\ Pieces(Token, Spaced(args), Len(args))
         /\ \A k \in 1 .. Len(args) :
              /\ Len(Spaced(args)[k]) = 2 /\ Spaced(args)[k][1] = args[k][1]
              /\ Spaced(args)[k][2] = Separator(args, k)
              /\ args[k] = <<args[k][1]>> /\ args[k][1] \in Token /\ args[k][1] \notin LineEnds
              /\ args[k][1] # "sp"
<1> DEFINE p == Spaced(args)
<1>0. args \in Seq(Tokens) /\ args # <<>>
  BY DEF Words
<1>1. Len(args) \in Pos /\ DOMAIN args = 1 .. Len(args)
  BY SMT, <1>0 DEF Pos
<1>2. Len(p) = Len(args)
  BY SMT, <1>0 DEF Spaced
<1>3. ASSUME NEW k \in 1 .. Len(args)
      PROVE  /\ p[k] \in Tokens /\ Len(p[k]) = 2 /\ p[k][1] = args[k][1] /\ p[k][2] = Separator(args, k)
             /\ args[k] = <<args[k][1]>> /\ args[k][1] \in Token /\ args[k][1] \notin LineEnds
             /\ args[k][1] # "sp"
  <2> DEFINE a == args[k]
             e == <<Separator(args, k)>>
  <2>1. a \in Tokens /\ Len(a) = 1 /\ a[1] \in Token /\ a[1] \notin LineEnds /\ a[1] # "sp"
    BY <1>0, <1>1 DEF Words, Word
  <2>2. p[k] = a \o e
    BY <1>1 DEF Spaced
  <2>3. Separator(args, k) \in Token
    BY Marks DEF Separator
  <2>4. e \in Tokens /\ Len(e) = 1 /\ e[1] = Separator(args, k)
    BY <2>3, OneToken
  <2> HIDE DEF a, e
  <2>5. /\ a \o e \in Tokens /\ Len(a \o e) = Len(a) + Len(e)
        /\ \A j \in 1 .. Len(a) : (a \o e)[j] = a[j]
        /\ \A j \in 1 .. Len(e) : (a \o e)[Len(a) + j] = e[j]
    BY Zenon, <2>1, <2>4, Prefix
  <2>6. (a \o e)[1] = a[1] /\ (a \o e)[2] = e[1] /\ Len(a \o e) = 2
    BY SMT, <2>1, <2>4, <2>5
  <2>7. a = <<a[1]>>
    BY SMT, <2>1 DEF Tokens
  <2> QED BY Zenon, <2>1, <2>2, <2>4, <2>5, <2>6, <2>7 DEF a
<1>4. Pieces(Token, p, Len(args))
  BY <1>3 DEF Pieces, Tokens
<1> QED BY Zenon, <1>1, <1>2, <1>3, <1>4

\* The k-th word is at position 2k - 1 of the line.
LEMMA SpacedAt ==
  ASSUME NEW args, Words(args)
  PROVE  LET s == ConcatTo(Spaced(args), Len(args))
         IN  /\ s \in Tokens /\ Len(s) = 2 * Len(args)
             /\ \A k \in 1 .. Len(args) : s[2 * k - 1] = args[k][1] /\ s[2 * k] = Separator(args, k)
<1> DEFINE p == Spaced(args)
           n == Len(args)
           s == ConcatTo(p, n)
           T == {k \in Nat : k <= n => Len(ConcatTo(p, k)) = 2 * k}
<1>1. n \in Pos /\ Pieces(Token, p, n)
  BY SpacedIs
<1>2. n \in Nat /\ n \in 0 .. n /\ n > 0
  BY SMT, <1>1 DEF Pos
<1>3. s \in Tokens
  BY <1>1, <1>2, ConcatToType DEF Tokens
<1>p. \A k \in 1 .. n : Len(p[k]) = 2 /\ p[k][1] = args[k][1] /\ p[k][2] = Separator(args, k)
  BY Zenon, SpacedIs
<1> HIDE DEF s, p
<1>4. Holds(s, 1, s) /\ 1 \in Pos
  BY <1>3, HoldsSelf
<1>5. ASSUME NEW k \in Nat, k + 1 <= n
      PROVE  Stands(s, 1, p, k)
  <2>1. Holds(s, 1, ConcatTo(p, n))
    BY <1>4 DEF s
  <2> QED BY <1>1, <1>2, <1>3, <1>4, <1>5, <2>1, PieceAt
<1>6. 0 \in T
  <2>1. ConcatTo(p, 0) = <<>>
    BY ConcatToStep
  <2> QED BY SMT, <2>1
<1>7. ASSUME NEW k \in Nat, k \in T PROVE k + 1 \in T
  <2>0. k + 1 \in Nat
    BY SMT
  <2>1. ASSUME k + 1 <= n PROVE Len(ConcatTo(p, k + 1)) = 2 * (k + 1)
    <3>1. Len(ConcatTo(p, k)) = 2 * k /\ k + 1 \in 1 .. n
      BY SMT, <1>2, <1>7, <2>1
    <3>2. Len(ConcatTo(p, k + 1)) = Len(ConcatTo(p, k)) + Len(p[k + 1])
      BY Zenon, <1>5, <2>1 DEF Stands
    <3>3. Len(p[k + 1]) = 2
      BY Zenon, <1>p, <3>1
    <3>4. 2 * k + 2 = 2 * (k + 1)
      BY SMT
    <3> QED BY Zenon, <3>1, <3>2, <3>3, <3>4
  <2> QED BY <2>0, <2>1
<1> HIDE DEF T
<1>8. \A k \in Nat : k \in T
  BY <1>6, <1>7, Induction
<1>9. \A k \in Nat : k <= n => Len(ConcatTo(p, k)) = 2 * k
  BY <1>8 DEF T
<1>10. ASSUME NEW k \in 1 .. n PROVE s[2 * k - 1] = args[k][1] /\ s[2 * k] = Separator(args, k)
  <2>1. k - 1 \in Nat /\ (k - 1) + 1 = k /\ k <= n /\ k - 1 <= n
    BY SMT, <1>2
  <2>2. Holds(s, 1 + Len(ConcatTo(p, k - 1)), p[k])
    BY Zenon, <1>5, <2>1 DEF Stands
  <2>3. Len(ConcatTo(p, k - 1)) = 2 * (k - 1)
    BY Zenon, <1>9, <2>1
  <2>4. Holds(s, 1 + 2 * (k - 1), p[k])
    BY Zenon, <2>2, <2>3
  <2>5. /\ Len(p[k]) = 2 /\ p[k][1] = args[k][1] /\ p[k][2] = Separator(args, k)
    BY Zenon, <1>p
  <2>6. 1 \in 1 .. 2 /\ 2 \in 1 .. 2 /\ 1 + 2 * (k - 1) + 1 - 1 = 2 * k - 1 /\ 1 + 2 * (k - 1) + 2 - 1 = 2 * k
    BY SMT
  <2> QED BY Zenon, <2>4, <2>5, <2>6 DEF Holds
<1>11. Len(s) = 2 * n
  <2>1. n <= n
    BY SMT, <1>2
  <2> QED BY Zenon, <1>2, <1>9, <2>1 DEF s
<1> QED BY Zenon, <1>3, <1>10, <1>11 DEF s, p

\* bytes.Fields gives the words back.
LEMMA FieldsReads ==
  ASSUME NEW args, Words(args)
  PROVE  LET s == ConcatTo(Spaced(args), Len(args))
         IN  Fields(SubSeq(s, 1, 2 * Len(args) - 1)) = args
<1> DEFINE n == Len(args)
           s == ConcatTo(Spaced(args), n)
           m == 2 * n - 1
           line == SubSeq(s, 1, m)
           f == [k \in DOMAIN line |-> IF line[k] = "sp" THEN <<>> ELSE <<<<line[k]>>>>]
           T == {k \in Nat : k + 1 <= n => ConcatTo(f, 2 * k + 1) = SubSeq(args, 1, k + 1)}
<1>1. n \in Pos /\ args \in Seq(Tokens)
  BY SpacedIs DEF Words
<1>2. n \in Nat /\ n >= 1 /\ m \in Nat /\ m >= 1
  BY SMT, <1>1 DEF Pos
<1>3. /\ s \in Tokens /\ Len(s) = 2 * n
      /\ \A k \in 1 .. n : s[2 * k - 1] = args[k][1] /\ s[2 * k] = Separator(args, k)
  BY Zenon, SpacedAt
<1>p. \A k \in 1 .. n : args[k] = <<args[k][1]>> /\ args[k][1] # "sp"
  BY Zenon, SpacedIs
<1> HIDE DEF s
<1>4. line \in Tokens /\ Len(line) = m /\ DOMAIN line = 1 .. m /\ \A k \in 1 .. m : line[k] = s[k]
  BY SMT, <1>2, <1>3 DEF Tokens
<1> HIDE DEF line
<1>5. Len(f) = m /\ \A k \in 1 .. m : f[k] = IF line[k] = "sp" THEN <<>> ELSE <<<<line[k]>>>>
  <2>1. Len(f) = Len(line)
    BY <1>4, Mapped DEF Tokens
  <2> QED BY Zenon, <1>4, <2>1
<1> HIDE DEF f
<1>w. ASSUME NEW k \in 1 .. n PROVE f[2 * k - 1] = <<args[k]>>
  <2>1. 2 * k - 1 \in 1 .. m
    BY SMT, <1>2
  <2>2. line[2 * k - 1] = args[k][1]
    BY Zenon, <1>3, <1>4, <2>1
  <2> QED BY Zenon, <1>5, <1>p, <2>1, <2>2
<1>s. ASSUME NEW k \in 1 .. n, k < n PROVE f[2 * k] = <<>>
  <2>1. 2 * k \in 1 .. m /\ k # n
    BY SMT, <1>2, <1>s
  <2>2. line[2 * k] = "sp"
    BY Zenon, <1>3, <1>4, <2>1 DEF Separator
  <2> QED BY Zenon, <1>5, <2>1, <2>2
<1>a. \A x \in Seq(Tokens), y \in Tokens : x \o <<>> = x /\ x \o <<y>> = Append(x, y)
  BY SMT
<1>b. SubSeq(args, 1, 0) = <<>> /\ \A k \in 0 .. n : SubSeq(args, 1, k) \in Seq(Tokens)
  BY SMT, <1>1
<1>c. \A k \in Nat : k + 1 <= n => SubSeq(args, 1, k + 1) = Append(SubSeq(args, 1, k), args[k + 1])
  BY <1>1, FirstOnes
<1>d. \A k \in 1 .. n : args[k] \in Tokens
  BY SMT, <1>1
<1>6. 0 \in T
  <2>1. ConcatTo(f, 0) = <<>> /\ ConcatTo(f, 0 + 1) = ConcatTo(f, 0) \o f[0 + 1]
    BY ConcatToStep
  <2>2. 1 \in 1 .. n /\ 2 * 1 - 1 = 1 /\ 0 + 1 = 1 /\ 2 * 0 + 1 = 1 /\ 0 + 1 <= n /\ 0 \in Nat
    BY SMT, <1>2
  <2>3. f[1] = <<args[1]>>
    BY <1>w, <2>2
  <2>4. <<>> \in Seq(Tokens) /\ args[1] \in Tokens
    BY <1>d, <2>2
  <2>5. ConcatTo(f, 1) = Append(<<>>, args[1])
    BY Zenon, <1>a, <2>1, <2>2, <2>3, <2>4
  <2>6. SubSeq(args, 1, 1) = Append(<<>>, args[1])
    BY Zenon, <1>b, <1>c, <2>2
  <2> QED BY Zenon, <2>2, <2>5, <2>6
<1>7. ASSUME NEW k \in Nat, k \in T PROVE k + 1 \in T
  <2>0. k + 1 \in Nat
    BY SMT
  <2>1. ASSUME (k + 1) + 1 <= n PROVE ConcatTo(f, 2 * (k + 1) + 1) = SubSeq(args, 1, (k + 1) + 1)
    <3>1. /\ k + 1 <= n /\ k + 1 < n /\ k + 1 \in 1 .. n /\ (k + 1) + 1 \in 1 .. n /\ k + 1 \in 0 .. n
          /\ 2 * k + 1 \in Nat /\ (2 * k + 1) + 1 \in Nat
          /\ (2 * k + 1) + 1 = 2 * (k + 1) /\ 2 * ((k + 1) + 1) - 1 = ((2 * k + 1) + 1) + 1
          /\ 2 * (k + 1) + 1 = ((2 * k + 1) + 1) + 1
      BY SMT, <1>2, <2>1
    <3>2. ConcatTo(f, 2 * k + 1) = SubSeq(args, 1, k + 1)
      BY Zenon, <1>7, <3>1
    <3>3. /\ ConcatTo(f, (2 * k + 1) + 1) = ConcatTo(f, 2 * k + 1) \o f[(2 * k + 1) + 1]
          /\ ConcatTo(f, ((2 * k + 1) + 1) + 1) = ConcatTo(f, (2 * k + 1) + 1) \o f[((2 * k + 1) + 1) + 1]
      BY Zenon, <3>1, ConcatToStep
    <3>4. f[2 * (k + 1)] = <<>>
      BY <1>s, <3>1
    <3>5. f[2 * ((k + 1) + 1) - 1] = <<args[(k + 1) + 1]>>
      BY <1>w, <3>1
    <3> DEFINE x == SubSeq(args, 1, k + 1)
               y == args[(k + 1) + 1]
    <3>6. x \in Seq(Tokens) /\ y \in Tokens
      BY Zenon, <1>b, <1>d, <3>1
    <3>7. ConcatTo(f, (2 * k + 1) + 1) = x \o <<>>
      BY Zenon, <3>1, <3>2, <3>3, <3>4
    <3>8. ConcatTo(f, ((2 * k + 1) + 1) + 1) = ConcatTo(f, (2 * k + 1) + 1) \o <<y>>
      BY Zenon, <3>1, <3>3, <3>5
    <3>9. SubSeq(args, 1, (k + 1) + 1) = Append(x, y)
      BY Zenon, <1>c, <2>0, <2>1
    <3> HIDE DEF x, y
    <3>10. x \o <<>> = x /\ x \o <<y>> = Append(x, y)
      BY Zenon, <1>a, <3>6
    <3> QED BY Zenon, <3>1, <3>7, <3>8, <3>9, <3>10
  <2> QED BY <2>0, <2>1
<1> HIDE DEF T
<1>8. \A k \in Nat : k \in T
  BY <1>6, <1>7, Induction
<1>9. n - 1 \in Nat /\ (n - 1) + 1 = n /\ n <= n /\ 2 * (n - 1) + 1 = m
  BY SMT, <1>2
<1>10. ConcatTo(f, m) = SubSeq(args, 1, n)
  BY Zenon, <1>8, <1>9 DEF T
<1>11. SubSeq(args, 1, n) = args
  BY <1>1, FirstOnes
<1>12. Fields(line) = ConcatTo(f, Len(f))
  BY DEF Fields, Concat, f
<1> QED BY Zenon, <1>5, <1>10, <1>11, <1>12 DEF line, s

\* An inline command is read as it is, or is too long a line.
LEMMA InlineReads ==
  ASSUME NEW args, Words(args), args[1] # <<"*">>
  PROVE  LET s == ConcatTo(Spaced(args), Len(args))
         IN  /\ s \in Tokens
             /\ ReadRequest(s) = Bad \/ ReadRequest(s) = Ok(Len(s) + 1, args)
<1> DEFINE n == Len(args)
           s == ConcatTo(Spaced(args), n)
           e == 2 * n
<1>1. n \in Pos
  BY SpacedIs
<1>2. n \in Nat /\ n >= 1 /\ e \in Nat /\ e >= 2 /\ 1 \in Pos
  BY SMT, <1>1 DEF Pos
<1>3. /\ s \in Tokens /\ Len(s) = e
      /\ \A k \in 1 .. n : s[2 * k - 1] = args[k][1] /\ s[2 * k] = Separator(args, k)
  BY Zenon, SpacedAt
<1>p. \A k \in 1 .. n : args[k] = <<args[k][1]>> /\ args[k][1] \notin LineEnds
  BY Zenon, SpacedIs
<1>f. Fields(SubSeq(s, 1, e - 1)) = args
  BY Zenon, FieldsReads
<1> HIDE DEF s
<1>4. s[e] = "crlf"
  <2>1. n \in 1 .. n
    BY SMT, <1>2
  <2> QED BY Zenon, <1>3, <2>1 DEF Separator
<1>5. \A j \in Int : 1 <= j /\ j < e => s[j] \notin LineEnds
  <2> SUFFICES ASSUME NEW j \in Int, 1 <= j, j < e PROVE s[j] \notin LineEnds
    OBVIOUS
  <2>1. \/ \E k \in 1 .. n : j = 2 * k - 1
        \/ \E k \in 1 .. n : j = 2 * k /\ k # n
    <3>1. (j + 1) \div 2 \in Int /\ (j = 2 * ((j + 1) \div 2) - 1 \/ j = 2 * ((j + 1) \div 2))
      BY SMT
    <3>2. PICK k \in Int : j = 2 * k - 1 \/ j = 2 * k
      BY <3>1
    <3>3. k \in 1 .. n /\ (j = 2 * k => k # n)
      BY SMT, <1>2, <3>2
    <3> QED BY Zenon, <3>2, <3>3
  <2>2. CASE \E k \in 1 .. n : j = 2 * k - 1
    BY Zenon, <1>3, <1>p, <2>2
  <2>3. CASE \E k \in 1 .. n : j = 2 * k /\ k # n
    <3>1. s[j] = "sp"
      BY Zenon, <1>3, <2>3 DEF Separator
    <3> QED BY <3>1 DEF LineEnds
  <2> QED BY <2>1, <2>2, <2>3
<1>6. LineEnd(s, 1) = e
  <2>1. FirstEnd(s, 1, e)
    <3>1. e \in Int /\ 1 <= e /\ e <= Len(s)
      BY SMT, <1>2, <1>3
    <3> QED BY Zenon, <1>4, <1>5, <3>1 DEF FirstEnd, LineEnds
  <2> QED BY Zenon, <1>2, <1>3, <2>1, LineEndIs
<1>7. readLine(s, 1) = Bad \/ readLine(s, 1) = Ok(e + 1, SubSeq(s, 1, e - 1))
  <2>1. e # 0 /\ ~(e = 0)
    BY SMT, <1>2
  <2> QED BY <1>4, <1>6, <2>1 DEF readLine
<1>8. ReadRequest(s) = readInline(s, 1)
  <2>1. s # <<>>
    BY SMT, <1>2, <1>3
  <2>2. s[1] # "*"
    <3>1. 1 \in 1 .. n /\ 2 * 1 - 1 = 1
      BY SMT, <1>2
    <3>2. s[1] = args[1][1] /\ args[1] = <<args[1][1]>>
      BY Zenon, <1>3, <1>p, <3>1
    <3> QED BY Zenon, <3>2
  <2> QED BY Zenon, <2>1, <2>2 DEF ReadRequest
<1>9. LET r == readLine(s, 1) IN readInline(s, 1) = IF r.st # "ok" THEN r ELSE Ok(r.at, Fields(r.val))
  BY DEF readInline, Then
<1>10. CASE readLine(s, 1) = Bad
  <2>1. readInline(s, 1) = Bad
    BY <1>9, <1>10 DEF Bad, Stopped
  <2> QED BY Zenon, <1>3, <1>8, <2>1 DEF s
<1>11. CASE readLine(s, 1) = Ok(e + 1, SubSeq(s, 1, e - 1))
  <2> DEFINE line == SubSeq(s, 1, e - 1)
  <2> HIDE DEF line
  <2>0. readLine(s, 1).st = "ok" /\ readLine(s, 1).at = e + 1 /\ readLine(s, 1).val = line
    BY <1>11 DEF Ok, line
  <2>1. readInline(s, 1) = Ok(e + 1, Fields(SubSeq(s, 1, e - 1)))
    BY Zenon, <1>9, <2>0 DEF line
  <2> QED BY Zenon, <1>3, <1>8, <1>f, <2>1 DEF s
<1> QED BY <1>7, <1>10, <1>11

\* What a window of the stream has of a piece that stands at its beginning.
LEMMA Window ==
  ASSUME NEW s \in Tokens, NEW e \in Tokens, NEW a \in Nat, NEW b \in Nat, a <= b, b <= Len(s),
         Holds(s, a + 1, e)
  PROVE  LET buf == SubSeq(s, a + 1, b)
         IN  /\ buf \in Tokens /\ Len(buf) = b - a
             /\ Begins(Token, buf, e) \/ (Begins(Token, e, buf) /\ b - a > Len(e))
<1> DEFINE buf == SubSeq(s, a + 1, b)
           l == b - a
           u == SubSeq(e, l + 1, Len(e))
           v == SubSeq(s, a + Len(e) + 1, b)
<1>0. Len(s) \in Nat /\ Len(e) \in Nat /\ l \in Nat
  BY SMT DEF Tokens
<1>1. buf \in Tokens /\ Len(buf) = l /\ \A k \in 1 .. l : buf[k] = s[a + k]
  BY SMT, <1>0 DEF Tokens
<1>2. \A k \in 1 .. Len(e) : s[a + k] = e[k]
  <2>1. \A k \in 1 .. Len(e) : s[(a + 1) + k - 1] = e[k]
    BY Zenon DEF Holds
  <2>2. \A k \in 1 .. Len(e) : (a + 1) + k - 1 = a + k
    BY SMT, <1>0
  <2> QED BY Zenon, <2>1, <2>2
<1> HIDE DEF buf
<1>3. CASE l <= Len(e)
  <2>1. u \in Tokens /\ Len(u) = Len(e) - l /\ \A k \in 1 .. Len(e) - l : u[k] = e[l + k]
    BY SMT, <1>0, <1>3 DEF Tokens
  <2> HIDE DEF u
  <2>2. buf \o u \in Tokens /\ Len(buf \o u) = Len(e)
    BY SMT, <1>0, <1>1, <1>3, <2>1 DEF Tokens
  <2>3. ASSUME NEW k \in 1 .. Len(e) PROVE (buf \o u)[k] = e[k]
    <3>1. CASE k <= l
      <4>1. k \in 1 .. l /\ k \in 1 .. Len(buf)
        BY SMT, <1>0, <1>1, <3>1
      <4>2. (buf \o u)[k] = buf[k]
        BY Zenon, <1>1, <2>1, <4>1, Prefix
      <4> QED BY Zenon, <1>1, <1>2, <4>1, <4>2
    <3>2. CASE k > l
      <4>1. k - l \in 1 .. Len(u) /\ l + (k - l) = k
        BY SMT, <1>0, <2>1, <3>2
      <4>2. (buf \o u)[Len(buf) + (k - l)] = u[k - l]
        BY Zenon, <1>1, <2>1, <4>1, Prefix
      <4>3. u[k - l] = e[k]
        BY Zenon, <2>1, <4>1
      <4> QED BY Zenon, <1>1, <4>1, <4>2, <4>3
    <3>3. k <= l \/ k > l
      BY SMT, <1>0
    <3> QED BY <3>1, <3>2, <3>3
  <2>4. e = buf \o u
    <3> DEFINE w == buf \o u
    <3> HIDE DEF w
    <3>1. w \in Tokens /\ Len(w) = Len(e) /\ \A k \in 1 .. Len(e) : w[k] = e[k]
      BY Zenon, <2>2, <2>3 DEF w
    <3>2. w = e
      BY SMT, <3>1 DEF Tokens
    <3> QED BY <3>2 DEF w
  <2>5. Begins(Token, buf, e)
    BY <2>1, <2>4 DEF Begins, Tokens
  <2> QED BY Zenon, <1>1, <2>5 DEF buf
<1>4. CASE l > Len(e)
  <2>1. v \in Tokens /\ Len(v) = l - Len(e) /\ \A k \in 1 .. l - Len(e) : v[k] = s[a + Len(e) + k]
    BY SMT, <1>0, <1>4 DEF Tokens
  <2> HIDE DEF v
  <2>2. e \o v \in Tokens /\ Len(e \o v) = l
    BY SMT, <1>0, <1>4, <2>1 DEF Tokens
  <2>3. ASSUME NEW k \in 1 .. l PROVE (e \o v)[k] = buf[k]
    <3>1. CASE k <= Len(e)
      <4>1. k \in 1 .. Len(e)
        BY SMT, <1>0, <3>1
      <4>2. (e \o v)[k] = e[k]
        BY Zenon, <2>1, <4>1, Prefix
      <4> QED BY Zenon, <1>1, <1>2, <4>1, <4>2
    <3>2. CASE k > Len(e)
      <4>1. k - Len(e) \in 1 .. Len(v) /\ Len(e) + (k - Len(e)) = k /\ a + Len(e) + (k - Len(e)) = a + k
        BY SMT, <1>0, <2>1, <3>2
      <4>2. (e \o v)[Len(e) + (k - Len(e))] = v[k - Len(e)]
        BY Zenon, <2>1, <4>1, Prefix
      <4>3. v[k - Len(e)] = s[a + k]
        BY Zenon, <2>1, <4>1
      <4> QED BY Zenon, <1>1, <4>1, <4>2, <4>3
    <3>3. k <= Len(e) \/ k > Len(e)
      BY SMT, <1>0
    <3> QED BY <3>1, <3>2, <3>3
  <2>4. buf = e \o v
    <3> DEFINE w == e \o v
    <3> HIDE DEF w
    <3>1. w \in Tokens /\ Len(w) = l /\ \A k \in 1 .. l : w[k] = buf[k]
      BY Zenon, <2>2, <2>3 DEF w
    <3>2. w = buf
      BY SMT, <1>1, <3>1 DEF Tokens
    <3> QED BY <3>2 DEF w
  <2>5. Begins(Token, e, buf)
    BY <2>1, <2>4 DEF Begins, Tokens
  <2> QED BY Zenon, <1>1, <1>4, <2>5 DEF buf
<1>5. l <= Len(e) \/ l > Len(e)
  BY SMT, <1>0
<1> QED BY <1>3, <1>4, <1>5

-----------------------------------------------------------------------------
(* Replies: what the server writes is read back. *)

\* The client reads a line of a prefix and a word.
LEMMA FrameAt ==
  ASSUME NEW s \in Tokens, NEW i \in Pos, NEW p \in Word, NEW w \in Word, Holds(s, i, Frame(p, w))
  PROVE  /\ Frame(p, w) \in Tokens /\ Len(Frame(p, w)) = 3
         /\ clientLine(s, i) = Ok(i + 3, <<p, w>>)
<1>0. p \in Token /\ w \in Token /\ p \notin LineEnds /\ w \notin LineEnds
  BY DEF Word
<1>1. /\ Frame(p, w) \in Tokens /\ Len(Frame(p, w)) = 3
      /\ Frame(p, w)[1] = p /\ Frame(p, w)[2] = w /\ Frame(p, w)[3] = "crlf"
  BY Zenon, <1>0, FrameIs
<1>2. /\ 1 \in 1 .. 3 /\ 2 \in 1 .. 3 /\ 3 \in 1 .. 3
      /\ i + 1 - 1 = i /\ i + 2 - 1 = i + 1 /\ i + 3 - 1 = i + 2
      /\ i \in Nat /\ i > 0 /\ Len(s) \in Nat /\ i + 2 + 1 = i + 3 /\ i + 2 - i = 2
  BY SMT DEF Pos, Tokens
<1>3. s[i] = p /\ s[i + 1] = w /\ s[i + 2] = "crlf" /\ i + 2 <= Len(s)
  BY Zenon, <1>1, <1>2 DEF Holds
<1>4. LineEnd(s, i) = i + 2
  <2>1. \A j \in Int : i <= j /\ j < i + 2 => j = i \/ j = i + 1
    BY SMT, <1>2
  <2>2. i + 2 \in Int /\ i <= i + 2
    BY SMT, <1>2
  <2>3. FirstEnd(s, i, i + 2)
    BY Zenon, <1>0, <1>3, <2>1, <2>2 DEF FirstEnd, LineEnds
  <2> QED BY Zenon, <2>3, LineEndIs
<1>5. i + 2 # 0
  BY SMT, <1>2
<1>6. clientLine(s, i) = Ok(i + 3, <<p, w>>)
  <2> DEFINE e == LineEnd(s, i)
  <2>1. clientLine(s, i) = IF e = 0 THEN More ELSE IF e - i # 2 THEN Bad ELSE Ok(e + 1, <<s[i], s[i + 1]>>)
    BY DEF clientLine
  <2>2. e = i + 2
    BY <1>4
  <2> HIDE DEF e
  <2>3. e # 0 /\ e - i = 2 /\ e + 1 = i + 3
    BY SMT, <1>2, <2>2
  <2> QED BY Zenon, <1>3, <2>1, <2>3
<1> QED BY Zenon, <1>1, <1>6

\* The markers of RESP are words,
LEMMA MarkWords == "*" \in Word /\ "$" \in Word /\ ":" \in Word /\ "+" \in Word /\ "-" \in Word
BY Marks DEF Word, LineEnds

\* and so are the numerals that strconv.Itoa writes.
LEMMA ItoaWord ==
  ASSUME NEW n \in Counts
  PROVE  Itoa(n) \in Word /\ IsCount(Itoa(n)) /\ Atoi(Itoa(n)) = n /\ n \in Int
BY AtoiItoa, RespAssumption DEF Word

\* A reply that is no array is read as it was written.
FlatRead(s, i, r) ==
  /\ clientLine(s, i).st = "ok" /\ clientLine(s, i).val[1] # "*"
  /\ readFlat(s, i) = IF r.kind = "error" THEN Failed(i + Len(writeFlat(r)), r.str)
                      ELSE Ok(i + Len(writeFlat(r)), SeenFlat(r))

\* The client's readReply reads the line of a reply that is no array.
LEMMA LineReads ==
  ASSUME NEW s \in Tokens, NEW i \in Pos, NEW p \in Word, NEW w \in Word, Holds(s, i, Frame(p, w)), p # "*"
  PROVE  /\ clientLine(s, i).st = "ok" /\ clientLine(s, i).val[1] # "*"
         /\ readFlat(s, i) = FlatOf(s, i + Len(Frame(p, w)), <<p, w>>)
         /\ Len(Frame(p, w)) = 3
<1> DEFINE r == clientLine(s, i)
<1>1. r = Ok(i + 3, <<p, w>>) /\ Len(Frame(p, w)) = 3
  BY FrameAt
<1>2. readFlat(s, i) = IF r.st # "ok" THEN r ELSE FlatOf(s, r.at, r.val)
  BY readFlatIs
<1> HIDE DEF r
<1>3. r.st = "ok" /\ r.at = i + 3 /\ r.val = <<p, w>>
  BY Zenon, <1>1 DEF Ok
<1>4. r.val[1] # "*"
  <2>1. <<p, w>>[1] = p
    OBVIOUS
  <2> QED BY Zenon, <1>3, <2>1
<1> QED BY Zenon, <1>1, <1>2, <1>3, <1>4 DEF r

\* The client's readReply returns the status, error, integer, bulk or nil that writeReply
\* (writer.go) wrote.
LEMMA FlatReads ==
  ASSUME NEW s \in Tokens, NEW i \in Pos, NEW r \in Plain \cup Errors, Holds(s, i, writeFlat(r))
  PROVE  FlatRead(s, i, r)
<1>1. CASE r = Nil
  <2> DEFINE w == Itoa(-1)
             at == i + Len(Frame("$", w))
  <2>1. writeFlat(r) = Frame("$", w) /\ r.kind = "nil" /\ SeenFlat(r) = Nil
    BY <1>1 DEF writeFlat, Nil, SeenFlat
  <2>2. w \in Word /\ IsCount(w) /\ Atoi(w) = -1
    BY ItoaWord, RespAssumption
  <2> HIDE DEF w
  <2>3. "$" \in Word /\ "$" # "*"
    BY MarkWords
  <2>4. /\ clientLine(s, i).st = "ok" /\ clientLine(s, i).val[1] # "*"
        /\ readFlat(s, i) = FlatOf(s, at, <<"$", w>>)
    BY Zenon, <2>1, <2>2, <2>3, LineReads
  <2> HIDE DEF at
  <2>5. FlatOf(s, at, <<"$", w>>) = clientBulk(s, at, -1)
    BY <2>2 DEF FlatOf
  <2>6. clientBulk(s, at, -1) = Ok(at, Nil)
    BY SMT DEF clientBulk
  <2> QED BY <2>1, <2>4, <2>5, <2>6 DEF FlatRead, at
<1>2. CASE r \in [kind : {"simple"}, str : Word]
  <2> DEFINE w == r.str
             at == i + Len(Frame("+", w))
  <2>1. r.kind = "simple" /\ w \in Word
    BY <1>2
  <2>2. writeFlat(r) = Frame("+", w) /\ SeenFlat(r) = Text(<<w>>)
    BY <2>1 DEF writeFlat, SeenFlat
  <2> HIDE DEF w
  <2>3. "+" \in Word /\ "+" # "*"
    BY MarkWords
  <2>4. /\ clientLine(s, i).st = "ok" /\ clientLine(s, i).val[1] # "*"
        /\ readFlat(s, i) = FlatOf(s, at, <<"+", w>>)
    BY Zenon, <2>1, <2>2, <2>3, LineReads
  <2> HIDE DEF at
  <2>5. FlatOf(s, at, <<"+", w>>) = Ok(at, Text(<<w>>))
    BY DEF FlatOf
  <2> QED BY <2>1, <2>2, <2>4, <2>5 DEF FlatRead, at
<1>3. CASE r \in [kind : {"int"}, num : Counts]
  <2> DEFINE w == Itoa(r.num)
             at == i + Len(Frame(":", w))
  <2>1. r.kind = "int" /\ r.num \in Counts /\ r = Number(r.num)
    BY <1>3 DEF Number
  <2>2. writeFlat(r) = Frame(":", w) /\ SeenFlat(r) = r
    BY <2>1 DEF writeFlat, SeenFlat
  <2>w. w \in Word /\ IsCount(w) /\ Atoi(w) = r.num
    BY <2>1, ItoaWord
  <2> HIDE DEF w
  <2>3. ":" \in Word /\ ":" # "*"
    BY MarkWords
  <2>4. /\ clientLine(s, i).st = "ok" /\ clientLine(s, i).val[1] # "*"
        /\ readFlat(s, i) = FlatOf(s, at, <<":", w>>)
    BY Zenon, <2>w, <2>2, <2>3, LineReads
  <2> HIDE DEF at
  <2>5. FlatOf(s, at, <<":", w>>) = Ok(at, Number(Atoi(w)))
    BY <2>w DEF FlatOf
  <2> QED BY Zenon, <2>1, <2>2, <2>w, <2>4, <2>5 DEF FlatRead, at
<1>4. CASE r \in [kind : {"error"}, str : Word]
  <2> DEFINE w == r.str
             at == i + Len(Frame("-", w))
  <2>1. r.kind = "error" /\ w \in Word
    BY <1>4
  <2>2. writeFlat(r) = Frame("-", w)
    BY <2>1 DEF writeFlat
  <2> HIDE DEF w
  <2>3. "-" \in Word /\ "-" # "*"
    BY MarkWords
  <2>4. /\ clientLine(s, i).st = "ok" /\ clientLine(s, i).val[1] # "*"
        /\ readFlat(s, i) = FlatOf(s, at, <<"-", w>>)
    BY Zenon, <2>1, <2>2, <2>3, LineReads
  <2> HIDE DEF at
  <2>5. FlatOf(s, at, <<"-", w>>) = Failed(at, w)
    BY DEF FlatOf
  <2> QED BY Zenon, <2>1, <2>2, <2>4, <2>5 DEF FlatRead, at, w
<1>5. CASE r \in [kind : {"bulk"}, bulk : {b \in Seq(Token) : Len(b) \in Counts}]
  <2> DEFINE b == r.bulk
             n == Len(b)
             w == Itoa(n)
             at == i + 3
  <2>1. r.kind = "bulk" /\ b \in Tokens /\ n \in Counts
    BY <1>5 DEF Tokens
  <2>2. writeFlat(r) = writeBulk(b) /\ SeenFlat(r) = Text(b)
    BY <2>1 DEF writeFlat, SeenFlat
  <2> HIDE DEF b
  <2>3. n \in Nat /\ i \in Nat /\ at \in Pos
    BY SMT, <2>1 DEF Tokens, Pos
  <2>4. /\ Len(writeBulk(b)) = n + 4
        /\ Holds(s, at, b) /\ at + n <= Len(s)
    <3>1. Holds(s, i, writeBulk(b))
      BY Zenon, <2>2
    <3> QED BY <2>1, <3>1, BulkAt
  <2>w. w \in Word /\ IsCount(w) /\ Atoi(w) = n
    BY <2>1, ItoaWord
  <2>m. "$" \in Word /\ "$" # "*"
    BY MarkWords
  <2>5. Holds(s, i, Frame("$", w))
    <3>1. Frame("$", w) \in Tokens /\ b \o <<"crlf">> \in Tokens /\ <<"crlf">> \in Tokens
      <4>1. "$" \in Token /\ w \in Token
        BY <2>w, <2>m DEF Word
      <4>2. <<"crlf">> \in Tokens
        BY Marks, OneToken
      <4> QED BY Zenon, <2>1, <4>1, <4>2, FrameIs, Joined
    <3>2. writeBulk(b) = (Frame("$", w) \o b) \o <<"crlf">>
      BY DEF writeBulk
    <3>3. Frame("$", w) \o b \in Tokens
      BY Zenon, <2>1, <3>1, Joined
    <3>4. Holds(s, i, Frame("$", w) \o b)
      <4> DEFINE x == Frame("$", w) \o b
                 y == <<"crlf">>
      <4>1. Holds(s, i, x \o y) /\ x \in Tokens /\ y \in Tokens
        BY Zenon, <2>2, <3>1, <3>2, <3>3
      <4> HIDE DEF x, y
      <4>2. Holds(s, i, x)
        BY Zenon, <4>1, HoldsParts
      <4> QED BY <4>2 DEF x
    <3> QED BY Zenon, <2>1, <3>1, <3>4, HoldsParts
  <2>6. /\ clientLine(s, i).st = "ok" /\ clientLine(s, i).val[1] # "*"
        /\ readFlat(s, i) = FlatOf(s, at, <<"$", w>>)
    BY Zenon, <2>w, <2>m, <2>5, LineReads
  <2>7. SubSeq(s, at, at + n - 1) = b
    BY Zenon, <2>1, <2>3, <2>4, HoldsCut
  <2> HIDE DEF at, w, n
  <2>8. FlatOf(s, at, <<"$", w>>) = clientBulk(s, at, n)
    BY <2>w DEF FlatOf
  <2>9. clientBulk(s, at, n) = Ok(at + n + 1, Text(b))
    <3>1. ~(n < 0) /\ ~(at + n > Len(s))
      <4>1. Len(s) \in Nat
        BY DEF Tokens
      <4> QED BY SMT, <2>3, <2>4, <4>1 DEF Pos
    <3> QED BY Zenon, <2>7, <3>1 DEF clientBulk
  <2>10. at + n + 1 = i + Len(writeBulk(b))
    BY SMT, <2>3, <2>4 DEF at
  <2> QED BY Zenon, <2>1, <2>2, <2>6, <2>8, <2>9, <2>10 DEF FlatRead
<1> QED BY <1>1, <1>2, <1>3, <1>4, <1>5 DEF Plain, Errors

\* A reply that is no array comes to tokens.
LEMMA writeFlatIs ==
  ASSUME NEW r \in Plain \cup Errors
  PROVE  writeFlat(r) \in Tokens /\ r.kind # "array"
<1>1. CASE r = Nil
  <2>1. writeFlat(r) = Frame("$", Itoa(-1)) /\ r.kind = "nil"
    BY <1>1 DEF writeFlat, Nil
  <2>2. Itoa(-1) \in Token /\ "$" \in Token
    BY AtoiItoa, Marks, RespAssumption
  <2>9. Frame("$", Itoa(-1)) \in Tokens
    BY Zenon, <2>1, <2>2, FrameIs
  <2> QED BY <2>1, <2>2, <2>9
<1>2. CASE r \in [kind : {"simple"}, str : Word]
  <2>1. r.kind = "simple" /\ r.str \in Token /\ "+" \in Token
    BY <1>2, Marks DEF Word
  <2>2. writeFlat(r) = Frame("+", r.str)
    BY <2>1 DEF writeFlat
  <2>9. Frame("+", r.str) \in Tokens
    BY Zenon, <2>1, <2>2, FrameIs
  <2> QED BY <2>1, <2>2, <2>9
<1>3. CASE r \in [kind : {"int"}, num : Counts]
  <2>1. r.kind = "int" /\ r.num \in Counts
    BY <1>3
  <2>2. Itoa(r.num) \in Token /\ ":" \in Token
    BY <2>1, AtoiItoa, Marks
  <2>3. writeFlat(r) = Frame(":", Itoa(r.num))
    BY <2>1 DEF writeFlat
  <2>9. Frame(":", Itoa(r.num)) \in Tokens
    BY Zenon, <2>1, <2>2, FrameIs
  <2> QED BY <2>1, <2>2, <2>3, <2>9
<1>4. CASE r \in [kind : {"error"}, str : Word]
  <2>1. r.kind = "error" /\ r.str \in Token /\ "-" \in Token
    BY <1>4, Marks DEF Word
  <2>2. writeFlat(r) = Frame("-", r.str)
    BY <2>1 DEF writeFlat
  <2>9. Frame("-", r.str) \in Tokens
    BY Zenon, <2>1, <2>2, FrameIs
  <2> QED BY <2>1, <2>2, <2>9
<1>5. CASE r \in [kind : {"bulk"}, bulk : {b \in Seq(Token) : Len(b) \in Counts}]
  <2>1. r.kind = "bulk" /\ r.bulk \in Tokens /\ Len(r.bulk) \in Counts
    BY <1>5 DEF Tokens
  <2>2. writeFlat(r) = writeBulk(r.bulk)
    BY <2>1 DEF writeFlat
  <2> QED BY Zenon, <2>1, <2>2, writeBulkIs
<1> QED BY <1>1, <1>2, <1>3, <1>4, <1>5 DEF Plain, Errors

\* The pieces of an array, and what the client should see of them.
Flats(rs) == [k \in DOMAIN rs |-> writeFlat(rs[k])]
\* The items of an array as the client returns them.
SeenFlats(rs) == [k \in DOMAIN rs |-> SeenFlat(rs[k])]

\* They are as many as the items of the reply.
LEMMA FlatsAre ==
  ASSUME NEW rs \in Seq(Plain)
  PROVE  /\ Len(rs) \in Nat /\ DOMAIN rs = 1 .. Len(rs) /\ Len(Flats(rs)) = Len(rs)
         /\ SeenFlats(rs) \in Seq({SeenFlat(r) : r \in Plain}) /\ Len(SeenFlats(rs)) = Len(rs)
         /\ Pieces(Token, Flats(rs), Len(rs))
         /\ \A k \in 1 .. Len(rs) :
              /\ Flats(rs)[k] = writeFlat(rs[k]) /\ SeenFlats(rs)[k] = SeenFlat(rs[k])
              /\ rs[k] \in Plain
<1>1. /\ Len(rs) \in Nat /\ DOMAIN rs = 1 .. Len(rs) /\ Len(Flats(rs)) = Len(rs)
      /\ Len(SeenFlats(rs)) = Len(rs)
  BY Mapped DEF Flats, SeenFlats
<1>2. \A k \in 1 .. Len(rs) : rs[k] \in Plain
  BY SMT
<1>3. \A k \in 1 .. Len(rs) : Flats(rs)[k] = writeFlat(rs[k]) /\ SeenFlats(rs)[k] = SeenFlat(rs[k])
  BY Zenon, <1>1 DEF Flats, SeenFlats
<1>4. Pieces(Token, Flats(rs), Len(rs))
  <2>1. ASSUME NEW k \in 1 .. Len(rs) PROVE Flats(rs)[k] \in Tokens
    <3>1. rs[k] \in Plain \cup Errors
      BY <1>2
    <3>2. writeFlat(rs[k]) \in Tokens
      BY <3>1, writeFlatIs
    <3> QED BY <1>3, <3>2
  <2> QED BY <2>1 DEF Pieces, Tokens
<1>5. SeenFlats(rs) \in Seq({SeenFlat(r) : r \in Plain})
  <2> DEFINE S == {SeenFlat(r) : r \in Plain}
  <2>1. \A k \in DOMAIN rs : SeenFlat(rs[k]) \in S
    BY Zenon, <1>1, <1>2
  <2> HIDE DEF S
  <2>2. SeenFlats(rs) \in [1 .. Len(rs) -> S]
    BY Zenon, <1>1, <2>1 DEF SeenFlats
  <2>3. SeenFlats(rs) \in Seq(S)
    BY SMT, <1>1, <2>2
  <2> QED BY <2>3 DEF S
<1> QED BY Zenon, <1>1, <1>2, <1>3, <1>4, <1>5

\* Each reply is read as it was written.
SeenAs(r) == IF r.kind # "array" THEN SeenFlat(r) ELSE Array(SeenFlats(r.array))

\* writeReply (writer.go) writes an array as a header and its items.
LEMMA ArrayIs ==
  ASSUME NEW r \in Arrays
  PROVE  LET rs == r.array
             h == Frame("*", Itoa(Len(rs)))
             c == ConcatTo(Flats(rs), Len(rs))
         IN  /\ r.kind = "array" /\ rs \in Seq(Plain) /\ Len(rs) \in Counts
             /\ writeReply(r) = h \o c /\ h \in Tokens /\ Len(h) = 3 /\ c \in Tokens
             /\ h \o c \in Tokens
<1> DEFINE rs == r.array
           h == Frame("*", Itoa(Len(rs)))
           c == ConcatTo(Flats(rs), Len(rs))
<1>1. r.kind = "array" /\ rs \in Seq(Plain) /\ Len(rs) \in Counts
  BY DEF Arrays
<1>2. h \in Tokens /\ Len(h) = 3
  <2>1. Itoa(Len(rs)) \in Token /\ "*" \in Token
    BY <1>1, AtoiItoa, Marks
  <2> QED BY Zenon, <2>1, FrameIs
<1>3. Len(rs) \in Nat /\ Len(Flats(rs)) = Len(rs) /\ Pieces(Token, Flats(rs), Len(rs))
  BY Zenon, <1>1, FlatsAre
<1>4. c \in Tokens
  <2>1. Len(rs) \in 0 .. Len(rs)
    BY SMT, <1>3
  <2> QED BY Zenon, <1>3, <2>1, ConcatToType DEF Tokens
<1>5. writeReply(r) = h \o Concat(Flats(rs))
  BY <1>1 DEF writeReply, Flats
<1>6. Concat(Flats(rs)) = c
  BY Zenon, <1>3 DEF Concat
<1>7. h \o c \in Tokens
  <2> HIDE DEF h, c
  <2> QED BY Zenon, <1>2, <1>4, Joined
<1> QED BY Zenon, <1>1, <1>2, <1>4, <1>5, <1>6, <1>7

\* The client's readReply returns the array that writeReply wrote.
LEMMA ArrayReads ==
  ASSUME NEW s \in Tokens, NEW i \in Pos, NEW r \in Arrays, Holds(s, i, writeReply(r))
  PROVE  readReply(s, i) = Ok(i + Len(writeReply(r)), SeenAs(r))
<1> DEFINE rs == r.array
           n == Len(rs)
           h == Frame("*", Itoa(n))
           p == Flats(rs)
           c == ConcatTo(p, n)
           v == SeenFlats(rs)
           item == [k \in Nat |-> readFlat(s, k)]
           d == Repeat(item, i + 3, n)
           l == clientLine(s, i)
<1>1. /\ r.kind = "array" /\ rs \in Seq(Plain) /\ n \in Counts
      /\ writeReply(r) = h \o c /\ h \in Tokens /\ Len(h) = 3 /\ c \in Tokens
  BY Zenon, ArrayIs
<1>2. /\ n \in Nat /\ v \in Seq({SeenFlat(x) : x \in Plain}) /\ Len(v) = n /\ Pieces(Token, p, n)
      /\ \A k \in 1 .. n : p[k] = writeFlat(rs[k]) /\ v[k] = SeenFlat(rs[k]) /\ rs[k] \in Plain
  BY Zenon, <1>1, FlatsAre
<1>3. "*" \in Word /\ Itoa(n) \in Word /\ IsCount(Itoa(n)) /\ Atoi(Itoa(n)) = n
  BY <1>1, MarkWords, ItoaWord
<1>i. \A k \in Pos : item[k] = readFlat(s, k)
  BY DEF Pos
<1>j. readArray(s, i + 3, n) = IF n < 0 THEN Ok(i + 3, Nil)
                               ELSE IF d.st # "ok" THEN d ELSE Ok(d.at, Array(d.val))
  BY readArrayIs
<1> HIDE DEF p, c, v, item, d, rs
<1>4. Holds(s, i, h) /\ Holds(s, i + Len(h), c) /\ i + Len(h) \in Pos
  <2>1. Holds(s, i, h \o c)
    BY Zenon, <1>1
  <2> HIDE DEF h
  <2> QED BY Zenon, <1>1, <2>1, HoldsParts
<1>5. Holds(s, i + 3, c) /\ i + 3 \in Pos
  BY Zenon, <1>1, <1>4
<1>6. l = Ok(i + 3, <<"*", Itoa(n)>>)
  BY Zenon, <1>3, <1>4, FrameAt
<1>7. ItemsRead(s, p, v, item, {})
  <2>1. ASSUME NEW k \in 1 .. Len(v), NEW at \in Pos, Holds(s, at, p[k])
        PROVE  item[at] = Ok(at + Len(p[k]), v[k])
    <3>1. p[k] = writeFlat(rs[k]) /\ v[k] = SeenFlat(rs[k]) /\ rs[k] \in Plain
      BY Zenon, <1>2
    <3>2. FlatRead(s, at, rs[k])
      <4>1. rs[k] \in Plain \cup Errors /\ Holds(s, at, writeFlat(rs[k]))
        BY Zenon, <2>1, <3>1
      <4> QED BY Zenon, <4>1, FlatReads
    <3>3. rs[k].kind # "error"
      BY <3>1 DEF Plain, Nil
    <3> QED BY Zenon, <1>i, <3>1, <3>2, <3>3 DEF FlatRead
  <2> QED BY Zenon, <2>1 DEF ItemsRead
<1>8. d = Ok(i + 3 + Len(c), v)
  <2>1. n \in 0 .. n
    BY SMT, <1>2
  <2>2. SubSeq(v, 1, n) = v
    BY Zenon, <1>2, FirstOnes
  <2>3. Repeat(item, i + 3, n) \in {} \/ Repeat(item, i + 3, n) = Ok(i + 3 + Len(ConcatTo(p, n)), SubSeq(v, 1, n))
    <3>1. \A x \in {} : x.st # "ok"
      OBVIOUS
    <3>2. Pieces(Token, p, Len(v)) /\ Holds(s, i + 3, ConcatTo(p, Len(v))) /\ n \in 0 .. Len(v)
      BY Zenon, <1>2, <1>5, <2>1 DEF c
    <3> DEFINE V == {SeenFlat(x) : x \in Plain}
               at == i + 3
    <3>3. v \in Seq(V) /\ at \in Pos /\ Holds(s, at, ConcatTo(p, Len(v)))
      BY Zenon, <1>2, <1>5, <3>2
    <3> HIDE DEF V, at
    <3>4. Repeat(item, at, n) \in {} \/ Repeat(item, at, n) = Ok(at + Len(ConcatTo(p, n)), SubSeq(v, 1, n))
      BY <1>7, <3>1, <3>2, <3>3, RepeatHolds
    <3> QED BY Zenon, <3>4 DEF at
  <2> QED BY Zenon, <2>2, <2>3 DEF d, c
<1>9. readAny(s, i) = Ok(i + 3 + Len(c), Array(v))
  <2>1. readAny(s, i) = IF l.st # "ok" THEN l
                        ELSE IF l.val[1] # "*" THEN readFlat(s, i)
                        ELSE IF IsCount(l.val[2]) THEN readArray(s, l.at, Atoi(l.val[2]))
                        ELSE Bad
    BY readAnyIs
  <2> DEFINE w == Itoa(n)
  <2>2. <<"*", w>>[1] = "*" /\ <<"*", w>>[2] = w
    OBVIOUS
  <2> HIDE DEF l
  <2>3. l.st = "ok" /\ l.at = i + 3 /\ l.val = <<"*", w>>
    BY Zenon, <1>6 DEF Ok
  <2>4. readAny(s, i) = readArray(s, i + 3, n)
    BY Zenon, <1>3, <2>1, <2>2, <2>3
  <2>5. d.st = "ok" /\ d.at = i + 3 + Len(c) /\ d.val = v
    BY Zenon, <1>8 DEF Ok
  <2>6. ~(n < 0)
    BY SMT, <1>2
  <2> QED BY Zenon, <1>j, <2>4, <2>5, <2>6
<1>10. readReply(s, i) = Ok(i + 3 + Len(c), Array(v))
  <2>1. readReply(s, i) = IF readAny(s, i).st = "error" THEN Ok(readAny(s, i).at, readAny(s, i).val) ELSE readAny(s, i)
    BY readReplyIs
  <2>2. readAny(s, i).st # "error"
    BY <1>9 DEF Ok
  <2> QED BY Zenon, <1>9, <2>1, <2>2
<1>11. i + 3 + Len(c) = i + Len(writeReply(r))
  <2>1. Len(h \o c) = Len(h) + Len(c) /\ Len(c) \in Nat
    <3> HIDE DEF h
    <3>1. Len(h \o c) = Len(h) + Len(c)
      BY Zenon, <1>1, Joined
    <3> QED BY <1>1, <3>1 DEF Tokens
  <2>2. Len(writeReply(r)) = 3 + Len(c)
    BY Zenon, <1>1, <2>1
  <2> QED BY SMT, <2>1, <2>2 DEF Pos
<1>12. SeenAs(r) = Array(v)
  BY Zenon, <1>1 DEF SeenAs, v, rs
<1> QED BY Zenon, <1>10, <1>11, <1>12

\* The client's readReply returns the reply that writeReply wrote, whatever follows it.
LEMMA ReplyReads ==
  ASSUME NEW r \in Reply
  PROVE  /\ writeReply(r) \in Tokens
         /\ \A s \in Tokens, i \in Pos :
              Holds(s, i, writeReply(r)) => readReply(s, i) = Ok(i + Len(writeReply(r)), SeenAs(r))
<1>1. CASE r \in Plain \cup Errors
  <2>1. writeFlat(r) \in Tokens /\ r.kind # "array"
    BY <1>1, writeFlatIs
  <2>2. writeReply(r) = writeFlat(r) /\ SeenAs(r) = SeenFlat(r)
    BY <2>1 DEF writeReply, SeenAs
  <2>3. ASSUME NEW s \in Tokens, NEW i \in Pos, Holds(s, i, writeFlat(r))
        PROVE  readReply(s, i) = Ok(i + Len(writeFlat(r)), SeenFlat(r))
    <3> DEFINE l == clientLine(s, i)
               f == readFlat(s, i)
               at == i + Len(writeFlat(r))
    <3>1. FlatRead(s, i, r)
      BY Zenon, <1>1, <2>3, FlatReads
    <3>2. readAny(s, i) = IF l.st # "ok" THEN l
                          ELSE IF l.val[1] # "*" THEN readFlat(s, i)
                          ELSE IF IsCount(l.val[2]) THEN readArray(s, l.at, Atoi(l.val[2]))
                          ELSE Bad
      BY readAnyIs
    <3>3. readAny(s, i) = f
      BY Zenon, <3>1, <3>2 DEF FlatRead
    <3>4. readReply(s, i) = IF f.st = "error" THEN Ok(f.at, f.val) ELSE f
      <4>1. readReply(s, i) = IF readAny(s, i).st = "error" THEN Ok(readAny(s, i).at, readAny(s, i).val) ELSE readAny(s, i)
        BY readReplyIs
      <4> QED BY Zenon, <3>3, <4>1
    <3>5. f = IF r.kind = "error" THEN Failed(at, r.str) ELSE Ok(at, SeenFlat(r))
      BY Zenon, <3>1 DEF FlatRead
    <3> HIDE DEF f, at
    <3>6. CASE r.kind = "error"
      <4>1. f.st = "error" /\ f.at = at /\ f.val = Error(r.str)
        BY Zenon, <3>5, <3>6 DEF Failed
      <4>2. SeenFlat(r) = r
        BY <3>6 DEF SeenFlat
      <4>3. r = Error(r.str)
        BY <1>1, <3>6 DEF Plain, Nil, Errors, Error
      <4> QED BY Zenon, <3>4, <4>1, <4>2, <4>3 DEF at
    <3>7. CASE r.kind # "error"
      <4>1. f = Ok(at, SeenFlat(r))
        BY Zenon, <3>5, <3>7
      <4>2. f.st # "error"
        BY <4>1 DEF Ok
      <4> QED BY Zenon, <3>4, <4>1, <4>2 DEF at
    <3> QED BY <3>6, <3>7
  <2> QED BY Zenon, <2>1, <2>2, <2>3
<1>2. CASE r \in Arrays
  <2>1. writeReply(r) \in Tokens
    BY Zenon, <1>2, ArrayIs
  <2>2. ASSUME NEW s \in Tokens, NEW i \in Pos, Holds(s, i, writeReply(r))
        PROVE  readReply(s, i) = Ok(i + Len(writeReply(r)), SeenAs(r))
    BY Zenon, <1>2, <2>2, ArrayReads
  <2> QED BY Zenon, <2>1, <2>2
<1> QED BY <1>1, <1>2 DEF Reply

\* The replies to a connection's commands, as they are written.
Wrote(R) == [i \in DOMAIN R |-> writeReply(R[i])]

\* They are the pieces of the server's stream.
LEMMA WroteIs ==
  ASSUME NEW R \in Seq(Reply)
  PROVE  /\ Len(R) \in Nat /\ DOMAIN R = 1 .. Len(R) /\ Len(Wrote(R)) = Len(R)
         /\ Pieces(Token, Wrote(R), Len(R)) /\ Concat(Wrote(R)) = ConcatTo(Wrote(R), Len(R))
         /\ Concat(Wrote(R)) \in Tokens
         /\ \A k \in 1 .. Len(R) :
              /\ R[k] \in Reply /\ Wrote(R)[k] = writeReply(R[k]) /\ Seen(R)[k] = SeenAs(R[k])
         /\ Seen(R) \in Seq({SeenAs(r) : r \in Reply}) /\ Len(Seen(R)) = Len(R)
<1>0. Seen(R) = [k \in DOMAIN R |-> SeenAs(R[k])]
  BY DEF Seen, SeenAs, SeenFlats
<1>1. /\ Len(R) \in Nat /\ DOMAIN R = 1 .. Len(R) /\ Len(Wrote(R)) = Len(R)
  BY Mapped DEF Wrote
<1>2. \A k \in 1 .. Len(R) : R[k] \in Reply
  BY SMT
<1>3. \A k \in 1 .. Len(R) : Wrote(R)[k] = writeReply(R[k]) /\ Seen(R)[k] = SeenAs(R[k])
  BY Zenon, <1>0, <1>1 DEF Wrote
<1>4. Pieces(Token, Wrote(R), Len(R))
  <2>1. ASSUME NEW k \in 1 .. Len(R) PROVE Wrote(R)[k] \in Tokens
    <3>1. writeReply(R[k]) \in Tokens
      BY Zenon, <1>2, ReplyReads
    <3> QED BY <1>3, <3>1
  <2> QED BY <2>1 DEF Pieces, Tokens
<1>5. Concat(Wrote(R)) = ConcatTo(Wrote(R), Len(R))
  BY Zenon, <1>1 DEF Concat
<1>6. Concat(Wrote(R)) \in Tokens
  <2>1. Len(R) \in 0 .. Len(R)
    BY SMT, <1>1
  <2> QED BY Zenon, <1>1, <1>4, <1>5, <2>1, ConcatToType DEF Tokens
<1>7. Seen(R) \in Seq({SeenAs(r) : r \in Reply}) /\ Len(Seen(R)) = Len(R)
  <2> DEFINE S == {SeenAs(r) : r \in Reply}
  <2>1. \A k \in DOMAIN R : SeenAs(R[k]) \in S
    BY Zenon, <1>1, <1>2
  <2> HIDE DEF S
  <2>2. Seen(R) \in [1 .. Len(R) -> S]
    BY Zenon, <1>0, <1>1, <2>1
  <2>3. Seen(R) \in Seq(S) /\ Len(Seen(R)) = Len(R)
    BY SMT, <1>1, <2>2
  <2> QED BY <2>3 DEF S
<1> QED BY Zenon, <1>1, <1>2, <1>3, <1>4, <1>5, <1>6, <1>7

\* Nothing is read where nothing is.
LEMMA NothingRead ==
  ASSUME NEW s \in Tokens
  PROVE  readReply(s, 1 + Len(s)).st = "more" /\ 1 + Len(s) \in Pos
<1> DEFINE i == 1 + Len(s)
           r == readAny(s, i)
<1>0. Len(s) \in Nat /\ i \in Pos
  BY SMT DEF Tokens, Pos
<1>1. {k \in i .. Len(s) : s[k] \in LineEnds} = {}
  BY SMT, <1>0
<1>2. LineEnd(s, i) = 0
  BY <1>1 DEF LineEnd
<1>3. clientLine(s, i) = More
  BY Zenon, <1>2 DEF clientLine
<1> HIDE DEF i
<1>4. r = More
  <2> DEFINE l == clientLine(s, i)
  <2>1. r = IF l.st # "ok" THEN l
            ELSE IF l.val[1] # "*" THEN readFlat(s, i)
            ELSE IF IsCount(l.val[2]) THEN readArray(s, l.at, Atoi(l.val[2]))
            ELSE Bad
    BY readAnyIs
  <2>2. l.st # "ok"
    BY <1>3 DEF More, Stopped
  <2> QED BY Zenon, <1>3, <2>1, <2>2
<1>5. readReply(s, i) = IF r.st = "error" THEN Ok(r.at, r.val) ELSE r
  BY readReplyIs
<1> HIDE DEF r
<1>6. r.st = "more" /\ r.st # "error"
  BY <1>4 DEF More, Stopped
<1> QED BY Zenon, <1>0, <1>5, <1>6 DEF i

\* The client that has everything reads all the replies, and then waits.
LEMMA AllRead ==
  ASSUME NEW R \in Seq(Reply)
  PROVE  LET s == Concat(Wrote(R))
         IN  /\ \A n \in 0 .. Len(R) : readReplies(s, n) = Ok(1 + Len(ConcatTo(Wrote(R), n)), SubSeq(Seen(R), 1, n))
             /\ readReplies(s, Len(R) + 1).st = "more"
<1> DEFINE s == Concat(Wrote(R))
           p == Wrote(R)
           v == Seen(R)
           V == {SeenAs(r) : r \in Reply}
           item == [k \in Nat |-> readReply(s, k)]
           m == Len(R)
<1>1. /\ m \in Nat /\ Pieces(Token, p, m) /\ s = ConcatTo(p, m) /\ s \in Tokens
      /\ \A k \in 1 .. m : R[k] \in Reply /\ p[k] = writeReply(R[k]) /\ v[k] = SeenAs(R[k])
      /\ v \in Seq(V) /\ Len(v) = m
  BY Zenon, WroteIs
<1>i. \A k \in Pos : item[k] = readReply(s, k)
  BY DEF Pos
<1>j. \A n : readReplies(s, n) = Repeat(item, 1, n)
  BY DEF readReplies
<1> HIDE DEF s, p, v, V, item
<1>2. ItemsRead(s, p, v, item, {})
  <2>1. ASSUME NEW k \in 1 .. Len(v), NEW at \in Pos, Holds(s, at, p[k])
        PROVE  item[at] = Ok(at + Len(p[k]), v[k])
    <3>1. R[k] \in Reply /\ p[k] = writeReply(R[k]) /\ v[k] = SeenAs(R[k])
      BY Zenon, <1>1
    <3>2. readReply(s, at) = Ok(at + Len(writeReply(R[k])), SeenAs(R[k]))
      BY Zenon, <1>1, <2>1, <3>1, ReplyReads
    <3> QED BY Zenon, <1>i, <3>1, <3>2
  <2> QED BY Zenon, <2>1 DEF ItemsRead
<1>3. ASSUME NEW n \in 0 .. m PROVE Repeat(item, 1, n) = Ok(1 + Len(ConcatTo(p, n)), SubSeq(v, 1, n))
  <2>1. \A x \in {} : x.st # "ok"
    OBVIOUS
  <2>2. Pieces(Token, p, Len(v)) /\ Holds(s, 1, ConcatTo(p, Len(v))) /\ 1 \in Pos /\ n \in 0 .. Len(v)
    BY Zenon, <1>1, HoldsSelf
  <2>3. Repeat(item, 1, n) \in {} \/ Repeat(item, 1, n) = Ok(1 + Len(ConcatTo(p, n)), SubSeq(v, 1, n))
    BY <1>1, <1>2, <2>1, <2>2, RepeatHolds
  <2> QED BY <2>3
<1>4. Repeat(item, 1, m + 1).st = "more"
  <2> DEFINE d == Repeat(item, 1, m)
  <2>1. m \in 0 .. m
    BY SMT, <1>1
  <2>2. d = Ok(1 + Len(s), SubSeq(v, 1, m))
    BY Zenon, <1>1, <1>3, <2>1
  <2>3. Repeat(item, 1, m + 1) = Step(d, item)
    BY <1>1, RepeatStep
  <2>4. item[1 + Len(s)].st = "more"
    BY Zenon, <1>1, <1>i, NothingRead
  <2> HIDE DEF d
  <2>5. d.st = "ok" /\ d.at = 1 + Len(s)
    BY Zenon, <2>2 DEF Ok
  <2>6. Step(d, item) = item[1 + Len(s)]
    BY <2>4, <2>5 DEF Step
  <2> QED BY Zenon, <2>3, <2>4, <2>6
<1> QED BY Zenon, <1>3, <1>4, <1>j DEF s, p, v

\* However much the client has got, it reads the first replies, and waits for
\* more only if there is more to come.
Delivered(R, s, n, whole) ==
  LET r == readReplies(s, n)
  IN  \/ r.st = "ok" /\ n <= Len(R) /\ r.val = SubSeq(Seen(R), 1, n)
      \/ r.st = "more" /\ (n > Len(R) \/ ~whole)

\* Calls of Do on any prefix of what was written return the first replies, in order, and
\* then wait.
THEOREM SomeRead ==
  ASSUME NEW R \in Seq(Reply), NEW g \in Nat, g <= Len(Concat(Wrote(R))), NEW n \in 1 .. Len(R) + 1
  PROVE  Delivered(R, SubSeq(Concat(Wrote(R)), 1, g), n, ~(g < Len(Concat(Wrote(R)))))
<1> DEFINE all == Concat(Wrote(R))
           s == SubSeq(all, 1, g)
           t == SubSeq(all, g + 1, Len(all))
           r == readReplies(s, n)
           q == readReplies(all, n)
<1>1. all \in Tokens /\ Len(R) \in Nat
  BY Zenon, WroteIs
<1>2. \/ n <= Len(R) /\ q = Ok(1 + Len(ConcatTo(Wrote(R), n)), SubSeq(Seen(R), 1, n))
      \/ n > Len(R) /\ q.st = "more"
  <2>1. n \in 0 .. Len(R) \/ n = Len(R) + 1
    BY SMT, <1>1
  <2>2. CASE n \in 0 .. Len(R)
    <3>1. n <= Len(R)
      BY SMT, <1>1, <2>2
    <3> QED BY Zenon, <2>2, <3>1, AllRead
  <2>3. CASE n = Len(R) + 1
    <3>1. n > Len(R)
      BY SMT, <1>1, <2>3
    <3> QED BY Zenon, <2>3, <3>1, AllRead
  <2> QED BY <2>1, <2>2, <2>3
<1>g. g <= Len(all)
  OBVIOUS
<1> HIDE DEF all
<1>3. /\ s \in Tokens /\ t \in Tokens /\ all = s \o t
      /\ g = Len(all) => s = all
  <2>0. Len(all) \in Nat
    BY <1>1 DEF Tokens
  <2>1. s \in Tokens /\ Len(s) = g /\ \A k \in 1 .. g : s[k] = all[k]
    BY SMT, <1>1, <1>g, <2>0 DEF Tokens
  <2>2. t \in Tokens /\ Len(t) = Len(all) - g /\ \A k \in 1 .. Len(all) - g : t[k] = all[g + k]
    BY SMT, <1>1, <1>g, <2>0 DEF Tokens
  <2> HIDE DEF s, t
  <2>3. s \o t \in Tokens /\ Len(s \o t) = Len(all)
    BY SMT, <1>g, <2>0, <2>1, <2>2 DEF Tokens
  <2>4. ASSUME NEW k \in 1 .. Len(all) PROVE (s \o t)[k] = all[k]
    <3>1. CASE k <= g
      <4>1. k \in 1 .. Len(s) /\ k \in 1 .. g
        BY SMT, <2>0, <2>1, <3>1
      <4> QED BY Zenon, <2>1, <2>2, <4>1, Prefix
    <3>2. CASE k > g
      <4>1. k - g \in 1 .. Len(t) /\ g + (k - g) = k /\ k - g \in 1 .. Len(all) - g
        BY SMT, <2>0, <2>2, <3>2
      <4>2. (s \o t)[Len(s) + (k - g)] = t[k - g]
        BY Zenon, <2>1, <2>2, <4>1, Prefix
      <4> QED BY Zenon, <2>1, <2>2, <4>1, <4>2
    <3>3. k <= g \/ k > g
      BY SMT, <2>0
    <3> QED BY <3>1, <3>2, <3>3
  <2>5. all = s \o t
    <3> DEFINE w == s \o t
    <3> HIDE DEF w
    <3>1. w \in Tokens /\ Len(w) = Len(all) /\ \A k \in 1 .. Len(all) : w[k] = all[k]
      BY Zenon, <2>3, <2>4 DEF w
    <3>2. w = all
      BY SMT, <1>1, <3>1 DEF Tokens
    <3> QED BY <3>2 DEF w
  <2>6. g = Len(all) => s = all
    BY SMT, <1>1, <2>1 DEF Tokens
  <2> QED BY Zenon, <2>1, <2>2, <2>5, <2>6
<1> HIDE DEF s, t
<1>4. Firm(r, q, Len(s))
  <2>1. n \in Nat
    BY SMT, <1>1
  <2>2. Firm(readReplies(s, n), readReplies(s \o t, n), Len(s))
    BY <1>3, <2>1, readRepliesStays
  <2> QED BY Zenon, <1>3, <2>2
<1> HIDE DEF r, q
<1>5. CASE r.st = "more" /\ g = Len(all)
  <2>1. r = q
    BY Zenon, <1>3, <1>5 DEF r, q
  <2>2. n > Len(R)
    BY <1>2, <1>5, <2>1 DEF Ok
  <2> QED BY Zenon, <1>5, <2>2 DEF Delivered, r, s, all
<1>6. CASE r.st = "more" /\ g # Len(all)
  <2>1. g < Len(all)
    BY SMT, <1>1, <1>6, <1>g DEF Tokens
  <2> QED BY Zenon, <1>6, <2>1 DEF Delivered, r, s, all
<1>7. CASE r.st # "more"
  <2>1. q = r
    BY Zenon, <1>4, <1>7 DEF Firm
  <2>2. n <= Len(R) /\ r = Ok(1 + Len(ConcatTo(Wrote(R), n)), SubSeq(Seen(R), 1, n))
    BY Zenon, <1>2, <1>7, <2>1
  <2>3. r.st = "ok" /\ r.val = SubSeq(Seen(R), 1, n)
    BY Zenon, <2>2 DEF Ok
  <2> QED BY Zenon, <2>2, <2>3 DEF Delivered, r, s, all
<1> QED BY <1>5, <1>6, <1>7
=============================================================================
