------------------------------- MODULE Ranges -------------------------------
(***************************************************************************)
(* The index arithmetic of LRANGE and ZRANGE: normalizeRange, and what it  *)
(* is meant to select.                                                     *)
(***************************************************************************)
EXTENDS Integers, Sequences

\* The first and the last selected rank, counted from 0, or nothing.
normalizeRange(start, stop, length) ==
  LET a  == IF start < 0 THEN length + start ELSE start
      b  == IF stop < 0 THEN length + stop ELSE stop
      lo == IF a < 0 THEN 0 ELSE a
      hi == IF b >= length THEN length - 1 ELSE b
  IN  IF length = 0 \/ lo > hi \/ lo >= length THEN <<>> ELSE <<lo, hi>>

-----------------------------------------------------------------------------
\* Rank r of a sequence of n elements is also known as r - n.
Names(r, n) == {r, r - n}

\* Does the index i stand at or before rank r?
AtOrBefore(i, r, n) == \E j \in Names(r, n) : i <= j /\ (i < 0 <=> j < 0)
AtOrAfter(i, r, n)  == \E j \in Names(r, n) : i >= j /\ (i < 0 <=> j < 0)

\* The ranks that lie between the indices start and stop, both included.
SelectedRanks(start, stop, n) ==
  {r \in 0 .. n - 1 : AtOrBefore(start, r, n) /\ AtOrAfter(stop, r, n)}

\* The elements of q at those ranks.
Selected(q, start, stop) ==
  LET ranks == SelectedRanks(start, stop, Len(q))
      first == CHOOSE r \in ranks : \A s \in ranks : r <= s
      last  == CHOOSE r \in ranks : \A s \in ranks : r >= s
  IN  IF ranks = {} THEN <<>> ELSE SubSeq(q, first + 1, last + 1)
=============================================================================
