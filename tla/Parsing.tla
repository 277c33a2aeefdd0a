------------------------------ MODULE Parsing ------------------------------
(***************************************************************************)
(* Reading from a stream.  A reader applied to a sequence of tokens, or of *)
(* bytes, and the position where it starts returns                         *)
(*   st   "ok", or why it stopped                                          *)
(*   at   the position after what it has consumed                          *)
(*   val  what it has read.                                                *)
(***************************************************************************)
EXTENDS Integers, Sequences

Ok(at, val)  == [st |-> "ok", at |-> at, val |-> val]
Stopped(why) == [st |-> why, at |-> 0, val |-> <<>>]

\* Go on from what has been read.  (The CHOOSE makes TLC evaluate r once.)
Then(r, Next(_, _)) ==
  CHOOSE x \in {IF q.st = "ok" THEN Next(q.at, q.val) ELSE q : q \in {r}} : TRUE

\* n items one after the other, item[at] being the one that starts at position at.
Repeat(item, i, n) ==
  LET read[k \in 0 .. n] ==
        IF k = 0 THEN Ok(i, <<>>)
        ELSE Then(read[k - 1],
                  LAMBDA at, items : Then(item[at], LAMBDA end, x : Ok(end, Append(items, x))))
  IN  read[n]

\* What is written piece by piece: the first n of the pieces, and all of them.
ConcatTo(pieces, n) ==
  LET to[k \in 0 .. n] == IF k = 0 THEN <<>> ELSE to[k - 1] \o pieces[k] IN to[n]

Concat(pieces) == ConcatTo(pieces, Len(pieces))
=============================================================================
