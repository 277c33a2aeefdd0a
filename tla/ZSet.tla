-------------------------------- MODULE ZSet --------------------------------
(***************************************************************************)
(* value.ZSet: a sorted set in its packed encoding, and after promotion a  *)
(* map of scores beside a skip list.  An entry is a pair <<member, score>>;*)
(* members and scores are integers, for the order is all that matters.     *)
(*                                                                         *)
(* A skip list is a record: level, length, and next, which gives the       *)
(* forward pointers of the head and of each node, one for each level the   *)
(* node is in.  A node is named by its entry.                              *)
(***************************************************************************)
EXTENDS Ranges, SequencesExt, FiniteSets

CONSTANTS Members, Scores,
          MaxEntries,  \* Thresholds.MaxEntries
          Big,         \* the members longer than Thresholds.MaxBytes
          MaxLevel     \* zskipMaxLevel, scaled down

VARIABLES pack,    \* the packed entries, while compact
          count,   \* their number
          full,    \* has the set been promoted?
          scores,  \* fullZSet.scores
          order,   \* fullZSet.order, the skip list
          added,   \* what the last Add reported
          call     \* its arguments

vars == <<pack, count, full, scores, order, added, call>>

-----------------------------------------------------------------------------
(* The skip list. *)

\* The name of the head and the nil pointer, apart from every entry.
First == <<>>
Nil   == <<0>>

zskipLess(e, f) == IF e[2] # f[2] THEN e[2] < f[2] ELSE e[1] < f[1]

newZskiplist ==
  [level |-> 1, length |-> 0, next |-> [n \in {First} |-> [i \in 1 .. MaxLevel |-> Nil]]]

\* The node before e on each level in use: from the head down, each level is
\* walked from where the one above it was left.
Update(sl, e) ==
  LET walk[i \in 1 .. sl.level, x \in DOMAIN sl.next] ==
        LET y == sl.next[x][i]
        IN  IF y # Nil /\ zskipLess(y, e) THEN walk[i, y] ELSE x
      update[i \in 1 .. sl.level] ==
        walk[i, IF i = sl.level THEN First ELSE update[i + 1]]
  IN  update

\* insert, of a node with the given (random) level.
insert(sl, e, level) ==
  LET update == Update(sl, e)
      prev(i) == IF i <= sl.level THEN update[i] ELSE First
      linked == [n \in DOMAIN sl.next |->
                   [i \in DOMAIN sl.next[n] |->
                      IF i <= level /\ n = prev(i) THEN e ELSE sl.next[n][i]]]
      node == [i \in 1 .. level |-> sl.next[prev(i)][i]]
  IN  [level  |-> IF level > sl.level THEN level ELSE sl.level,
       length |-> sl.length + 1,
       next   |-> [n \in DOMAIN sl.next \cup {e} |-> IF n = e THEN node ELSE linked[n]]]

\* Mutant: the level is not lowered.
deleteKeepsLevel(sl, e) ==
  LET update == Update(sl, e)
      unlinked == [n \in DOMAIN sl.next \ {e} |->
                     [i \in DOMAIN sl.next[n] |->
                        IF i <= sl.level /\ n = update[i] /\ sl.next[n][i] = e
                          THEN sl.next[e][i] ELSE sl.next[n][i]]]
  IN  IF sl.next[update[1]][1] # e THEN sl
      ELSE [level |-> sl.level, length |-> sl.length - 1, next |-> unlinked]

\* delete: nothing happens when e is not found.
delete(sl, e) ==
  LET update == Update(sl, e)
      unlinked == [n \in DOMAIN sl.next \ {e} |->
                     [i \in DOMAIN sl.next[n] |->
                        IF i <= sl.level /\ n = update[i] /\ sl.next[n][i] = e
                          THEN sl.next[e][i] ELSE sl.next[n][i]]]
      used == {i \in 2 .. sl.level : unlinked[First][i] # Nil}
  IN  IF sl.next[update[1]][1] # e THEN sl
      ELSE [level  |-> CHOOSE i \in {1} \cup used : \A j \in used : j <= i,
            length |-> sl.length - 1,
            next   |-> unlinked]

\* The nodes of a level, in the order of its pointers.
Chain(sl, i) ==
  LET from[n \in DOMAIN sl.next] ==
        IF sl.next[n][i] = Nil THEN <<>> ELSE <<sl.next[n][i]>> \o from[sl.next[n][i]]
  IN  from[First]

\* eachInRank walks the lowest level; it stops at its end.
eachInRank(sl, lo, hi) ==
  LET all == Chain(sl, 1)
  IN  SubSeq(all, lo + 1, IF hi < Len(all) THEN hi + 1 ELSE Len(all))

-----------------------------------------------------------------------------
(* The promoted set: fullZSet.add on the pair of map and skip list. *)

\* Mutant: a new score goes to the map only.
addFullMapOnly(zs, e, level) ==
  LET m == e[1]
      known == m \in DOMAIN zs.scores
      stored == [x \in DOMAIN zs.scores \cup {m} |-> IF x = m THEN e[2] ELSE zs.scores[x]]
  IN  [scores |-> stored,
       order  |-> IF known THEN zs.order ELSE insert(zs.order, e, level)]

addFull(zs, e, level) ==
  LET m == e[1]
      known == m \in DOMAIN zs.scores
      stored == [x \in DOMAIN zs.scores \cup {m} |-> IF x = m THEN e[2] ELSE zs.scores[x]]
  IN  IF known /\ zs.scores[m] = e[2] THEN zs
      ELSE [scores |-> stored,
            order  |-> insert(IF known THEN delete(zs.order, <<m, zs.scores[m]>>)
                              ELSE zs.order, e, level)]

\* promote: the packed entries are added one by one.
Promoted(entries, levels) ==
  FoldLeft(LAMBDA zs, e : addFull(zs, e, levels[e[1]]),
           [scores |-> <<>>, order |-> newZskiplist], entries)

-----------------------------------------------------------------------------
(* Add. *)

\* compactAdd: the entries are rebuilt and sorted.
Rebuilt(m, s) ==
  SetToSortSeq({pack[i] : i \in {j \in 1 .. Len(pack) : pack[j][1] # m}} \cup {<<m, s>>}, zskipLess)

exceeded(n, m) == n > MaxEntries \/ m \in Big

AddCompact(m, s) ==
  LET found == \E i \in 1 .. Len(pack) : pack[i][1] = m
      n == IF found THEN count ELSE count + 1
  IN  /\ ~full
      /\ call' = <<m, s>> /\ added' = ~found
      /\ IF exceeded(n, m)
           THEN \E levels \in [Members -> 1 .. MaxLevel] :
                  LET zs == Promoted(Rebuilt(m, s), levels)
                  IN  /\ scores' = zs.scores /\ order' = zs.order
                      /\ full' = TRUE /\ pack' = <<>> /\ count' = 0
           ELSE /\ pack' = Rebuilt(m, s) /\ count' = n
                /\ UNCHANGED <<full, scores, order>>

AddFull(m, s, level) ==
  LET zs == addFull([scores |-> scores, order |-> order], <<m, s>>, level)
  IN  /\ full
      /\ call' = <<m, s>> /\ added' = (m \notin DOMAIN scores)
      /\ scores' = zs.scores /\ order' = zs.order
      /\ UNCHANGED <<pack, count, full>>

-----------------------------------------------------------------------------
(* Reading. *)

Length == IF full THEN Cardinality(DOMAIN scores) ELSE count

ZRange(start, stop) ==
  LET r == normalizeRange(start, stop, Length)
  IN  IF r = <<>> THEN <<>>
      ELSE IF full THEN eachInRank(order, r[1], r[2])
      ELSE SubSeq(pack, r[1] + 1, r[2] + 1)

\* The map that Score consults: the first packed pair of a member, or the map.
Contents ==
  IF full THEN scores
  ELSE [m \in {pack[i][1] : i \in 1 .. Len(pack)} |->
          pack[CHOOSE i \in 1 .. Len(pack) :
                 pack[i][1] = m /\ \A j \in 1 .. i - 1 : pack[j][1] # m][2]]

-----------------------------------------------------------------------------
Init ==
  /\ pack = <<>> /\ count = 0 /\ full = FALSE
  /\ scores = <<>> /\ order = newZskiplist /\ added = FALSE /\ call = <<>>

Next ==
  \E m \in Members, s \in Scores :
    AddCompact(m, s) \/ \E level \in 1 .. MaxLevel : AddFull(m, s, level)

Spec == Init /\ [][Next]_vars
-----------------------------------------------------------------------------
Listed == IF full THEN Chain(order, 1) ELSE pack

\* Type correctness: the skip list's levels and pointers stay in their bounds, and
\* a promoted set leaves no pack behind.
TypeOK ==
  /\ pack \in Seq(Members \X Scores) /\ count \in 0 .. MaxEntries
  /\ full \in BOOLEAN /\ added \in BOOLEAN
  /\ full => pack = <<>> /\ count = 0
  /\ DOMAIN scores \subseteq Members /\ \A m \in DOMAIN scores : scores[m] \in Scores
  /\ order.level \in 1 .. MaxLevel /\ order.length \in Nat
  /\ \A n \in DOMAIN order.next :
       /\ n \in {First} \cup (Members \X Scores)
       /\ \A i \in DOMAIN order.next[n] : order.next[n][i] \in DOMAIN order.next \cup {Nil}

\* The skip list is one: level i links exactly the nodes that reach level i, in the
\* order of level 1; no level above sl.level is in use, none below is empty, and
\* length counts the nodes.  insert and delete relink each level by hand, from an
\* update path that an earlier insert or delete must have left usable.
LevelsNest ==
  /\ \A i \in 1 .. MaxLevel :
       Chain(order, i) = SelectSeq(Chain(order, 1), LAMBDA n : i \in DOMAIN order.next[n])
  /\ \A i \in 2 .. MaxLevel : Chain(order, i) # <<>> => i <= order.level
  /\ order.level > 1 => Chain(order, order.level) # <<>>
  /\ order.length = Len(Chain(order, 1))
  /\ order.length = Cardinality(DOMAIN order.next) - 1

\* ZRANGE selects what it should for every pair of indices around the bounds, in
\* either encoding: normalizeRange against the length of the map, and the walk
\* along the skip list that a list shorter than the map would cut short.
RangeSelects ==
  \A start, stop \in -(Length + 2) .. Length + 2 :
    ZRange(start, stop) = Selected(Listed, start, stop)

\* Either encoding, and promotion from one to the other, implements a sorted set:
\* the pack or the score map is the map of an Add, and the pack or the skip list
\* lists the same entries in the order of (score, member).
Abstract == INSTANCE ScoredSet WITH z <- Contents, isNew <- added, listing <- Listed
ImplementsScoredSet == Abstract!Spec
=============================================================================
