------------------------------ MODULE MCValues ------------------------------
(* The collections of package value, one at a time, and the files that they  *)
(* are written to.                                                           *)
EXTENDS Records, ListValue, FiniteSets

CONSTANT MaxLevel

\* Elements whose bytes look like lengths, an empty one, and one too long for
\* the pack.
MCElements == {<<>>, <<2, 1>>, <<1, 0, 1>>}
Fields     == Elements \cup {<<0>>}
Vals       == {<<>>, <<3, 0>>}
Members    == 1 .. 3
Scores     == 1 .. 2
Big        == {3}

\* The list is module ListValue, with its own variables.
VARIABLES kind,  \* which collection it is about
          hpack, hcount, hpromoted, fields, hanswer, hcall,
          ppack, pcount, ppromoted, members, panswer, pcall,
          zpack, zcount, zfull, scores, order, added, zcall

hvars == <<hpack, hcount, hpromoted, fields, hanswer, hcall>>
pvars == <<ppack, pcount, ppromoted, members, panswer, pcall>>
zvars == <<zpack, zcount, zfull, scores, order, added, zcall>>

H == INSTANCE HashValue WITH pack <- hpack, count <- hcount,
                             promoted <- hpromoted, answer <- hanswer, call <- hcall
P == INSTANCE SetValue WITH Elems <- Fields, pack <- ppack, count <- pcount,
                            promoted <- ppromoted, answer <- panswer, call <- pcall
Z == INSTANCE ZSet WITH pack <- zpack, count <- zcount, full <- zfull, call <- zcall

ValuesInit == kind \in {"l", "h", "p", "z"} /\ Init /\ H!Init /\ P!Init /\ Z!Init

ValuesNext ==
  /\ UNCHANGED kind
  /\ \/ kind = "l" /\ Next /\ UNCHANGED <<hvars, pvars, zvars>>
     \/ kind = "h" /\ H!Next /\ UNCHANGED <<vars, pvars, zvars>>
     \/ kind = "p" /\ P!Next /\ UNCHANGED <<vars, hvars, zvars>>
     \/ kind = "z" /\ Z!Next /\ UNCHANGED <<vars, hvars, pvars>>

\* What happens to one collection is a behaviour of its module: of the list,
\* ListValue!Spec.
ValuesSpec == ValuesInit /\ [][ValuesNext]_<<kind, vars, hvars, pvars, zvars>>

-----------------------------------------------------------------------------
(* The files that hold the collection, as a snapshot record among others and *)
(* as the arguments of a logged command.                                     *)

\* The collection as writeValue may list it, and what is in it.  The file of a
\* list depends on its elements only, and they are all met before the first pop.
Written ==
  {[kind |-> kind, list |-> l] : l \in
     CASE kind = "l" -> IF pushes = Length THEN {Contents} ELSE {}
       [] kind = "h" -> H!Listings
       [] kind = "p" -> P!Listings
       [] kind = "z" -> {[i \in DOMAIN Z!Listed |-> <<<<Z!Listed[i][1]>>, Z!Listed[i][2]>>]}}

Meaning ==
  Value(kind, CASE kind = "l" -> Contents
                [] kind = "h" -> H!Get
                [] kind = "p" -> {x \in Fields : P!Contains(x)}
                [] kind = "z" -> [m \in {<<x>> : x \in DOMAIN Z!Contents} |-> Z!Contents[m[1]]])

Record(key, v) == [db |-> 2, key |-> key, expireAt |-> 0, value |-> v]

Records2(v) == <<Record(<<>>, v), Record(<<1>>, v)>>
Snapshot(v) == WriteSnapshot(3, Records2(v))

\* Where its header and its records end.
Ends(v) ==
  LET header == Len(WriteSnapshot(3, <<>>))
      records == Records2(v)
  IN  <<header, header + Len(writeRecord(records[1])), Len(Snapshot(v))>>

\* A segment: the members of the set as the arguments of two commands.
Appended(v) == <<[db |-> 2, args |-> v.list], [db |-> 3, args |-> v.list]>>
Segment(v)  == writeCommand(Appended(v)[1]) \o writeCommand(Appended(v)[2])

-----------------------------------------------------------------------------
\* A sorted set in either encoding is in order: its levels, pointers and counters
\* keep their bounds; each level of the skip list is a part of the level below, in
\* its order, and length counts the nodes (skiplist.go insert and delete); ZRANGE
\* selects the entries that normalizeRange means (eachInRank).
SortedSetSound == Z!TypeOK /\ Z!LevelsNest /\ Z!RangeSelects

\* A sorted set (zset.go, skiplist.go) does what a map from members to scores
\* does, and its promotion to the skip list is not seen.
ImplementsScoredSet == Z!ImplementsScoredSet

\* A hash and a set (hash.go, set.go) do what a map does, and their promotion from
\* the pack to a Go map is not seen.
ImplementTables == H!ImplementsTable /\ P!ImplementsTable

\* A snapshot gives back what was in the collection, whichever encoding it had
\* and however a map was listed (readValue inverts writeValue); and a segment
\* the commands that were appended.
RoundTrips ==
  \A v \in Written :
    /\ ReadSnapshot(Snapshot(v)) = [st |-> "eof", items |-> Records2(Meaning)]
    /\ kind = "p" => replaySegment(Segment(v)).items = Appended(v)

\* A file cut anywhere gives the whole records before the cut and no other: no
\* value is read as a shorter one.  A snapshot ends cleanly only where a record
\* does; in a segment the cut is forgiven.
CutsDetected ==
  \A v \in Written :
    /\ \A file \in {Snapshot(v)}, ends \in {Ends(v)}, all \in {Records2(Meaning)} :
         \A n \in 0 .. Len(file) : \A cut \in {SubSeq(file, 1, n)} : \A r \in {ReadSnapshot(cut)} :
           /\ r.items = SubSeq(all, 1, Cardinality({i \in {2, 3} : ends[i] <= n}))
           /\ r.st = IF n = 0 \/ n \in ToSet(ends) THEN "eof" ELSE "unexpected"
    /\ kind = "p" =>
         \A file \in {Segment(v)} : \A n \in 0 .. Len(file) - 1 :
           \A r \in {replaySegment(SubSeq(file, 1, n))} :
             /\ r.st = "eof"
             /\ r.items = SubSeq(Appended(v), 1, IF n < Len(file) \div 2 THEN 0 ELSE 1)
=============================================================================
