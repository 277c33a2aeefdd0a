----------------------------- MODULE ListValue -----------------------------
(***************************************************************************)
(* value.List: a list in its packed encoding, and after promotion a doubly *)
(* linked list.                                                            *)
(*                                                                         *)
(* An element is a sequence of bytes.  A linked node is named by the       *)
(* number of its allocation, 0 is nil, and a popped node keeps what it     *)
(* held.                                                                   *)
(***************************************************************************)
EXTENDS Ranges, Pack

CONSTANTS Elements,    \* the byte sequences that are pushed
          MaxEntries,  \* Thresholds.MaxEntries
          MaxBytes,    \* Thresholds.MaxBytes
          MaxPushes,   \* bound on the pushes of a behaviour
          None         \* the answer of a pop that finds nothing

VARIABLES pack,    \* the packed elements, while compact
          count,   \* their number
          full,    \* the linked list, or Null
          out,     \* the answer of the last pop
          pushes,  \* how many elements have been pushed
          call     \* the last operation called

\* What the limits and the elements may be.
ASSUME ListAssumption ==
  Elements \subseteq Seq(Byte) /\ MaxEntries \in Nat /\ MaxBytes \in Nat /\ MaxPushes \in Nat

vars == <<pack, count, full, out, pushes, call>>

-----------------------------------------------------------------------------
\* The offset of the last element, found by PopBack's scan.
LastOffset(buf) == Offsets(buf)[Rounds(buf) - 1]

-----------------------------------------------------------------------------
(* The linked list: its ends, its length, and every node ever allocated. *)

Null == <<>>
Compact == full = Null

newFullList == [head |-> 0, tail |-> 0, length |-> 0, nodes |-> <<>>]

pushFront(l, e) ==
  LET n == Len(l.nodes) + 1
      node == [value |-> e, prev |-> 0, next |-> l.head]
  IN  [head   |-> n,
       tail   |-> IF l.head = 0 THEN n ELSE l.tail,
       length |-> l.length + 1,
       nodes  |-> Append(IF l.head = 0 THEN l.nodes ELSE [l.nodes EXCEPT ![l.head].prev = n], node)]

pushBack(l, e) ==
  LET n == Len(l.nodes) + 1
      node == [value |-> e, prev |-> l.tail, next |-> 0]
  IN  [head   |-> IF l.tail = 0 THEN n ELSE l.head,
       tail   |-> n,
       length |-> l.length + 1,
       nodes  |-> Append(IF l.tail = 0 THEN l.nodes ELSE [l.nodes EXCEPT ![l.tail].next = n], node)]

\* popFront and popBack, on a list that is not empty.
popFront(l) ==
  LET h == l.nodes[l.head].next
  IN  [head   |-> h,
       tail   |-> IF h = 0 THEN 0 ELSE l.tail,
       length |-> l.length - 1,
       nodes  |-> IF h = 0 THEN l.nodes ELSE [l.nodes EXCEPT ![h].prev = 0]]

\* Mutant: the head stays when the last node is popped.
popBackKeepsHead(l) ==
  LET t == l.nodes[l.tail].prev
  IN  [head   |-> l.head,
       tail   |-> t,
       length |-> l.length - 1,
       nodes  |-> IF t = 0 THEN l.nodes ELSE [l.nodes EXCEPT ![t].next = 0]]

popBack(l) ==
  LET t == l.nodes[l.tail].prev
  IN  [head   |-> IF t = 0 THEN 0 ELSE l.head,
       tail   |-> t,
       length |-> l.length - 1,
       nodes  |-> IF t = 0 THEN l.nodes ELSE [l.nodes EXCEPT ![t].next = 0]]

\* The values met from node n on, at most k of them.
Walk(l, n, k) ==
  LET from[i \in 0 .. k] ==
        LET rest == from[i - 1]
        IN  [m \in 0 .. Len(l.nodes) |->
               IF i = 0 \/ m = 0 THEN <<>> ELSE <<l.nodes[m].value>> \o rest[l.nodes[m].next]]
  IN  from[k][n]

-----------------------------------------------------------------------------
(* The operations of List. *)

exceeded(n, e) == n > MaxEntries \/ Len(e) > MaxBytes

\* promote: the linked list of some elements.
promote(elems) ==
  LET linked[n \in 0 .. Len(elems)] ==
        IF n = 0 THEN newFullList ELSE pushBack(linked[n - 1], elems[n])
  IN  linked[Len(elems)]

\* Mutant: promotion leaves the pack behind.
SettleKeepsPack(packed, e) ==
  IF exceeded(count + 1, e)
    THEN /\ full' = promote(packEach(packed))
         /\ pack' = packed /\ count' = 0
    ELSE pack' = packed /\ count' = count + 1 /\ UNCHANGED full

\* promoteIfNeeded, after e has been packed.
Settle(packed, e) ==
  IF exceeded(count + 1, e)
    THEN /\ full' = promote(packEach(packed))
         /\ pack' = <<>> /\ count' = 0
    ELSE pack' = packed /\ count' = count + 1 /\ UNCHANGED full

Pushed(packed, linked, e) ==
  /\ pushes < MaxPushes /\ pushes' = pushes + 1 /\ UNCHANGED out
  /\ IF Compact THEN Settle(packed, e) ELSE full' = linked /\ UNCHANGED <<pack, count>>

\* Mutant: a packed element goes to the wrong end.
PushFrontAppends(e) ==
  call' = <<"PushFront", e>> /\ Pushed(packAppend(pack, e), pushFront(full, e), e)

PushFront(e) ==
  call' = <<"PushFront", e>> /\ Pushed(packAppend(<<>>, e) \o pack, pushFront(full, e), e)

PushBack(e) ==
  call' = <<"PushBack", e>> /\ Pushed(packAppend(pack, e), pushBack(full, e), e)

PopNothing == out' = None /\ UNCHANGED <<pack, count, full>>

PopFront ==
  /\ call' = <<"PopFront">> /\ UNCHANGED pushes
  /\ IF Compact
       THEN IF count = 0 THEN PopNothing
            ELSE /\ out' = ElementAt(pack, 0)
                 /\ pack' = SubSeq(pack, After(pack, 0) + 1, Len(pack))
                 /\ count' = count - 1 /\ UNCHANGED full
       ELSE IF full.head = 0 THEN PopNothing
            ELSE /\ out' = full.nodes[full.head].value
                 /\ full' = popFront(full) /\ UNCHANGED <<pack, count>>

PopBack ==
  /\ call' = <<"PopBack">> /\ UNCHANGED pushes
  /\ IF Compact
       THEN IF count = 0 THEN PopNothing
            ELSE /\ out' = ElementAt(pack, LastOffset(pack))
                 /\ pack' = SubSeq(pack, 1, LastOffset(pack))
                 /\ count' = count - 1 /\ UNCHANGED full
       ELSE IF full.tail = 0 THEN PopNothing
            ELSE /\ out' = full.nodes[full.tail].value
                 /\ full' = popBack(full) /\ UNCHANGED <<pack, count>>

Length == IF Compact THEN count ELSE full.length

\* Mutant: the walk along the nodes stops before the last index.
ListRangeShort(start, stop) ==
  LET r == normalizeRange(start, stop, Length)
  IN  IF r = <<>> THEN <<>>
      ELSE IF Compact THEN SubSeq(packEach(pack), r[1] + 1, r[2] + 1)
      ELSE SubSeq(Walk(full, full.head, r[2] + 1), r[1] + 1, r[2])

\* Range: by a scan of the pack, or along the nodes.
ListRange(start, stop) ==
  LET r == normalizeRange(start, stop, Length)
  IN  IF r = <<>> THEN <<>>
      ELSE IF Compact THEN SubSeq(packEach(pack), r[1] + 1, r[2] + 1)
      ELSE SubSeq(Walk(full, full.head, r[2] + 1), r[1] + 1, r[2] + 1)

-----------------------------------------------------------------------------
Init ==
  pack = <<>> /\ count = 0 /\ full = Null /\ out = None /\ pushes = 0 /\ call = <<>>

Next == (\E e \in Elements : PushFront(e) \/ PushBack(e)) \/ PopFront \/ PopBack

Spec == Init /\ [][Next]_vars

-----------------------------------------------------------------------------
\* Whatever the encoding, the elements of the list in order.
Contents == IF Compact THEN packEach(pack) ELSE Walk(full, full.head, Len(full.nodes))

\* Type correctness: an element count beside the pack, or nodes that point at
\* allocated nodes; a promoted list leaves no pack behind.
TypeOK ==
  /\ pack \in Seq(Byte) /\ count \in 0 .. MaxEntries
  /\ out \in Elements \cup {None} /\ pushes \in 0 .. MaxPushes
  /\ ~Compact =>
       /\ pack = <<>> /\ count = 0
       /\ {full.head, full.tail} \subseteq 0 .. Len(full.nodes)
       /\ \A n \in 1 .. Len(full.nodes) :
            /\ full.nodes[n].value \in Elements
            /\ {full.nodes[n].prev, full.nodes[n].next} \subseteq 0 .. Len(full.nodes)

\* The values met from node n backwards, at most k of them, the first met last.
WalkBack(l, n, k) ==
  LET from[i \in 0 .. k] ==
        LET rest == from[i - 1]
        IN  [m \in 0 .. Len(l.nodes) |->
               IF i = 0 \/ m = 0 THEN <<>> ELSE rest[l.nodes[m].prev] \o <<l.nodes[m].value>>]
  IN  from[k][n]

\* The list is the same from both ends: following prev from the tail meets the
\* nodes that following next from the head meets, in reverse, and the recorded
\* length is their number.  pushFront, pushBack, popFront and popBack each mend
\* one direction by hand and fix the other end when the list empties.
BothWays ==
  /\ Length = Len(Contents)
  /\ ~Compact => WalkBack(full, full.tail, Len(full.nodes)) = Contents

\* LRANGE selects what it should for every pair of indices around the bounds, in
\* either encoding: normalizeRange and the two loops that count to hi.
RangeSelects ==
  \A start, stop \in -(Length + 2) .. Length + 2 :
    ListRange(start, stop) = Selected(Contents, start, stop)

\* Either encoding, and promotion from one to the other, implements a deque: no
\* element is lost, duplicated, cut or moved, each push adds at the end it names,
\* and each pop answers with what it removed.
Abstract == INSTANCE Deque WITH q <- Contents, popped <- out
ImplementsDeque == Abstract!Spec
=============================================================================
