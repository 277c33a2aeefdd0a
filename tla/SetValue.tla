------------------------------ MODULE SetValue ------------------------------
(***************************************************************************)
(* value.Set: a pack of members, and after promotion a hash set.           *)
(***************************************************************************)
EXTENDS Pack, FiniteSets

Seqs == INSTANCE SequencesExt

CONSTANTS Elems,
          MaxEntries,  \* Thresholds.MaxEntries
          MaxBytes     \* Thresholds.MaxBytes

VARIABLES pack,    \* the packed members, while compact
          count,   \* their number
          promoted,
          members, \* fullSet.members
          answer,  \* what the last operation reported
          call     \* the last operation called

vars == <<pack, count, promoted, members, answer, call>>

exceeded(n, e) == n > MaxEntries \/ Len(e) > MaxBytes

promote(buf) == Seqs!ToSet(packEach(buf))

scanContains(e) == \E i \in DOMAIN packEach(pack) : packEach(pack)[i] = e

Contains(e) == IF promoted THEN e \in members ELSE scanContains(e)

Add(e) ==
  /\ call' = <<"put", e, TRUE>>
  /\ answer' = ~Contains(e)
  /\ IF promoted
       THEN members' = members \cup {e} /\ UNCHANGED <<pack, count, promoted>>
     ELSE IF scanContains(e) THEN UNCHANGED <<pack, count, promoted, members>>
     ELSE IF exceeded(count + 1, e)
       THEN /\ members' = promote(packAppend(pack, e))
            /\ promoted' = TRUE /\ pack' = <<>> /\ count' = 0
       ELSE /\ pack' = packAppend(pack, e)
            /\ count' = count + 1 /\ UNCHANGED <<promoted, members>>

Remove(e) ==
  /\ call' = <<"drop", e>>
  /\ answer' = Contains(e) /\ UNCHANGED promoted
  /\ IF promoted
       THEN members' = members \ {e} /\ UNCHANGED <<pack, count>>
       ELSE /\ pack' = packAll(SelectSeq(packEach(pack), LAMBDA x : x # e))
            /\ count' = IF scanContains(e) THEN count - 1 ELSE count
            /\ UNCHANGED members

Length == IF promoted THEN Cardinality(members) ELSE count

\* Members: a hash set is listed in any order.
Listings == IF promoted THEN Seqs!SetToSeqs(members) ELSE {packEach(pack)}

-----------------------------------------------------------------------------
Init ==
  /\ pack = <<>> /\ count = 0 /\ promoted = FALSE /\ members = {}
  /\ answer = FALSE /\ call = <<>>

Next == \E e \in Elems : Add(e) \/ Remove(e)

Spec == Init /\ [][Next]_vars

\* Whatever the encoding, what Contains finds.
Contents == [e \in {x \in Elems : Contains(x)} |-> TRUE]

\* Either encoding, and promotion from one to the other, implements a set.
Abstract == INSTANCE Table WITH t <- Contents, size <- Length, Keys <- Elems, Values <- {TRUE}
ImplementsTable == Abstract!Spec
=============================================================================
