----------------------------- MODULE ScoredSet -----------------------------
(***************************************************************************)
(* What a sorted set promises: a map from members to scores whose entries  *)
(* are listed by score, and by member among equal scores.  Module ZSet     *)
(* implements it.                                                          *)
(***************************************************************************)
EXTENDS Integers, FiniteSets, Sequences

CONSTANTS Members, Scores

VARIABLES z,       \* the map
          isNew,   \* the answer of the last Add
          listing, \* its entries <<member, score>>, in order
          call     \* the arguments of the last Add

\* The one listing of a map: every entry once, and none out of order.
Listing(map) ==
  CHOOSE q \in [1 .. Cardinality(DOMAIN map) -> {<<m, map[m]>> : m \in DOMAIN map}] :
    \A i, j \in DOMAIN q :
      i < j => \/ q[i][2] < q[j][2]
               \/ q[i][2] = q[j][2] /\ q[i][1] < q[j][1]

Init == z = <<>> /\ isNew = FALSE /\ listing = <<>> /\ call = <<>>

Add(m, s) ==
  /\ z' = [x \in DOMAIN z \cup {m} |-> IF x = m THEN s ELSE z[x]]
  /\ isNew' = (m \notin DOMAIN z)
  /\ listing' = Listing(z')
  /\ call' = <<m, s>>

Next == \E m \in Members, s \in Scores : Add(m, s)

Spec == Init /\ [][Next]_<<z, isNew, listing, call>>
=============================================================================
