------------------------------- MODULE Table -------------------------------
(***************************************************************************)
(* What a hash promises: a map.  A set promises the same of a map to one   *)
(* value.  Modules HashValue and SetValue implement it.                    *)
(***************************************************************************)
EXTENDS Integers, FiniteSets

CONSTANTS Keys, Values

VARIABLES t,       \* the map
          size,    \* the length reported
          answer,  \* what the last operation reported
          call     \* the last operation called

Init == t = <<>> /\ size = 0 /\ answer = FALSE /\ call = <<>>

\* Reports whether k is new.
Put(k, v) ==
  /\ call' = <<"put", k, v>>
  /\ t' = [x \in DOMAIN t \cup {k} |-> IF x = k THEN v ELSE t[x]]
  /\ answer' = (k \notin DOMAIN t)
  /\ size' = Cardinality(DOMAIN t')

\* Reports whether k was there.
Drop(k) ==
  /\ call' = <<"drop", k>>
  /\ t' = [x \in DOMAIN t \ {k} |-> t[x]]
  /\ answer' = (k \in DOMAIN t)
  /\ size' = Cardinality(DOMAIN t')

Next == \E k \in Keys : (\E v \in Values : Put(k, v)) \/ Drop(k)

Spec == Init /\ [][Next]_<<t, size, answer, call>>
=============================================================================
