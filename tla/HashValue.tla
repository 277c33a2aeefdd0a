----------------------------- MODULE HashValue -----------------------------
(***************************************************************************)
(* value.Hash: a pack of alternating fields and values, and after          *)
(* promotion a map.                                                        *)
(***************************************************************************)
EXTENDS Pack, SequencesExt, FiniteSets

CONSTANTS Fields, Vals,
          MaxEntries,  \* Thresholds.MaxEntries
          MaxBytes     \* Thresholds.MaxBytes

VARIABLES pack,    \* the packed pairs, while compact
          count,   \* their number
          promoted,
          fields,  \* fullHash.fields
          answer,  \* what the last operation reported
          call     \* the last operation called

vars == <<pack, count, promoted, fields, answer, call>>

\* scanPairs: the pairs of a pack, in order.
scanPairs(buf) ==
  LET from[off \in 0 .. Len(buf)] ==
        IF off = Len(buf) THEN <<>>
        ELSE LET mid == After(buf, off)
             IN  <<<<ElementAt(buf, off), ElementAt(buf, mid)>>>> \o from[After(buf, mid)]
  IN  from[0]

packPairs(pairs) == packAll(FlattenSeq(pairs))

\* The map that pairs give when stored one after the other.
Stored(pairs) == FoldLeft(LAMBDA m, p : (p[1] :> p[2]) @@ m, <<>>, pairs)

exceeded(n, size) == n > MaxEntries \/ size > MaxBytes

-----------------------------------------------------------------------------
\* What Get finds: the first packed pair of a field, or its entry in the map.
Get == IF promoted THEN fields ELSE Stored(Reverse(scanPairs(pack)))

\* Mutant: the pair is appended even if the field is there.
RebuiltTwice(f, v) ==
  LET pairs == scanPairs(pack) IN
  Append(pairs, <<f, v>>)

\* The pairs with f stored: in place, or at the end.
Rebuilt(f, v) ==
  LET pairs == scanPairs(pack) IN
  IF \E i \in DOMAIN pairs : pairs[i][1] = f
    THEN [i \in DOMAIN pairs |-> IF pairs[i][1] = f THEN <<f, v>> ELSE pairs[i]]
    ELSE Append(pairs, <<f, v>>)

Set(f, v) ==
  /\ call' = <<"put", f, v>>
  /\ IF promoted
       THEN /\ answer' = (f \notin DOMAIN fields)
            /\ fields' = (f :> v) @@ fields
            /\ UNCHANGED <<pack, count, promoted>>
       ELSE LET existed == f \in DOMAIN Get
                n       == IF existed THEN count ELSE count + 1
            IN  /\ answer' = ~existed
                /\ IF exceeded(n, IF Len(v) > Len(f) THEN Len(v) ELSE Len(f))
                     THEN /\ fields' = Stored(Rebuilt(f, v))
                          /\ promoted' = TRUE /\ pack' = <<>> /\ count' = 0
                     ELSE /\ pack' = packPairs(Rebuilt(f, v))
                          /\ count' = n /\ UNCHANGED <<promoted, fields>>

Delete(f) ==
  /\ call' = <<"drop", f>>
  /\ answer' = (f \in DOMAIN Get) /\ UNCHANGED promoted
  /\ IF promoted
       THEN fields' = [g \in DOMAIN fields \ {f} |-> fields[g]] /\ UNCHANGED <<pack, count>>
       ELSE /\ pack' = packPairs(SelectSeq(scanPairs(pack), LAMBDA p : p[1] # f))
            /\ count' = IF f \in DOMAIN Get THEN count - 1 ELSE count
            /\ UNCHANGED fields

Length == IF promoted THEN Cardinality(DOMAIN fields) ELSE count

\* Pairs: a map is listed in any order.
Listings ==
  IF promoted THEN SetToSeqs({<<f, fields[f]>> : f \in DOMAIN fields}) ELSE {scanPairs(pack)}

-----------------------------------------------------------------------------
Init ==
  /\ pack = <<>> /\ count = 0 /\ promoted = FALSE /\ fields = <<>>
  /\ answer = FALSE /\ call = <<>>

Next == \E f \in Fields : (\E v \in Vals : Set(f, v)) \/ Delete(f)

Spec == Init /\ [][Next]_vars

\* Either encoding, and promotion from one to the other, implements a map: a
\* field is stored once, and HSET, HDEL and HLEN answer right.
Abstract == INSTANCE Table WITH t <- Get, size <- Length, Keys <- Fields, Values <- Vals
ImplementsTable == Abstract!Spec
=============================================================================
