------------------------------ MODULE Records ------------------------------
(***************************************************************************)
(* The files of package persistence: codec.go, the records of a snapshot,  *)
(* and the commands of an append-log segment.                              *)
(*                                                                         *)
(* A file is a sequence of bytes.  A key, field, member or value is a      *)
(* sequence of bytes; a tag, a score, a deadline and the magic string are  *)
(* one byte each.  A reader stops with "eof" or "unexpected" (the two      *)
(* errors of package io) or "bad".  Where the code appends to a            *)
(* collection, a value that is read back is what modules Deque, Table and  *)
(* ScoredSet promise of that.                                              *)
(***************************************************************************)
EXTENDS Pack, Parsing, SequencesExt

-----------------------------------------------------------------------------
(* codec.go *)

writeBytes(b)       == PutUvarint(Len(b)) \o b
writeElements(elems) == PutUvarint(Len(elems)) \o Concat([i \in DOMAIN elems |-> writeBytes(elems[i])])

\* writeValue.  The payload is what Str, Range, Pairs or Members lists.
writeValue(v) ==
  <<v.kind>> \o
  CASE v.kind = "s" -> writeBytes(v.list)
    [] v.kind \in {"l", "p"} -> writeElements(v.list)
    [] v.kind = "h" ->
         PutUvarint(Len(v.list))
         \o Concat([i \in DOMAIN v.list |-> writeBytes(v.list[i][1]) \o writeBytes(v.list[i][2])])
    [] v.kind = "z" ->
         PutUvarint(Len(v.list))
         \o Concat([i \in DOMAIN v.list |-> writeBytes(v.list[i][1]) \o <<v.list[i][2]>>])

\* binary.ReadUvarint: it ends cleanly only before the first byte.
ReadUvarint(s, i) ==
  IF i > Len(s) THEN Stopped("eof")
  ELSE IF \A j \in i .. Len(s) : s[j] >= Base THEN Stopped("unexpected")
  ELSE LET n == Uvarint(s, i - 1) IN Ok(i + n[2], n[1])

\* io.ReadFull, of n bytes.
ReadFull(s, i, n) ==
  IF i + n - 1 <= Len(s) THEN Ok(i + n, SubSeq(s, i, i + n - 1))
  ELSE Stopped(IF i > Len(s) THEN "eof" ELSE "unexpected")

readBytes(s, i) == Then(ReadUvarint(s, i), LAMBDA at, n : ReadFull(s, at, n))
ReadByte(s, i)  == Then(ReadFull(s, i, 1), LAMBDA at, b : Ok(at, b[1]))

Pair(First(_, _), Second(_, _), s, i) ==
  Then(First(s, i), LAMBDA at, x : Then(Second(s, at), LAMBDA end, y : Ok(end, <<x, y>>)))

\* Mutant: the value of a field is taken for the field.
readFieldSwapped(s, i) == Then(Pair(readBytes, readBytes, s, i), LAMBDA at, p : Ok(at, <<p[2], p[1]>>))

readField(s, i)  == Pair(readBytes, readBytes, s, i)
readScored(s, i) == Pair(readBytes, ReadByte, s, i)

\* A count, and as many items.
Counted(item, s, i) == Then(ReadUvarint(s, i), LAMBDA at, n : Repeat(item, at, n))

readElements(s, i) == Counted([k \in Nat |-> readBytes(s, k)], s, i)

\* The map that pairs give when added one after the other.
Stored(pairs) == FoldLeft(LAMBDA m, p : (p[1] :> p[2]) @@ m, <<>>, pairs)

Value(kind, val) == [kind |-> kind, val |-> val]

readValue(s, i) ==
  Then(ReadByte(s, i), LAMBDA at, tag :
    CASE tag = "s" -> Then(readBytes(s, at), LAMBDA end, b : Ok(end, Value("s", b)))
      [] tag = "l" -> Then(readElements(s, at), LAMBDA end, l : Ok(end, Value("l", l)))
      [] tag = "p" -> Then(readElements(s, at), LAMBDA end, l : Ok(end, Value("p", ToSet(l))))
      [] tag = "h" -> Then(Counted([k \in Nat |-> readField(s, k)], s, at), LAMBDA end, l : Ok(end, Value("h", Stored(l))))
      [] tag = "z" -> Then(Counted([k \in Nat |-> readScored(s, k)], s, at), LAMBDA end, l : Ok(end, Value("z", Stored(l))))
      [] OTHER -> Stopped("bad"))

unexpectedEOF(r) == IF r.st = "eof" THEN Stopped("unexpected") ELSE r

-----------------------------------------------------------------------------
(* snapshot.go.  A record has a database, a key, a deadline and a value. *)

Magic == "MEMCORE-SNAP1"

writeRecord(rec) ==
  PutUvarint(rec.db) \o writeBytes(rec.key) \o <<rec.expireAt>> \o writeValue(rec.value)

WriteSnapshot(baseGen, recs) ==
  <<Magic>> \o PutUvarint(baseGen) \o Concat([i \in DOMAIN recs |-> writeRecord(recs[i])])

\* Mutant: an end inside the value is passed on as it is.
readRecordLoose(s, i) ==
  Then(ReadUvarint(s, i), LAMBDA a, db :
    Then(unexpectedEOF(readBytes(s, a)), LAMBDA b, key :
      Then(unexpectedEOF(ReadByte(s, b)), LAMBDA c, ts :
        Then(readValue(s, c), LAMBDA end, v :
          Ok(end, [db |-> db, key |-> key, expireAt |-> ts, value |-> v])))))

\* Only an end before the first byte is a clean one.
readRecord(s, i) ==
  Then(ReadUvarint(s, i), LAMBDA a, db :
    Then(unexpectedEOF(readBytes(s, a)), LAMBDA b, key :
      Then(unexpectedEOF(ReadByte(s, b)), LAMBDA c, ts :
        Then(unexpectedEOF(readValue(s, c)), LAMBDA end, v :
          Ok(end, [db |-> db, key |-> key, expireAt |-> ts, value |-> v])))))

\* The items from position i on, and how reading them ended.
ReadAll(Item(_, _), s, i) ==
  LET more[at \in Nat] ==
        LET r    == Item(s, at)
            rest == more[r.at]
        IN  IF r.st # "ok" THEN [st |-> r.st, items |-> <<>>]
            ELSE [rest EXCEPT !.items = <<r.val>> \o @]
  IN  more[i]

\* ReadSnapshot: how it ends (nil is "eof"), and the records applied.
ReadSnapshot(s) ==
  IF s = <<>> THEN [st |-> "eof", items |-> <<>>]
  ELSE IF s[1] # Magic THEN [st |-> "bad", items |-> <<>>]
  ELSE LET gen == unexpectedEOF(ReadUvarint(s, 2))
       IN  IF gen.st # "ok" THEN [st |-> gen.st, items |-> <<>>] ELSE ReadAll(readRecord, s, gen.at)

-----------------------------------------------------------------------------
(* appendlog.go and recover.go. *)

writeCommand(cmd) == PutUvarint(cmd.db) \o writeElements(cmd.args)

readCommand(s, i) ==
  Then(ReadUvarint(s, i), LAMBDA at, db :
    Then(unexpectedEOF(readElements(s, at)), LAMBDA end, args :
      Ok(end, [db |-> db, args |-> args])))

\* replaySegment: either end of file ends the replay without an error.
replaySegment(s) ==
  LET all == ReadAll(readCommand, s, 1)
  IN  [st |-> IF all.st = "unexpected" THEN "eof" ELSE all.st, items |-> all.items]
=============================================================================
