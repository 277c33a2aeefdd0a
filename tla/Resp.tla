-------------------------------- MODULE Resp --------------------------------
(***************************************************************************)
(* RESP on the wire: resp.Reader and resp.Writer of the server, and the    *)
(* request writer and reply reader of the Go client.                       *)
(*                                                                         *)
(* A byte stream is a sequence of tokens: a marker ("*", "$", ":", "+",    *)
(* "-"), a decimal count, a blank, a word, the line end "crlf" or a bare   *)
(* "lf".  A bulk body is any sequence of tokens, and its length is the     *)
(* number of them.                                                         *)
(***************************************************************************)
EXTENDS Parsing

CONSTANTS ReadBuffer,    \* readBufferSize: the longest line
          MaxBulk,       \* maxBulkLen
          MaxMultiBulk,  \* maxMultiBulkLen
          Token,         \* the tokens
          Numeral        \* the decimal numeral of each number that occurs

LineEnds == {"crlf", "lf"}
Markers  == {"*", "$", ":", "+", "-"}
Word     == Token \ LineEnds

\* The numbers that occur: counts, lengths, and integer replies.
Counts == DOMAIN Numeral

ASSUME RespAssumption ==
  /\ ReadBuffer \in Nat /\ MaxBulk \in Nat /\ MaxMultiBulk \in Nat
  /\ LineEnds \cup Markers \cup {"sp"} \subseteq Token
  /\ Counts \subseteq Int /\ -1 \in Counts
  /\ \A m, n \in Counts : Numeral[m] \in Word /\ (Numeral[m] = Numeral[n] => m = n)

More == Stopped("more")  \* it blocks for input
Bad  == Stopped("bad")   \* ErrProtocol

\* strconv.Itoa and strconv.Atoi.
Itoa(n) == Numeral[n]
IsCount(w) == \E n \in Counts : Itoa(n) = w
Atoi(w) == CHOOSE n \in Counts : Itoa(n) = w

\* The next line end, and 0 if there is none.
LineEnd(s, i) ==
  LET ends == {k \in i .. Len(s) : s[k] \in LineEnds}
  IN  IF ends = {} THEN 0 ELSE CHOOSE k \in ends : \A j \in ends : k <= j

-----------------------------------------------------------------------------
(* The server reads requests. *)

\* readLine: up to the line end, for which the buffer must have room.
readLine(s, i) ==
  LET end == LineEnd(s, i) IN
  IF end = 0 /\ Len(s) - i + 1 < ReadBuffer THEN More
  ELSE IF end = 0 \/ end - i >= ReadBuffer \/ s[end] = "lf" THEN Bad
  ELSE Ok(end + 1, SubSeq(s, i, end - 1))

readCount(s, i) ==
  Then(readLine(s, i), LAMBDA at, line :
    IF Len(line) = 1 /\ IsCount(line[1]) THEN Ok(at, Atoi(line[1])) ELSE Bad)

\* Mutant: a body ends with its line.
readBodyLine(s, i, n) ==
  LET end == LineEnd(s, i) IN IF end = 0 THEN More ELSE Ok(end + 1, SubSeq(s, i, end - 1))

readN(s, i, n) == IF i + n - 1 > Len(s) THEN More ELSE Ok(i + n, SubSeq(s, i, i + n - 1))

expectCRLF(s, i, body) ==
  IF i > Len(s) THEN More ELSE IF s[i] # "crlf" THEN Bad ELSE Ok(i + 1, body)

readBody(s, i, n) == Then(readN(s, i, n), LAMBDA at, body : expectCRLF(s, at, body))

\* readBulk: the length, and that many tokens whatever they are.
readBulk(s, i) ==
  Then(readCount(s, i), LAMBDA at, n : IF n \in 0 .. MaxBulk THEN readBody(s, at, n) ELSE Bad)

readArg(s, i) ==
  IF i > Len(s) THEN More ELSE IF s[i] = "$" THEN readBulk(s, i + 1) ELSE Bad

\* readMultiBulk: a zero or null array carries no command.
readMultiBulk(s, i) ==
  Then(readCount(s, i), LAMBDA at, n :
    IF n <= 0 THEN Ok(at, <<>>)
    ELSE IF n > MaxMultiBulk THEN Bad
    ELSE Repeat([k \in Nat |-> readArg(s, k)], at, n))

\* bytes.Fields: the words of a line, of one token each.
Fields(line) == Concat([k \in DOMAIN line |-> IF line[k] = "sp" THEN <<>> ELSE <<<<line[k]>>>>])

readInline(s, i) == Then(readLine(s, i), LAMBDA at, line : Ok(at, Fields(line)))

ReadRequest(s) ==
  IF s = <<>> THEN More ELSE IF s[1] = "*" THEN readMultiBulk(s, 2) ELSE readInline(s, 1)

-----------------------------------------------------------------------------
(* The server writes replies.  No command nests arrays. *)

Nil       == [kind |-> "nil"]
Simple(w) == [kind |-> "simple", str |-> w]
Error(w)  == [kind |-> "error", str |-> w]
Number(n) == [kind |-> "int", num |-> n]
Bulk(b)   == [kind |-> "bulk", bulk |-> b]
Array(rs) == [kind |-> "array", array |-> rs]

Frame(prefix, w) == <<prefix, w, "crlf">>

writeBulk(b) == Frame("$", Itoa(Len(b))) \o b \o <<"crlf">>

writeFlat(r) ==
  CASE r.kind = "nil"    -> Frame("$", Itoa(-1))
    [] r.kind = "simple" -> Frame("+", r.str)
    [] r.kind = "error"  -> Frame("-", r.str)
    [] r.kind = "int"    -> Frame(":", Itoa(r.num))
    [] r.kind = "bulk"   -> writeBulk(r.bulk)

writeReply(r) ==
  IF r.kind # "array" THEN writeFlat(r)
  ELSE Frame("*", Itoa(Len(r.array)))
       \o Concat([i \in DOMAIN r.array |-> writeFlat(r.array[i])])

\* The replies that commands have.  A text holds no line end, and an array no error.
Plain ==
  {Nil} \cup [kind : {"simple"}, str : Word] \cup [kind : {"int"}, num : Counts]
        \cup [kind : {"bulk"}, bulk : {b \in Seq(Token) : Len(b) \in Counts}]
Errors == [kind : {"error"}, str : Word]
Arrays == [kind : {"array"}, array : {rs \in Seq(Plain) : Len(rs) \in Counts}]
Reply  == Plain \cup Errors \cup Arrays

-----------------------------------------------------------------------------
(* The Go client. *)

writeCommand(args) ==
  Frame("*", Itoa(Len(args))) \o Concat([i \in DOMAIN args |-> writeBulk(args[i])])

\* The client's readLine takes a bare line feed, too, and has no limit; all
\* lines are a prefix and one word.
clientLine(s, i) ==
  LET end == LineEnd(s, i) IN
  IF end = 0 THEN More
  ELSE IF end - i # 2 THEN Bad
  ELSE Ok(end + 1, <<s[i], s[i + 1]>>)

\* A caller of Do does not see whether a string was simple or bulk.
Text(b) == [kind |-> "text", text |-> b]

\* An error reply ends the reading, that of an array's items too.
Failed(at, w) == [st |-> "error", at |-> at, val |-> Error(w)]

\* A bulk with its line end, which is not looked at.
clientBulk(s, i, n) ==
  IF n < 0 THEN Ok(i, Nil)
  ELSE IF i + n > Len(s) THEN More
  ELSE Ok(i + n + 1, Text(SubSeq(s, i, i + n - 1)))

\* readReply, for all but arrays.
readFlat(s, i) ==
  Then(clientLine(s, i), LAMBDA at, line :
    CASE line[1] = "+" -> Ok(at, Text(<<line[2]>>))
      [] line[1] = "-" -> Failed(at, line[2])
      [] line[1] = ":" /\ IsCount(line[2]) -> Ok(at, Number(Atoi(line[2])))
      [] line[1] = "$" /\ IsCount(line[2]) -> clientBulk(s, at, Atoi(line[2]))
      [] OTHER -> Bad)

readArray(s, i, n) ==
  IF n < 0 THEN Ok(i, Nil)
  ELSE Then(Repeat([k \in Nat |-> readFlat(s, k)], i, n), LAMBDA at, items : Ok(at, Array(items)))

readAny(s, i) ==
  Then(clientLine(s, i), LAMBDA at, line :
    IF line[1] # "*" THEN readFlat(s, i)
    ELSE IF IsCount(line[2]) THEN readArray(s, at, Atoi(line[2]))
    ELSE Bad)

\* readReply: an error is what Do returns, and the next call reads on behind it.
readReply(s, i) ==
  CHOOSE x \in {IF r.st = "error" THEN Ok(r.at, r.val) ELSE r : r \in {readAny(s, i)}} : TRUE

\* What n calls of Do return.
readReplies(s, n) == Repeat([k \in Nat |-> readReply(s, k)], 1, n)

\* Replies as a caller of Do should see them.
SeenFlat(r) ==
  IF r.kind = "simple" THEN Text(<<r.str>>) ELSE IF r.kind = "bulk" THEN Text(r.bulk) ELSE r

Seen(rs) ==
  [i \in DOMAIN rs |->
     IF rs[i].kind # "array" THEN SeenFlat(rs[i])
     ELSE Array([k \in DOMAIN rs[i].array |-> SeenFlat(rs[i].array[k])])]
=============================================================================
