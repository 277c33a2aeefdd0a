------------------------------ MODULE Commands ------------------------------
(***************************************************************************)
(* The command handlers (internal/command) over one database.  A command   *)
(* is a record [op, keys, xs]: its name, its key arguments and its other   *)
(* arguments, all integers.  A handler returns the new keyspace and the    *)
(* reply; of a reply only what was returned is kept, and whether it is an  *)
(* error.  Collections hold their abstract contents; how they are encoded  *)
(* does not matter here.                                                   *)
(***************************************************************************)
EXTENDS Keyspace, Ranges

CONSTANTS MinInt, MaxInt,   \* the bounds of int64 for a counter, scaled down
          Second, Milli,    \* clock ticks in a second and in a millisecond
          Text,             \* any string that does not parse as an integer
          MaxDuration,      \* one more than the longest time.Duration
          Epoch,            \* the Unix epoch; ZeroTime lies before it
          MaxCount          \* the most replies that a pop can allocate a slice for

ASSUME CommandsAssumption ==
  /\ MinInt \in Int /\ MaxInt \in Int /\ MinInt < 0 /\ 0 < MaxInt
  /\ Second \in Nat \ {0} /\ Milli \in Nat \ {0} /\ MaxDuration \in Nat \ {0}
  /\ Text \in Int \ (MinInt .. MaxInt)
  /\ Epoch \in Nat /\ ZeroTime < Epoch /\ MaxCount \in Nat

\* time.UnixMilli and Time.UnixMilli, which rounds down.
UnixMilli(ms)  == Epoch + ms * Milli
MilliOf(at)    == (at - Epoch) \div Milli

\* Nanoseconds, the clock's tick here, as int64: they wrap around.
Int64(n) == ((n + MaxDuration) % (2 * MaxDuration)) - MaxDuration

\* time.Duration(n) * time.Second.
Seconds(n) == Int64(n * Second)

Str(n)  == [kind |-> "string", str |-> n]
List(l) == [kind |-> "list", list |-> l]
SetV(s) == [kind |-> "set", set |-> s]
Hash(h) == [kind |-> "hash", hash |-> h]
ZSet(z) == [kind |-> "zset", zset |-> z]

Empty(v) ==
  CASE v.kind = "list" -> v.list = <<>>
    [] v.kind = "set"  -> v.set = {}
    [] v.kind = "hash" -> DOMAIN v.hash = {}
    [] v.kind = "zset" -> DOMAIN v.zset = {}
    [] OTHER -> FALSE

Elems(xs) == {xs[i] : i \in 1 .. Len(xs)}
Reversed(xs) == [i \in 1 .. Len(xs) |-> xs[Len(xs) + 1 - i]]
Least(m, n) == IF m < n THEN m ELSE n

\* The arguments as pairs: the first components, and what the last pair with a
\* given first component pairs it with.
Firsts(xs) == {xs[i] : i \in {j \in 1 .. Len(xs) : j % 2 = 1}}
LastFor(xs, f) ==
  LET at == {i \in 1 .. Len(xs) : i % 2 = 1 /\ xs[i] = f}
  IN  xs[1 + CHOOSE i \in at : \A j \in at : j <= i]
Override(m, xs) ==
  [f \in DOMAIN m \cup Firsts(xs) |-> IF f \in Firsts(xs) THEN LastFor(xs, f) ELSE m[f]]

Result(ks, is) == [ks |-> ks, error |-> FALSE, is |-> is]
Fails(ks)      == [ks |-> ks, error |-> TRUE, is |-> <<>>]

-----------------------------------------------------------------------------
(* What the handlers of collection commands share. *)

\* The value a write starts from: the one stored, or a new one for an absent
\* key; and whether the key holds a value of another kind.
Held(ks, k, now, new) == IF Live(ks, k, now) THEN ks.entries[k].value ELSE new
WrongKind(ks, k, now, kind) == Live(ks, k, now) /\ ks.entries[k].value.kind # kind

\* An addition changes a live collection in place and stores a new one by Set,
\* which also replaces an expired entry.
Store(ks, k, now, v) == IF Live(ks, k, now) THEN Update(ks, k, v) ELSE Set(ks, k, v)

\* Mutant: an emptied collection stays.
ShrinkKeeps(ks, k, v) == Update(ks, k, v)

\* A removal deletes the key with the last element.
Shrink(ks, k, v) == IF Empty(v) THEN Delete(ks, {k}) ELSE Update(ks, k, v)

-----------------------------------------------------------------------------
(* strings.go *)

\* Mutant: GET reclaims an expired entry, under its shared lock.
cmdGetReclaims(ks, now, k) ==
  IF WrongKind(ks, k, now, "string") THEN Fails(ks)
  ELSE IF Live(ks, k, now) THEN Result(ks, <<ks.entries[k].value.str>>)
  ELSE Result(Delete(ks, {k}), <<>>)

cmdGet(ks, now, k) ==
  IF WrongKind(ks, k, now, "string") THEN Fails(ks)
  ELSE Result(ks, IF Live(ks, k, now) THEN <<ks.entries[k].value.str>> ELSE <<>>)

cmdSet(ks, now, k, xs) == Result(Set(ks, k, Str(xs[1])), <<>>)

\* Mutant: the checks for overflow forget the increment.
incrByUnchecked(ks, now, k, delta) ==
  LET cur == Held(ks, k, now, Str(0)).str
      e   == ks.entries[k]
  IN  IF WrongKind(ks, k, now, "string") THEN Fails(ks)
      ELSE IF cur = Text THEN Fails(ks)
      ELSE IF (delta > 0 /\ cur > MaxInt) \/ (delta < 0 /\ cur < MinInt) THEN Fails(ks)
      ELSE Result(IF Live(ks, k, now) THEN SetEntry(ks, k, Entry(Str(cur + delta), e.expireAt))
                  ELSE Set(ks, k, Str(cur + delta)),
                  <<cur + delta>>)

\* incrBy: the checks for overflow come before the addition.
incrBy(ks, now, k, delta) ==
  LET cur == Held(ks, k, now, Str(0)).str
      e   == ks.entries[k]
  IN  IF WrongKind(ks, k, now, "string") THEN Fails(ks)
      ELSE IF cur = Text THEN Fails(ks)
      ELSE IF (delta > 0 /\ cur > MaxInt - delta) \/ (delta < 0 /\ cur < MinInt - delta)
        THEN Fails(ks)
      ELSE Result(IF Live(ks, k, now) THEN SetEntry(ks, k, Entry(Str(cur + delta), e.expireAt))
                  ELSE Set(ks, k, Str(cur + delta)),
                  <<cur + delta>>)

-----------------------------------------------------------------------------
(* keys.go *)

\* cmdDel and cmdUnlink: a repeated key counts once, the second time it is gone.
cmdDel(ks, now, keys) ==
  Result(Delete(ks, Elems(keys)),
         <<Cardinality({k \in Elems(keys) : Live(ks, k, now)})>>)

\* cmdExists: a repeated key counts each time.
cmdExists(ks, now, keys) ==
  Result(ks, <<Cardinality({i \in 1 .. Len(keys) : Live(ks, keys[i], now)})>>)

expireAt(ks, now, k, at) ==
  IF Live(ks, k, now) THEN Result(SetExpire(ks, k, at), <<1>>) ELSE Result(ks, <<0>>)

cmdExpire(ks, now, k, xs) ==
  IF xs[1] = Text THEN Fails(ks) ELSE expireAt(ks, now, k, now + Seconds(xs[1]))

cmdPExpireAt(ks, now, k, xs) ==
  IF xs[1] = Text THEN Fails(ks) ELSE expireAt(ks, now, k, UnixMilli(xs[1]))

\* The remaining time, at most the longest Duration, rounded to the nearest second.
\* (The clamp at zero is for a deadline that passes between the handler's two
\* readings of the clock.)
cmdTTL(ks, now, k) ==
  Result(ks, IF ~Live(ks, k, now) THEN <<-2>>
             ELSE IF ~HasExpiry(ks.entries[k]) THEN <<-1>>
             ELSE <<(Least(ks.entries[k].expireAt - now, MaxDuration - 1) + Second \div 2)
                    \div Second>>)

cmdPersist(ks, now, k) ==
  IF Live(ks, k, now) /\ HasExpiry(ks.entries[k])
    THEN Result(Persist(ks, k), <<1>>)
    ELSE Result(ks, <<0>>)

cmdType(ks, now, k) ==
  Result(ks, IF Live(ks, k, now) THEN <<ks.entries[k].value.kind>> ELSE <<"none">>)

-----------------------------------------------------------------------------
(* lists.go *)

\* Several elements are pushed one by one, so that LPUSH reverses them.
listPush(ks, now, k, xs, front) ==
  LET l == Held(ks, k, now, List(<<>>)).list
      m == IF front THEN Reversed(xs) \o l ELSE l \o xs
  IN  IF WrongKind(ks, k, now, "list") THEN Fails(ks)
      ELSE Result(Store(ks, k, now, List(m)), <<Len(m)>>)

\* Without a count, one element; a count of zero pops nothing.  The slice for the
\* replies is allocated before the first pop: beyond MaxCount make panics, which
\* execute answers with an error.
listPop(ks, now, k, xs, front) ==
  LET count == IF xs = <<>> THEN 1 ELSE xs[1]
      l     == ks.entries[k].value.list
      n     == Least(count, Len(l))
      rest  == IF front THEN SubSeq(l, n + 1, Len(l)) ELSE SubSeq(l, 1, Len(l) - n)
      out   == IF front THEN SubSeq(l, 1, n)
               ELSE Reversed(SubSeq(l, Len(l) - n + 1, Len(l)))
  IN  IF Len(xs) > 1 \/ count = Text \/ count < 0 THEN Fails(ks)
      ELSE IF ~Live(ks, k, now) THEN Result(ks, <<>>)
      ELSE IF WrongKind(ks, k, now, "list") THEN Fails(ks)
      ELSE IF xs # <<>> /\ count > MaxCount THEN Fails(ks)
      ELSE Result(Shrink(ks, k, List(rest)), out)

cmdLLen(ks, now, k) ==
  IF WrongKind(ks, k, now, "list") THEN Fails(ks)
  ELSE Result(ks, <<Len(Held(ks, k, now, List(<<>>)).list)>>)

\* What a range of ranks selects from a sequence.
Ranged(l, start, stop) ==
  LET r == normalizeRange(start, stop, Len(l))
  IN  IF r = <<>> THEN <<>> ELSE SubSeq(l, r[1] + 1, r[2] + 1)

cmdLRange(ks, now, k, xs) ==
  IF Text \in {xs[1], xs[2]} \/ WrongKind(ks, k, now, "list") THEN Fails(ks)
  ELSE Result(ks, Ranged(Held(ks, k, now, List(<<>>)).list, xs[1], xs[2]))

-----------------------------------------------------------------------------
(* hashes.go: the arguments of HSET are field-value pairs. *)

cmdHSet(ks, now, k, xs) ==
  LET h == Held(ks, k, now, Hash(<<>>)).hash
  IN  IF Len(xs) % 2 # 0 \/ WrongKind(ks, k, now, "hash") THEN Fails(ks)
      ELSE Result(Store(ks, k, now, Hash(Override(h, xs))),
                  <<Cardinality(Firsts(xs) \ DOMAIN h)>>)

cmdHGet(ks, now, k, xs) ==
  LET h == Held(ks, k, now, Hash(<<>>)).hash
  IN  IF WrongKind(ks, k, now, "hash") THEN Fails(ks)
      ELSE Result(ks, IF xs[1] \in DOMAIN h THEN <<h[xs[1]]>> ELSE <<>>)

cmdHDel(ks, now, k, xs) ==
  LET h == ks.entries[k].value.hash
  IN  IF ~Live(ks, k, now) THEN Result(ks, <<0>>)
      ELSE IF WrongKind(ks, k, now, "hash") THEN Fails(ks)
      ELSE Result(Shrink(ks, k, Hash(Without(h, Elems(xs)))),
                  <<Cardinality(Elems(xs) \cap DOMAIN h)>>)

\* The pairs come in no particular order.
cmdHGetAll(ks, now, k) ==
  IF WrongKind(ks, k, now, "hash") THEN Fails(ks)
  ELSE Result(ks, <<Held(ks, k, now, Hash(<<>>)).hash>>)

-----------------------------------------------------------------------------
(* sets.go *)

cmdSAdd(ks, now, k, xs) ==
  LET s == Held(ks, k, now, SetV({})).set
  IN  IF WrongKind(ks, k, now, "set") THEN Fails(ks)
      ELSE Result(Store(ks, k, now, SetV(s \cup Elems(xs))),
                  <<Cardinality(Elems(xs) \ s)>>)

cmdSRem(ks, now, k, xs) ==
  LET s == ks.entries[k].value.set
  IN  IF ~Live(ks, k, now) THEN Result(ks, <<0>>)
      ELSE IF WrongKind(ks, k, now, "set") THEN Fails(ks)
      ELSE Result(Shrink(ks, k, SetV(s \ Elems(xs))), <<Cardinality(Elems(xs) \cap s)>>)

cmdSMembers(ks, now, k) ==
  IF WrongKind(ks, k, now, "set") THEN Fails(ks)
  ELSE Result(ks, <<Held(ks, k, now, SetV({})).set>>)

\* Mutant: the last key is not looked at.
cmdSInterShort(ks, now, keys) ==
  LET short == SubSeq(keys, 1, Len(keys) - 1)
  IN  IF \A i \in 1 .. Len(short) : Live(ks, short[i], now)
                                    /\ ~WrongKind(ks, short[i], now, "set")
        THEN Result(ks, <<{m \in ks.entries[short[1]].value.set :
                             \A i \in 1 .. Len(short) : m \in ks.entries[short[i]].value.set}>>)
        ELSE Result(ks, <<{}>>)

\* The keys are looked up in turn, and the first that is absent or no set
\* decides the reply.  Then the members of the smallest set that all the
\* others contain.
cmdSInter(ks, now, keys) ==
  LET bad == {i \in 1 .. Len(keys) : ~Live(ks, keys[i], now)
                                     \/ WrongKind(ks, keys[i], now, "set")}
      first == CHOOSE i \in bad : \A j \in bad : i <= j
      s(i) == ks.entries[keys[i]].value.set
      smallest == CHOOSE i \in 1 .. Len(keys) :
                    \A j \in 1 .. Len(keys) :
                      IF j < i THEN Cardinality(s(i)) < Cardinality(s(j))
                      ELSE Cardinality(s(i)) <= Cardinality(s(j))
  IN  IF bad = {}
        THEN Result(ks, <<{m \in s(smallest) :
                             \A i \in 1 .. Len(keys) \ {smallest} : m \in s(i)}>>)
      ELSE IF ~Live(ks, keys[first], now) THEN Result(ks, <<{}>>)
      ELSE Fails(ks)

-----------------------------------------------------------------------------
(* zsets.go: the arguments of ZADD are member-score pairs here.  Every score *)
(* is parsed before the first is applied.                                   *)

\* Mutant: pairs are applied as they are parsed, up to the first bad score.
cmdZAddPartial(ks, now, k, xs) ==
  LET z   == Held(ks, k, now, ZSet(<<>>)).zset
      bad == {i \in 1 .. Len(xs) : i % 2 = 0 /\ xs[i] = Text}
      ok  == SubSeq(xs, 1, (CHOOSE i \in bad : \A j \in bad : i <= j) - 2)
  IN  IF Len(xs) % 2 # 0 \/ WrongKind(ks, k, now, "zset") THEN Fails(ks)
      ELSE IF bad # {} THEN Fails(Store(ks, k, now, ZSet(Override(z, ok))))
      ELSE Result(Store(ks, k, now, ZSet(Override(z, xs))),
                  <<Cardinality(Firsts(xs) \ DOMAIN z)>>)

cmdZAdd(ks, now, k, xs) ==
  LET z == Held(ks, k, now, ZSet(<<>>)).zset
  IN  IF \/ Len(xs) % 2 # 0
         \/ \E i \in 1 .. Len(xs) : i % 2 = 0 /\ xs[i] = Text
         \/ WrongKind(ks, k, now, "zset")
        THEN Fails(ks)
      ELSE Result(Store(ks, k, now, ZSet(Override(z, xs))),
                  <<Cardinality(Firsts(xs) \ DOMAIN z)>>)

cmdZScore(ks, now, k, xs) ==
  LET z == Held(ks, k, now, ZSet(<<>>)).zset
  IN  IF WrongKind(ks, k, now, "zset") THEN Fails(ks)
      ELSE Result(ks, IF xs[1] \in DOMAIN z THEN <<z[xs[1]]>> ELSE <<>>)

\* The entries by score, then by member: the order that module ZSet keeps.
Sorted(z) ==
  CHOOSE l \in [1 .. Cardinality(DOMAIN z) -> DOMAIN z] :
    \A i, j \in DOMAIN l :
      i < j => z[l[i]] < z[l[j]] \/ (z[l[i]] = z[l[j]] /\ l[i] < l[j])

cmdZRange(ks, now, k, xs) ==
  IF Text \in {xs[1], xs[2]} \/ WrongKind(ks, k, now, "zset") THEN Fails(ks)
  ELSE Result(ks, Ranged(Sorted(Held(ks, k, now, ZSet(<<>>)).zset), xs[1], xs[2]))

-----------------------------------------------------------------------------
(* The command table. *)

ReadOnly(c) ==
  c.op \in {"get", "exists", "ttl", "type", "llen", "lrange", "hget", "hgetall",
           "smembers", "sinter", "zscore", "zrange"}

\* What Resolve has checked and what parsing makes of the arguments: which commands
\* come with a key and with another argument, and that a number that int64 does
\* not hold is a text to SET.
Resolved(c) ==
  /\ c.xs \in Seq(Int)
  /\ c.op \notin {"flushdb", "select", "plain"} => c.keys # <<>>
  /\ c.op \in {"set", "expire", "pexpireat", "lpush", "rpush", "hset", "sadd", "zadd", "select"}
       => c.xs # <<>>
  /\ c.op = "set" => c.xs[1] \in (MinInt .. MaxInt) \cup {Text}

\* Registry.Dispatch, for a command whose name and arity have been checked.
Dispatch(c, ks, now) ==
  LET k == c.keys[1] IN
  CASE c.op = "get"       -> cmdGet(ks, now, k)
    [] c.op = "set"       -> cmdSet(ks, now, k, c.xs)
    [] c.op = "incr"      -> incrBy(ks, now, k, 1)
    [] c.op = "decr"      -> incrBy(ks, now, k, -1)
    [] c.op = "del"       -> cmdDel(ks, now, c.keys)
    [] c.op = "exists"    -> cmdExists(ks, now, c.keys)
    [] c.op = "expire"    -> cmdExpire(ks, now, k, c.xs)
    [] c.op = "pexpireat" -> cmdPExpireAt(ks, now, k, c.xs)
    [] c.op = "ttl"       -> cmdTTL(ks, now, k)
    [] c.op = "persist"   -> cmdPersist(ks, now, k)
    [] c.op = "type"      -> cmdType(ks, now, k)
    [] c.op = "lpush"     -> listPush(ks, now, k, c.xs, TRUE)
    [] c.op = "rpush"     -> listPush(ks, now, k, c.xs, FALSE)
    [] c.op = "lpop"      -> listPop(ks, now, k, c.xs, TRUE)
    [] c.op = "rpop"      -> listPop(ks, now, k, c.xs, FALSE)
    [] c.op = "llen"      -> cmdLLen(ks, now, k)
    [] c.op = "lrange"    -> cmdLRange(ks, now, k, c.xs)
    [] c.op = "hset"      -> cmdHSet(ks, now, k, c.xs)
    [] c.op = "hget"      -> cmdHGet(ks, now, k, c.xs)
    [] c.op = "hgetall"   -> cmdHGetAll(ks, now, k)
    [] c.op = "hdel"      -> cmdHDel(ks, now, k, c.xs)
    [] c.op = "sadd"      -> cmdSAdd(ks, now, k, c.xs)
    [] c.op = "srem"      -> cmdSRem(ks, now, k, c.xs)
    [] c.op = "smembers"  -> cmdSMembers(ks, now, k)
    [] c.op = "sinter"    -> cmdSInter(ks, now, c.keys)
    [] c.op = "zadd"      -> cmdZAdd(ks, now, k, c.xs)
    [] c.op = "zscore"    -> cmdZScore(ks, now, k, c.xs)
    [] c.op = "zrange"    -> cmdZRange(ks, now, k, c.xs)
    [] OTHER              -> Result(Flush(ks), <<>>)
=============================================================================
