--------------------------- MODULE CommandsProofs ---------------------------
(***************************************************************************)
(* Lemmas about Keyspace and Commands, for any keyspace and any command:   *)
(* what every method and handler preserves.  The modules that run commands *)
(* in time, Database and Replay, rest on them.                             *)
(***************************************************************************)
EXTENDS Commands, FiniteSetTheorems, WellFoundedInduction, TLAPS

USE Zenon, SMT

ValueKinds == {"string", "list", "set", "hash", "zset"}

\* A keyspace with well-typed entries and a complete TTL index.
Sound(s) ==
  /\ \A k \in DOMAIN s.entries :
       s.entries[k].value.kind \in ValueKinds /\ s.entries[k].expireAt \in Int
  /\ s.withTTL \subseteq DOMAIN s.entries
  /\ \A k \in DOMAIN s.entries : HasExpiry(s.entries[k]) => k \in s.withTTL

-----------------------------------------------------------------------------
(* The methods of a keyspace keep it sound. *)

\* Set stores a value without deadline and unindexes the key.
LEMMA SetSound ==
  ASSUME NEW s, NEW k, NEW v, Sound(s), v.kind \in ValueKinds
  PROVE  Sound(Set(s, k, v))
BY DEF Sound, Set, Assign, Entry, HasExpiry, ZeroTime

\* SetEntry indexes the key exactly if the entry has a deadline.
LEMMA SetEntrySound ==
  ASSUME NEW s, NEW k, NEW v, NEW at \in Int, Sound(s), v.kind \in ValueKinds
  PROVE  Sound(SetEntry(s, k, Entry(v, at)))
BY DEF Sound, SetEntry, Assign, Entry, HasExpiry, ZeroTime

\* Mutating a stored collection in place leaves its deadline and the index alone.
LEMMA UpdateSound ==
  ASSUME NEW s, NEW k \in DOMAIN s.entries, NEW v, Sound(s), v.kind \in ValueKinds
  PROVE  Sound(Update(s, k, v))
BY DEF Sound, Update, Assign, Entry, HasExpiry

\* SetExpire indexes the key whose deadline it sets.
LEMMA SetExpireSound ==
  ASSUME NEW s, NEW k \in DOMAIN s.entries, NEW at \in Int, Sound(s)
  PROVE  Sound(SetExpire(s, k, at))
BY DEF Sound, SetExpire, Assign, Entry, HasExpiry

\* Persist unindexes the key whose deadline it clears.
LEMMA PersistSound ==
  ASSUME NEW s, NEW k \in DOMAIN s.entries, Sound(s)
  PROVE  Sound(Persist(s, k))
<1>1. s.entries[k].value.kind \in ValueKinds
  BY DEF Sound
<1> QED BY <1>1, SetSound DEF Persist

\* Delete removes the entries and the index entries of the same keys.
LEMMA DeleteSound ==
  ASSUME NEW s, NEW keys, Sound(s)
  PROVE  Sound(Delete(s, keys))
BY DEF Sound, Delete, Without

\* A flushed keyspace is empty.
LEMMA FlushSound == \A s : Sound(Flush(s))
BY DEF Sound, Flush, EmptyKeyspace

\* SampleExpired drops only index entries of keys that it evicts or that have
\* no deadline.
LEMMA SampleSound ==
  ASSUME NEW s, NEW S, NEW t, Sound(s)
  PROVE  Sound(SampleExpired(s, S, t))
<1> DEFINE stale == {k \in S : k \notin DOMAIN s.entries \/ ~HasExpiry(s.entries[k])}
           dead  == Evicted(s, S, t)
<1>1. SampleExpired(s, S, t) = [entries |-> Without(s.entries, dead),
                                withTTL |-> s.withTTL \ (stale \cup dead)]
  BY DEF SampleExpired
<1>2. \A k \in DOMAIN s.entries \ dead : k \in stale => ~HasExpiry(s.entries[k])
  OBVIOUS
<1> HIDE DEF stale, dead
<1> QED BY <1>1, <1>2 DEF Sound, Without

-----------------------------------------------------------------------------
(* The handlers keep the keyspace sound. *)

\* An addition stores a new collection or changes the stored one.
LEMMA StoreSound ==
  ASSUME NEW s, NEW k, NEW t, NEW v, Sound(s), v.kind \in ValueKinds
  PROVE  Sound(Store(s, k, t, v))
BY SetSound, UpdateSound DEF Store, Live

\* A removal acts on a stored collection.
LEMMA ShrinkSound ==
  ASSUME NEW s, NEW k \in DOMAIN s.entries, NEW v, Sound(s), v.kind \in ValueKinds
  PROVE  Sound(Shrink(s, k, v))
BY DeleteSound, UpdateSound DEF Shrink

\* The kind of each value that a handler builds.
LEMMA Kinds ==
  /\ \A x : Str(x).kind \in ValueKinds /\ List(x).kind \in ValueKinds
  /\ \A x : SetV(x).kind \in ValueKinds /\ Hash(x).kind \in ValueKinds
  /\ \A x : ZSet(x).kind \in ValueKinds
BY DEF Str, List, SetV, Hash, ZSet, ValueKinds

\* incrBy keeps the deadline of a live counter.
LEMMA IncrSound ==
  ASSUME NEW s, NEW t \in Int, NEW k, NEW delta, Sound(s)
  PROVE  Sound(incrBy(s, t, k, delta).ks)
<1> DEFINE new == Str(Held(s, k, t, Str(0)).str + delta)
<1>1. incrBy(s, t, k, delta).ks \in
        {s, IF Live(s, k, t) THEN SetEntry(s, k, Entry(new, s.entries[k].expireAt))
            ELSE Set(s, k, new)}
  BY DEF incrBy, Result, Fails
<1>2. new.kind \in ValueKinds
  BY Kinds
<1> HIDE DEF new
<1>3. Live(s, k, t) => Sound(SetEntry(s, k, Entry(new, s.entries[k].expireAt)))
  <2>1. Live(s, k, t) => s.entries[k].expireAt \in Int
    BY DEF Live, Sound
  <2> QED BY <1>2, <2>1, SetEntrySound
<1>4. Sound(Set(s, k, new))
  BY <1>2, SetSound
<1> QED BY <1>1, <1>3, <1>4

\* DEL and UNLINK.
LEMMA DelSound ==
  ASSUME NEW s, NEW t, NEW keys, Sound(s)
  PROVE  Sound(cmdDel(s, t, keys).ks)
BY DeleteSound DEF cmdDel, Result

\* Nanoseconds, wrapped around, are an int64; those that are one stay as they are.
LEMMA Int64Range ==
  ASSUME NEW n \in Int
  PROVE  /\ Int64(n) \in -MaxDuration .. MaxDuration - 1 /\ Int64(n) \in Int
         /\ n \in -MaxDuration .. MaxDuration - 1 => Int64(n) = n
<1> DEFINE y == n + MaxDuration
           m == 2 * MaxDuration
<1>1. y \in Int /\ m \in Nat /\ m > 0
  BY SMT, CommandsAssumption
<1>2. n \in -MaxDuration .. MaxDuration - 1 => y \in 0 .. m - 1
  BY SMT, CommandsAssumption
<1>3. Int64(n) = (y % m) - MaxDuration
  BY DEF Int64
<1> HIDE DEF y, m
<1>4. y % m \in 0 .. m - 1 /\ (y \in 0 .. m - 1 => y % m = y)
  BY SMT, <1>1
<1>5. Int64(n) \in -MaxDuration .. MaxDuration - 1 /\ Int64(n) \in Int
  BY SMT, <1>3, <1>4, CommandsAssumption DEF m
<1>6. ASSUME n \in -MaxDuration .. MaxDuration - 1 PROVE Int64(n) = n
  <2>1. Int64(n) = y - MaxDuration
    BY Zenon, <1>2, <1>3, <1>4, <1>6
  <2> QED BY SMT, <2>1, CommandsAssumption DEF y
<1> QED BY <1>5, <1>6

\* A duration in seconds, wrapped around, is one that int64 holds.
LEMMA SecondsRange ==
  ASSUME NEW n \in Int
  PROVE  Seconds(n) \in -MaxDuration .. MaxDuration - 1 /\ Seconds(n) \in Int
<1>1. n * Second \in Int
  BY SMT, CommandsAssumption
<1> QED BY Zenon, <1>1, Int64Range DEF Seconds

\* Milliseconds since the epoch, and back: rounding down loses less than one.
LEMMA MilliRounds ==
  ASSUME NEW at \in Int
  PROVE  /\ MilliOf(at) \in Int /\ UnixMilli(MilliOf(at)) \in Int
         /\ UnixMilli(MilliOf(at)) \in at - Milli + 1 .. at
<1> DEFINE y == at - Epoch
<1>1. y \in Int /\ Milli \in Nat \ {0} /\ Epoch \in Int
  BY SMT, CommandsAssumption
<1> HIDE DEF y
<1>2. y \div Milli \in Int /\ (y \div Milli) * Milli \in y - Milli + 1 .. y
  BY SMT, <1>1
<1> QED BY SMT, <1>1, <1>2 DEF MilliOf, UnixMilli, y

\* EXPIRE and PEXPIREAT compute an integer deadline.
LEMMA ExpireSound ==
  ASSUME NEW s, NEW t \in Int, NEW k, NEW xs \in Seq(Int), xs # <<>>, Sound(s)
  PROVE  Sound(cmdExpire(s, t, k, xs).ks) /\ Sound(cmdPExpireAt(s, t, k, xs).ks)
<1>1. xs[1] \in Int
  OBVIOUS
<1>2. t + Seconds(xs[1]) \in Int /\ UnixMilli(xs[1]) \in Int
  <2>1. Seconds(xs[1]) \in Int
    BY <1>1, SecondsRange
  <2> QED BY SMT, <1>1, <2>1, CommandsAssumption DEF UnixMilli
<1>3. ASSUME NEW at \in Int PROVE Sound(expireAt(s, t, k, at).ks)
  BY SetExpireSound DEF expireAt, Live, Result
<1> QED BY <1>2, <1>3 DEF cmdExpire, cmdPExpireAt, Fails, Result

\* PERSIST.
LEMMA PersistCmdSound ==
  ASSUME NEW s, NEW t, NEW k, Sound(s)
  PROVE  Sound(cmdPersist(s, t, k).ks)
BY PersistSound DEF cmdPersist, Live, Result

\* The commands that add to a collection.
LEMMA AdditionsSound ==
  ASSUME NEW s, NEW t, NEW k, NEW xs, NEW front, Sound(s)
  PROVE  /\ Sound(listPush(s, t, k, xs, front).ks)
         /\ Sound(cmdHSet(s, t, k, xs).ks)
         /\ Sound(cmdSAdd(s, t, k, xs).ks)
         /\ Sound(cmdZAdd(s, t, k, xs).ks)
<1>1. \A x : /\ Sound(Store(s, k, t, List(x))) /\ Sound(Store(s, k, t, Hash(x)))
             /\ Sound(Store(s, k, t, SetV(x))) /\ Sound(Store(s, k, t, ZSet(x)))
  BY StoreSound, Kinds
<1>2. Sound(listPush(s, t, k, xs, front).ks)
  BY <1>1 DEF listPush, Result, Fails
<1>3. Sound(cmdHSet(s, t, k, xs).ks)
  BY <1>1 DEF cmdHSet, Result, Fails
<1>4. Sound(cmdSAdd(s, t, k, xs).ks)
  BY <1>1 DEF cmdSAdd, Result, Fails
<1>5. Sound(cmdZAdd(s, t, k, xs).ks)
  BY <1>1 DEF cmdZAdd, Result, Fails
<1> QED BY <1>2, <1>3, <1>4, <1>5

\* The commands that remove from a collection.
LEMMA RemovalsSound ==
  ASSUME NEW s, NEW t, NEW k, NEW xs, NEW front, Sound(s)
  PROVE  /\ Sound(listPop(s, t, k, xs, front).ks)
         /\ Sound(cmdHDel(s, t, k, xs).ks)
         /\ Sound(cmdSRem(s, t, k, xs).ks)
<1>1. \A x : Live(s, k, t) =>
        /\ Sound(Shrink(s, k, List(x))) /\ Sound(Shrink(s, k, Hash(x)))
        /\ Sound(Shrink(s, k, SetV(x)))
  BY ShrinkSound, Kinds DEF Live
<1>2. Sound(listPop(s, t, k, xs, front).ks)
  BY <1>1 DEF listPop, Result, Fails
<1>3. Sound(cmdHDel(s, t, k, xs).ks)
  BY <1>1 DEF cmdHDel, Result, Fails
<1>4. Sound(cmdSRem(s, t, k, xs).ks)
  BY <1>1 DEF cmdSRem, Result, Fails
<1> QED BY <1>2, <1>3, <1>4

\* The handlers of read-only commands return the keyspace they were given.
LEMMA ReadsUnchanged ==
  ASSUME NEW c, ReadOnly(c), NEW s, NEW t
  PROVE  Dispatch(c, s, t).ks = s
<1>1. CASE c.op \in {"get", "exists", "ttl", "type"}
  BY <1>1 DEF Dispatch, cmdGet, cmdExists, cmdTTL, cmdType, Result, Fails
<1>2. CASE c.op \in {"llen", "hget", "zscore"}
  BY <1>2 DEF Dispatch, cmdLLen, cmdHGet, cmdZScore, Result, Fails
<1>3. CASE c.op = "sinter"
  BY <1>3 DEF Dispatch, cmdSInter, Result, Fails
<1>4. CASE c.op \in {"lrange", "hgetall", "smembers", "zrange"}
  BY <1>4 DEF Dispatch, cmdLRange, cmdHGetAll, cmdSMembers, cmdZRange, Result, Fails
<1> QED BY <1>1, <1>2, <1>3, <1>4 DEF ReadOnly

\* A command leaves a sound keyspace sound.
LEMMA DispatchSound ==
  ASSUME NEW c, Resolved(c), NEW s, NEW t \in Int, Sound(s)
  PROVE  Sound(Dispatch(c, s, t).ks)
<1>1. CASE ReadOnly(c)
  BY <1>1, ReadsUnchanged
<1>2. CASE c.op = "flushdb"
  BY <1>2, FlushSound DEF Dispatch, Result
<1>3. CASE ~ReadOnly(c) /\ c.op # "flushdb"
  <2> DEFINE k == c.keys[1]
  <2> HIDE DEF k
  <2>1. CASE c.op = "set"
    <3>1. Dispatch(c, s, t).ks = Set(s, k, Str(c.xs[1]))
      BY <2>1 DEF Dispatch, cmdSet, Result, k
    <3> QED BY <3>1, SetSound, Kinds
  <2>2. CASE c.op \in {"incr", "decr"}
    <3>1. Dispatch(c, s, t) \in {incrBy(s, t, k, 1), incrBy(s, t, k, -1)}
      BY <2>2 DEF Dispatch, k
    <3> QED BY <3>1, IncrSound
  <2>3. CASE c.op = "del"
    BY <2>3, DelSound DEF Dispatch
  <2>4. CASE c.op \in {"expire", "pexpireat"}
    <3>1. Dispatch(c, s, t) \in {cmdExpire(s, t, k, c.xs), cmdPExpireAt(s, t, k, c.xs)}
      BY <2>4 DEF Dispatch, k
    <3>2. c.xs \in Seq(Int) /\ c.xs # <<>>
      BY <2>4 DEF Resolved
    <3> QED BY <3>1, <3>2, ExpireSound
  <2>5. CASE c.op = "persist"
    <3>1. Dispatch(c, s, t) = cmdPersist(s, t, k)
      BY <2>5 DEF Dispatch, k
    <3> QED BY <3>1, PersistCmdSound
  <2>6. CASE c.op \in {"lpush", "rpush", "hset", "sadd", "zadd"}
    <3>1. Dispatch(c, s, t) \in
            {listPush(s, t, k, c.xs, TRUE), listPush(s, t, k, c.xs, FALSE),
             cmdHSet(s, t, k, c.xs), cmdSAdd(s, t, k, c.xs), cmdZAdd(s, t, k, c.xs)}
      BY <2>6 DEF Dispatch, k
    <3> QED BY <3>1, AdditionsSound
  <2>7. CASE c.op \in {"lpop", "rpop", "hdel", "srem"}
    <3>1. Dispatch(c, s, t) \in
            {listPop(s, t, k, c.xs, TRUE), listPop(s, t, k, c.xs, FALSE),
             cmdHDel(s, t, k, c.xs), cmdSRem(s, t, k, c.xs)}
      BY <2>7 DEF Dispatch, k
    <3> QED BY <3>1, RemovalsSound
  <2>8. CASE c.op \notin {"set", "incr", "decr", "del", "expire", "pexpireat", "persist",
                          "lpush", "rpush", "hset", "sadd", "zadd",
                          "lpop", "rpop", "hdel", "srem"}
    BY <1>3, <2>8, FlushSound DEF Dispatch, ReadOnly, Result
  <2> QED BY <2>1, <2>2, <2>3, <2>4, <2>5, <2>6, <2>7, <2>8
<1> QED BY <1>1, <1>2, <1>3

-----------------------------------------------------------------------------
(* A command leaves the keys that it does not name alone. *)

\* Outside K, s2 has no entry that s1 does not have.
Frame(s1, s2, K) ==
  \A j \in DOMAIN s2.entries \ K : j \in DOMAIN s1.entries /\ s2.entries[j] = s1.entries[j]

\* The keyspace methods change the entry of the key they are given.
LEMMA MethodFrames ==
  ASSUME NEW s, NEW k
  PROVE  /\ Frame(s, s, {k})
         /\ \A v : Frame(s, Set(s, k, v), {k}) /\ Frame(s, Update(s, k, v), {k})
         /\ \A e : Frame(s, SetEntry(s, k, e), {k}) /\ Frame(s, SetExpire(s, k, e), {k})
         /\ Frame(s, Persist(s, k), {k})
         /\ \A K : Frame(s, Delete(s, K), {k})
BY DEF Frame, Set, Update, SetEntry, SetExpire, Persist, Delete, Assign, Without

\* So do the handlers built from them.
LEMMA HandlerFrames ==
  ASSUME NEW s, NEW t, NEW k, NEW xs, NEW flag, NEW delta
  PROVE  /\ Frame(s, cmdSet(s, t, k, xs).ks, {k})
         /\ Frame(s, incrBy(s, t, k, delta).ks, {k})
         /\ Frame(s, expireAt(s, t, k, delta).ks, {k})
         /\ Frame(s, cmdPersist(s, t, k).ks, {k})
         /\ Frame(s, listPush(s, t, k, xs, flag).ks, {k})
         /\ Frame(s, listPop(s, t, k, xs, flag).ks, {k})
         /\ Frame(s, cmdHSet(s, t, k, xs).ks, {k})
         /\ Frame(s, cmdHDel(s, t, k, xs).ks, {k})
         /\ Frame(s, cmdSAdd(s, t, k, xs).ks, {k})
         /\ Frame(s, cmdSRem(s, t, k, xs).ks, {k})
         /\ Frame(s, cmdZAdd(s, t, k, xs).ks, {k})
<1> USE MethodFrames DEF Result, Fails
<1>1. \A v : Frame(s, Store(s, k, t, v), {k}) /\ Frame(s, Shrink(s, k, v), {k})
  BY DEF Store, Shrink
<1>2. Frame(s, cmdSet(s, t, k, xs).ks, {k})
  BY DEF cmdSet
<1>3. Frame(s, incrBy(s, t, k, delta).ks, {k})
  BY DEF incrBy
<1>4. Frame(s, expireAt(s, t, k, delta).ks, {k})
  BY DEF expireAt
<1>5. Frame(s, cmdPersist(s, t, k).ks, {k})
  BY DEF cmdPersist
<1>6. Frame(s, listPush(s, t, k, xs, flag).ks, {k})
  BY <1>1 DEF listPush
<1>7. Frame(s, listPop(s, t, k, xs, flag).ks, {k})
  BY <1>1 DEF listPop
<1>8. Frame(s, cmdHSet(s, t, k, xs).ks, {k}) /\ Frame(s, cmdHDel(s, t, k, xs).ks, {k})
  BY <1>1 DEF cmdHSet, cmdHDel
<1>9. Frame(s, cmdSAdd(s, t, k, xs).ks, {k}) /\ Frame(s, cmdSRem(s, t, k, xs).ks, {k})
  BY <1>1 DEF cmdSAdd, cmdSRem
<1>10. Frame(s, cmdZAdd(s, t, k, xs).ks, {k})
  BY <1>1 DEF cmdZAdd
<1> QED BY <1>2, <1>3, <1>4, <1>5, <1>6, <1>7, <1>8, <1>9, <1>10

\* And so does every command: the entries of other keys stay or, under FLUSHDB
\* and DEL, go.
LEMMA DispatchFrame ==
  ASSUME NEW K, NEW c, Resolved(c), c.keys \in Seq(K), NEW s, NEW t
  PROVE  Frame(s, Dispatch(c, s, t).ks, Elems(c.keys))
<1>1. CASE ReadOnly(c)
  BY <1>1, ReadsUnchanged DEF Frame
<1>2. CASE c.op \in {"flushdb", "select", "plain"}
  BY <1>2 DEF Dispatch, Result, Flush, EmptyKeyspace, Frame
<1>3. CASE c.op = "del"
  BY <1>3 DEF Dispatch, cmdDel, Result, Delete, Without, Frame
<1>4. CASE ~ReadOnly(c) /\ c.op \notin {"flushdb", "select", "plain", "del"}
  <2> DEFINE k == c.keys[1]
  <2>1. {k} \subseteq Elems(c.keys)
    BY <1>4 DEF Resolved, Elems
  <2>2. Frame(s, Dispatch(c, s, t).ks, {k})
    <3> HIDE DEF k
    <3>1. CASE c.op \in {"set", "incr", "decr", "expire", "pexpireat", "persist"}
      <4>1. \/ Dispatch(c, s, t) = cmdSet(s, t, k, c.xs)
            \/ \E d : Dispatch(c, s, t) = incrBy(s, t, k, d)
            \/ \E at : Dispatch(c, s, t) = expireAt(s, t, k, at)
            \/ Dispatch(c, s, t) = cmdPersist(s, t, k)
            \/ Dispatch(c, s, t) = Fails(s)
        BY <3>1 DEF Dispatch, cmdExpire, cmdPExpireAt, k
      <4>2. Frame(s, Fails(s).ks, {k})
        BY DEF Fails, Frame, Result
      <4> QED BY <4>1, <4>2, HandlerFrames
    <3>2. CASE c.op \in {"lpush", "rpush", "hset", "sadd", "zadd"}
      <4>1. Dispatch(c, s, t) \in
              {listPush(s, t, k, c.xs, TRUE), listPush(s, t, k, c.xs, FALSE),
               cmdHSet(s, t, k, c.xs), cmdSAdd(s, t, k, c.xs), cmdZAdd(s, t, k, c.xs)}
        BY <3>2 DEF Dispatch, k
      <4> QED BY <4>1, HandlerFrames
    <3>3. CASE c.op \in {"lpop", "rpop", "hdel", "srem"}
      <4>1. Dispatch(c, s, t) \in
              {listPop(s, t, k, c.xs, TRUE), listPop(s, t, k, c.xs, FALSE),
               cmdHDel(s, t, k, c.xs), cmdSRem(s, t, k, c.xs)}
        BY <3>3 DEF Dispatch, k
      <4> QED BY <4>1, HandlerFrames
    <3>4. CASE c.op \notin {"set", "incr", "decr", "expire", "pexpireat", "persist",
                            "lpush", "rpush", "hset", "sadd", "zadd",
                            "lpop", "rpop", "hdel", "srem"}
      BY <1>4, <3>4 DEF Dispatch, ReadOnly, Result, Flush, EmptyKeyspace, Frame
    <3> QED BY <3>1, <3>2, <3>3, <3>4
  <2> QED BY <2>1, <2>2 DEF Frame
<1> QED BY <1>1, <1>2, <1>3, <1>4

\* Therefore a keyspace whose keys are in K keeps them there.
LEMMA DispatchWithin ==
  ASSUME NEW K, NEW c, Resolved(c), c.keys \in Seq(K), NEW s, NEW t, DOMAIN s.entries \subseteq K
  PROVE  DOMAIN Dispatch(c, s, t).ks.entries \subseteq K
<1>1. Elems(c.keys) \subseteq K
  BY DEF Elems
<1> QED BY <1>1, DispatchFrame DEF Frame

-----------------------------------------------------------------------------
(* A command that replies with an error changes nothing. *)

\* A handler that fails returns the keyspace it was given.
LEMMA ErrorsUnchanged ==
  ASSUME NEW c, NEW s, NEW t, Dispatch(c, s, t).error
  PROVE  Dispatch(c, s, t).ks = s
<1> USE DEF Result, Fails
<1>1. CASE ReadOnly(c)
  BY <1>1, ReadsUnchanged
<1>2. CASE c.op \in {"incr", "decr"}
  BY <1>2 DEF Dispatch, incrBy
<1>3. CASE c.op \in {"set", "del", "expire", "pexpireat", "persist"}
  BY <1>3 DEF Dispatch, cmdSet, cmdDel, cmdExpire, cmdPExpireAt, expireAt, cmdPersist
<1>4. CASE c.op \in {"lpush", "rpush"}
  BY <1>4 DEF Dispatch, listPush
<1>5. CASE c.op \in {"lpop", "rpop"}
  BY <1>5 DEF Dispatch, listPop
<1>6. CASE c.op \in {"hset", "sadd", "zadd"}
  BY <1>6 DEF Dispatch, cmdHSet, cmdSAdd, cmdZAdd
<1>7. CASE c.op \in {"hdel", "srem"}
  BY <1>7 DEF Dispatch, cmdHDel, cmdSRem
<1>8. CASE /\ ~ReadOnly(c)
           /\ c.op \notin {"set", "incr", "decr", "del", "expire", "pexpireat", "persist",
                           "lpush", "rpush", "hset", "sadd", "zadd",
                           "lpop", "rpop", "hdel", "srem"}
  BY <1>8 DEF Dispatch, ReadOnly
<1> QED BY <1>1, <1>2, <1>3, <1>4, <1>5, <1>6, <1>7, <1>8

-----------------------------------------------------------------------------
(* What is stored: no empty collection, and no number beyond int64. *)

\* A value that may be stored.
Fit(v) ==
  /\ v.kind = "string" => v.str = Text \/ v.str \in MinInt .. MaxInt
  /\ v.kind = "list" => v.list \in Seq(Int)
  /\ v.kind = "set" => IsFiniteSet(v.set)
  /\ ~Empty(v)

\* All values of a keyspace, expired ones too: the inductive invariant.
AllFit(s) == \A k \in DOMAIN s.entries : Fit(s.entries[k].value)

-----------------------------------------------------------------------------
(* The methods of a keyspace. *)

\* Set, Update and SetEntry store what they are given.
LEMMA StoresFit ==
  ASSUME NEW s, NEW k, NEW v, AllFit(s), Fit(v)
  PROVE  /\ AllFit(Set(s, k, v)) /\ AllFit(Update(s, k, v))
         /\ \A at : AllFit(SetEntry(s, k, Entry(v, at)))
         /\ \A t : AllFit(Store(s, k, t, v))
<1>1. \A at : AllFit([entries |-> Assign(s.entries, k, Entry(v, at)), withTTL |-> s.withTTL])
  BY DEF AllFit, Assign, Entry
<1>2. \A at, w : AllFit([entries |-> Assign(s.entries, k, Entry(v, at)), withTTL |-> w])
  BY <1>1 DEF AllFit
<1> QED BY <1>2 DEF Set, Update, SetEntry, Store

\* SetExpire and Persist leave the value of a stored key as it is.
LEMMA DeadlinesFit ==
  ASSUME NEW s, NEW k \in DOMAIN s.entries, NEW at, AllFit(s)
  PROVE  AllFit(SetExpire(s, k, at)) /\ AllFit(Persist(s, k))
<1>1. Fit(s.entries[k].value)
  BY DEF AllFit
<1>2. AllFit(Persist(s, k))
  BY <1>1, StoresFit DEF Persist
<1>3. AllFit(SetEntry(s, k, Entry(s.entries[k].value, at)))
  BY <1>1, StoresFit
<1> QED BY <1>2, <1>3 DEF SetExpire, SetEntry, AllFit

\* Delete, Flush and SampleExpired only take entries away.
LEMMA RemovesFit ==
  ASSUME NEW s, AllFit(s)
  PROVE  /\ \A K : AllFit(Delete(s, K))
         /\ AllFit(Flush(s))
         /\ \A S, t : AllFit(SampleExpired(s, S, t))
BY DEF AllFit, Delete, Flush, EmptyKeyspace, SampleExpired, Without

\* Shrink stores what is left only if something is.
LEMMA ShrinkFit ==
  ASSUME NEW s, NEW k, NEW v, AllFit(s), Empty(v) \/ Fit(v)
  PROVE  AllFit(Shrink(s, k, v))
BY StoresFit, RemovesFit DEF Shrink

-----------------------------------------------------------------------------
(* The handlers. *)

\* What each kind of value needs.
LEMMA BuildsFit ==
  /\ \A n \in (MinInt .. MaxInt) \cup {Text} : Fit(Str(n))
  /\ \A l \in Seq(Int) : l = <<>> \/ Fit(List(l))
  /\ \A x : IsFiniteSet(x) => x = {} \/ Fit(SetV(x))
  /\ \A h : DOMAIN h # {} => Fit(Hash(h)) /\ Fit(ZSet(h))
<1>1. \A n \in (MinInt .. MaxInt) \cup {Text} : Fit(Str(n))
  BY DEF Fit, Empty, Str
<1>2. \A l \in Seq(Int) : l = <<>> \/ Fit(List(l))
  BY DEF Fit, Empty, List
<1>3. \A x : IsFiniteSet(x) => x = {} \/ Fit(SetV(x))
  BY DEF Fit, Empty, SetV
<1>4. \A h : DOMAIN h # {} => Fit(Hash(h)) /\ Fit(ZSet(h))
  <2> SUFFICES ASSUME NEW h, DOMAIN h # {} PROVE Fit(Hash(h)) /\ Fit(ZSet(h))
    OBVIOUS
  <2>1. Hash(h).kind = "hash" /\ Hash(h).hash = h /\ ZSet(h).kind = "zset" /\ ZSet(h).zset = h
    BY DEF Hash, ZSet
  <2>2. ~Empty(Hash(h)) /\ ~Empty(ZSet(h))
    BY <2>1 DEF Empty
  <2> QED BY <2>1, <2>2 DEF Fit
<1> QED BY <1>1, <1>2, <1>3, <1>4

\* incrBy checks for overflow before it adds.
LEMMA IncrFit ==
  ASSUME NEW s, NEW t, NEW k, NEW delta \in {1, -1}, AllFit(s)
  PROVE  AllFit(incrBy(s, t, k, delta).ks)
<1> DEFINE cur == Held(s, k, t, Str(0)).str
           new == Str(cur + delta)
           ok  == /\ ~WrongKind(s, k, t, "string") /\ cur # Text
                  /\ ~((delta > 0 /\ cur > MaxInt - delta) \/ (delta < 0 /\ cur < MinInt - delta))
<1>1. \/ incrBy(s, t, k, delta).ks = s
      \/ /\ ok
         /\ incrBy(s, t, k, delta).ks \in
              {SetEntry(s, k, Entry(new, s.entries[k].expireAt)), Set(s, k, new)}
  BY DEF incrBy, Result, Fails
<1>2. ASSUME ok PROVE Fit(new)
  <2>1. cur \in MinInt .. MaxInt
    <3>1. CASE Live(s, k, t)
      BY <1>2, <3>1 DEF Held, WrongKind, Live, AllFit, Fit
    <3>2. CASE ~Live(s, k, t)
      <4>1. cur = 0
        BY <3>2 DEF Held, Str
      <4> QED BY SMT, <4>1, CommandsAssumption
    <3> QED BY <3>1, <3>2
  <2> HIDE DEF cur
  <2>2. cur + delta \in MinInt .. MaxInt
    BY SMT, <1>2, <2>1, CommandsAssumption
  <2> QED BY <2>2, BuildsFit
<1> HIDE DEF new, ok
<1> QED BY <1>1, <1>2, StoresFit

\* What the handlers find stored under a live key of the right kind.
LEMMA HeldFit ==
  ASSUME NEW s, NEW t, NEW k, AllFit(s), ~WrongKind(s, k, t, "list")
  PROVE  /\ Held(s, k, t, List(<<>>)).list \in Seq(Int)
         /\ Live(s, k, t) => s.entries[k].value.list \in Seq(Int)
BY DEF Held, WrongKind, Live, AllFit, Fit, List

\* LPUSH and RPUSH.
LEMMA PushFit ==
  ASSUME NEW s, NEW t, NEW k, NEW xs \in Seq(Int), xs # <<>>, NEW front, AllFit(s)
  PROVE  AllFit(listPush(s, t, k, xs, front).ks)
<1> DEFINE l == Held(s, k, t, List(<<>>)).list
           m == IF front THEN Reversed(xs) \o l ELSE l \o xs
<1>1. \/ listPush(s, t, k, xs, front).ks = s
      \/ /\ ~WrongKind(s, k, t, "list")
         /\ listPush(s, t, k, xs, front).ks = Store(s, k, t, List(m))
  BY DEF listPush, Result, Fails
<1>2. ASSUME ~WrongKind(s, k, t, "list") PROVE m \in Seq(Int) /\ m # <<>>
  <2>1. l \in Seq(Int)
    BY <1>2, HeldFit
  <2>2. Reversed(xs) \in Seq(Int) /\ Len(Reversed(xs)) = Len(xs) /\ Len(xs) > 0
    BY SMT DEF Reversed
  <2> HIDE DEF l
  <2>3. \A a, b \in Seq(Int) : Len(a) > 0 \/ Len(b) > 0 => a \o b \in Seq(Int) /\ a \o b # <<>>
    BY SMT
  <2> QED BY <2>1, <2>2, <2>3
<1> HIDE DEF m
<1> QED BY <1>1, <1>2, BuildsFit, StoresFit

\* LPOP and RPOP.
LEMMA PopFit ==
  ASSUME NEW s, NEW t, NEW k, NEW xs \in Seq(Int), NEW front, AllFit(s)
  PROVE  AllFit(listPop(s, t, k, xs, front).ks)
<1> DEFINE count == IF xs = <<>> THEN 1 ELSE xs[1]
           l     == s.entries[k].value.list
           n     == Least(count, Len(l))
           rest  == IF front THEN SubSeq(l, n + 1, Len(l)) ELSE SubSeq(l, 1, Len(l) - n)
<1>1. \/ listPop(s, t, k, xs, front).ks = s
      \/ /\ ~(count < 0) /\ Live(s, k, t) /\ ~WrongKind(s, k, t, "list")
         /\ listPop(s, t, k, xs, front).ks = Shrink(s, k, List(rest))
  BY DEF listPop, Result, Fails
<1>2. ASSUME ~(count < 0), Live(s, k, t), ~WrongKind(s, k, t, "list") PROVE rest \in Seq(Int)
  <2>1. l \in Seq(Int)
    BY <1>2, HeldFit
  <2>2. count \in Int
    BY SMT
  <2> HIDE DEF l, count
  <2>3. n \in 0 .. Len(l)
    BY SMT, <1>2, <2>1, <2>2 DEF Least
  <2> HIDE DEF n
  <2>4. SubSeq(l, n + 1, Len(l)) \in Seq(Int) /\ SubSeq(l, 1, Len(l) - n) \in Seq(Int)
    BY SMT, <2>1, <2>3
  <2> QED BY <2>4
<1> HIDE DEF rest
<1>3. ASSUME rest \in Seq(Int) PROVE Empty(List(rest)) \/ Fit(List(rest))
  BY <1>3, BuildsFit DEF Empty, List
<1> QED BY <1>1, <1>2, <1>3, ShrinkFit

\* A command has finitely many arguments.
LEMMA FiniteElems ==
  ASSUME NEW xs \in Seq(Int)
  PROVE  IsFiniteSet(Elems(xs))
<1>1. IsFiniteSet(1 .. Len(xs))
  BY FS_Interval
<1> DEFINE f == [i \in 1 .. Len(xs) |-> xs[i]]
<1>2. f \in Surjection(1 .. Len(xs), Elems(xs))
  BY DEF Elems, Surjection
<1> QED BY <1>1, <1>2, FS_Surjection

\* The set that SADD or SREM finds.
LEMMA SetFinite ==
  ASSUME NEW s, NEW t, NEW k, AllFit(s), ~WrongKind(s, k, t, "set")
  PROVE  /\ IsFiniteSet(Held(s, k, t, SetV({})).set)
         /\ Live(s, k, t) => IsFiniteSet(s.entries[k].value.set)
BY FS_EmptySet DEF Held, WrongKind, Live, AllFit, Fit, SetV

\* HSET, SADD and ZADD have something to add.
LEMMA AddFit ==
  ASSUME NEW s, NEW t, NEW k, NEW xs \in Seq(Int), xs # <<>>, AllFit(s)
  PROVE  /\ AllFit(cmdHSet(s, t, k, xs).ks)
         /\ AllFit(cmdSAdd(s, t, k, xs).ks)
         /\ AllFit(cmdZAdd(s, t, k, xs).ks)
<1>0. 1 \in 1 .. Len(xs) /\ 1 % 2 = 1
  BY SMT
<1>1. xs[1] \in Firsts(xs) /\ xs[1] \in Elems(xs)
  BY <1>0 DEF Firsts, Elems
<1>2. \A m : DOMAIN Override(m, xs) # {}
  BY <1>1 DEF Override
<1>3. \A m : /\ AllFit(Store(s, k, t, Hash(Override(m, xs))))
             /\ AllFit(Store(s, k, t, ZSet(Override(m, xs))))
  BY <1>2, BuildsFit, StoresFit
<1>4. AllFit(cmdHSet(s, t, k, xs).ks)
  BY <1>3 DEF cmdHSet, Result, Fails
<1>5. AllFit(cmdSAdd(s, t, k, xs).ks)
  <2> DEFINE m == Held(s, k, t, SetV({})).set
  <2>1. ~WrongKind(s, k, t, "set") => IsFiniteSet(m \cup Elems(xs))
    BY SetFinite, FiniteElems, FS_Union
  <2>2. ~WrongKind(s, k, t, "set") => AllFit(Store(s, k, t, SetV(m \cup Elems(xs))))
    BY <1>1, <2>1, BuildsFit, StoresFit
  <2> QED BY <2>2 DEF cmdSAdd, Result, Fails
<1>6. AllFit(cmdZAdd(s, t, k, xs).ks)
  BY <1>3 DEF cmdZAdd, Result, Fails
<1> QED BY <1>4, <1>5, <1>6

\* HDEL and SREM.
LEMMA RemoveFit ==
  ASSUME NEW s, NEW t, NEW k, NEW xs, AllFit(s)
  PROVE  AllFit(cmdHDel(s, t, k, xs).ks) /\ AllFit(cmdSRem(s, t, k, xs).ks)
<1>1. \A x : IsFiniteSet(x) => Empty(SetV(x)) \/ Fit(SetV(x))
  BY BuildsFit DEF Empty, SetV
<1>2. \A h : Empty(Hash(h)) \/ Fit(Hash(h))
  BY BuildsFit DEF Empty, Hash
<1>3. /\ \A x : IsFiniteSet(x) => AllFit(Shrink(s, k, SetV(x)))
      /\ \A h : AllFit(Shrink(s, k, Hash(h)))
  BY <1>1, <1>2, ShrinkFit
<1>4. AllFit(cmdHDel(s, t, k, xs).ks)
  BY <1>3 DEF cmdHDel, Result, Fails
<1>5. AllFit(cmdSRem(s, t, k, xs).ks)
  <2> DEFINE m == s.entries[k].value.set
  <2>1. Live(s, k, t) /\ ~WrongKind(s, k, t, "set") => IsFiniteSet(m \ Elems(xs))
    BY SetFinite, FS_Difference
  <2> QED BY <1>3, <2>1 DEF cmdSRem, Result, Fails
<1> QED BY <1>4, <1>5

\* Every command.
LEMMA DispatchFit ==
  ASSUME NEW c, Resolved(c), NEW s, NEW t, AllFit(s)
  PROVE  AllFit(Dispatch(c, s, t).ks)
<1> DEFINE k == c.keys[1]
<1>0. /\ c.xs \in Seq(Int)
      /\ c.op \in {"set", "lpush", "rpush", "hset", "sadd", "zadd"} => c.xs # <<>>
      /\ c.op = "set" => c.xs[1] \in (MinInt .. MaxInt) \cup {Text}
  BY DEF Resolved
<1>1. CASE ReadOnly(c)
  BY <1>1, ReadsUnchanged
<1>2. CASE c.op = "set"
  <2>1. Dispatch(c, s, t).ks = Set(s, k, Str(c.xs[1]))
    BY <1>2 DEF Dispatch, cmdSet, Result
  <2> QED BY <1>0, <1>2, <2>1, BuildsFit, StoresFit
<1>3. CASE c.op \in {"incr", "decr"}
  <2>1. Dispatch(c, s, t) \in {incrBy(s, t, k, 1), incrBy(s, t, k, -1)}
    BY <1>3 DEF Dispatch
  <2> QED BY <2>1, IncrFit
<1>4. CASE c.op \in {"del", "expire", "pexpireat", "persist"}
  <2>1. \/ Dispatch(c, s, t).ks = s
        \/ \E K : Dispatch(c, s, t).ks = Delete(s, K)
        \/ Live(s, k, t) /\ \E at : Dispatch(c, s, t).ks = SetExpire(s, k, at)
        \/ Live(s, k, t) /\ Dispatch(c, s, t).ks = Persist(s, k)
    BY <1>4 DEF Dispatch, cmdDel, cmdExpire, cmdPExpireAt, expireAt, cmdPersist, Result, Fails
  <2> QED BY <2>1, RemovesFit, DeadlinesFit DEF Live
<1>5. CASE c.op \in {"lpush", "rpush"}
  <2>1. Dispatch(c, s, t) \in {listPush(s, t, k, c.xs, TRUE), listPush(s, t, k, c.xs, FALSE)}
    BY <1>5 DEF Dispatch
  <2> QED BY <1>0, <1>5, <2>1, PushFit
<1>6. CASE c.op \in {"lpop", "rpop"}
  <2>1. Dispatch(c, s, t) \in {listPop(s, t, k, c.xs, TRUE), listPop(s, t, k, c.xs, FALSE)}
    BY <1>6 DEF Dispatch
  <2> QED BY <1>0, <2>1, PopFit
<1>7. CASE c.op \in {"hset", "sadd", "zadd"}
  <2>1. Dispatch(c, s, t) \in
          {cmdHSet(s, t, k, c.xs), cmdSAdd(s, t, k, c.xs), cmdZAdd(s, t, k, c.xs)}
    BY <1>7 DEF Dispatch
  <2> QED BY <1>0, <1>7, <2>1, AddFit
<1>8. CASE c.op \in {"hdel", "srem"}
  <2>1. Dispatch(c, s, t) \in {cmdHDel(s, t, k, c.xs), cmdSRem(s, t, k, c.xs)}
    BY <1>8 DEF Dispatch
  <2> QED BY <2>1, RemoveFit
<1>9. CASE /\ ~ReadOnly(c)
           /\ c.op \notin {"set", "incr", "decr", "del", "expire", "pexpireat", "persist",
                           "lpush", "rpush", "hset", "sadd", "zadd",
                           "lpop", "rpop", "hdel", "srem"}
  <2>1. Dispatch(c, s, t).ks = Flush(s)
    BY <1>9 DEF Dispatch, ReadOnly, Result
  <2> QED BY <2>1, RemovesFit
<1> QED BY <1>1, <1>2, <1>3, <1>4, <1>5, <1>6, <1>7, <1>8, <1>9

-----------------------------------------------------------------------------
(* SINTER. *)

\* A set of natural numbers that is not empty has a least element.
LEMMA LeastNumber ==
  ASSUME NEW T \in SUBSET Nat, T # {}
  PROVE  \E x \in T : \A y \in T : x <= y
<1>1. PICK x \in T : \A y \in T : ~(<<y, x>> \in OpToRel(<, Nat))
  BY WFMin, NatLessThanWellFounded
<1>2. ASSUME NEW y \in T PROVE x <= y
  <2>1. x \in Nat /\ y \in Nat /\ ~(<<y, x>> \in OpToRel(<, Nat))
    BY <1>1
  <2> QED BY SMT, <2>1 DEF OpToRel
<1> QED BY <1>2

\* Among finitely large sets there is a first smallest one.
LEMMA FirstSmallest ==
  ASSUME NEW n \in Nat \ {0}, NEW size \in [1 .. n -> Nat]
  PROVE  \E i \in 1 .. n : \A j \in 1 .. n :
           IF j < i THEN size[i] < size[j] ELSE size[i] <= size[j]
<1> DEFINE T == {size[i] : i \in 1 .. n}
<1>1. T \in SUBSET Nat /\ T # {}
  <2>1. 1 \in 1 .. n
    BY SMT
  <2> QED BY <2>1
<1>2. PICK x \in T : \A y \in T : x <= y
  BY <1>1, LeastNumber
<1> DEFINE I == {i \in 1 .. n : size[i] = x}
<1>3. I \in SUBSET Nat /\ I # {}
  BY SMT, <1>2
<1>4. PICK i \in I : \A j \in I : i <= j
  BY <1>3, LeastNumber
<1>5. ASSUME NEW j \in 1 .. n PROVE IF j < i THEN size[i] < size[j] ELSE size[i] <= size[j]
  <2>1. x <= size[j] /\ size[i] = x /\ i \in 1 .. n
    BY <1>2, <1>4
  <2>2. j < i => size[j] # x
    <3>1. ASSUME size[j] = x PROVE i <= j
      BY <3>1, <1>4
    <3> QED BY SMT, <3>1, <2>1
  <2> QED BY SMT, <2>1, <2>2
<1> QED BY <1>4, <1>5

\* The members that the sets of all keys share.
Shared(s, keys) ==
  {m \in UNION {s.entries[k].value.set : k \in Elems(keys)} :
     \A k \in Elems(keys) : m \in s.entries[k].value.set}

\* cmdSInter replies with the intersection when every key holds a live set: it
\* finds a smallest set, and loses nothing by starting from it.
LEMMA SInterExact ==
  ASSUME NEW K, NEW keys \in Seq(K), keys # <<>>, NEW s, NEW t, AllFit(s),
         \A k \in Elems(keys) : Live(s, k, t) /\ s.entries[k].value.kind = "set"
  PROVE  cmdSInter(s, t, keys).is = <<Shared(s, keys)>>
<1> DEFINE n == Len(keys)
           v(i) == s.entries[keys[i]].value.set
           first(i) == \A j \in 1 .. n : IF j < i THEN Cardinality(v(i)) < Cardinality(v(j))
                                         ELSE Cardinality(v(i)) <= Cardinality(v(j))
           smallest == CHOOSE i \in 1 .. n : first(i)
<1>1. n \in Nat \ {0}
  OBVIOUS
<1>2. \A i \in 1 .. n : keys[i] \in Elems(keys)
  BY DEF Elems
<1>3. \A i \in 1 .. n : Cardinality(v(i)) \in Nat
  <2> SUFFICES ASSUME NEW i \in 1 .. n PROVE Cardinality(v(i)) \in Nat
    OBVIOUS
  <2>1. IsFiniteSet(v(i))
    BY <1>2 DEF Live, AllFit, Fit
  <2> QED BY <2>1, FS_CardinalityType
<1>4. smallest \in 1 .. n
  <2> DEFINE size == [i \in 1 .. n |-> Cardinality(v(i))]
  <2> HIDE DEF n, v
  <2>1. size \in [1 .. n -> Nat]
    BY <1>3
  <2>2. PICK i \in 1 .. n : \A j \in 1 .. n :
          IF j < i THEN size[i] < size[j] ELSE size[i] <= size[j]
    BY <1>1, <2>1, FirstSmallest
  <2>3. first(i)
    BY <2>2
  <2> HIDE DEF first
  <2> QED BY <2>3
<1>5. {i \in 1 .. n : ~Live(s, keys[i], t) \/ WrongKind(s, keys[i], t, "set")} = {}
  BY <1>2 DEF WrongKind
<1>6. cmdSInter(s, t, keys).is =
        <<{m \in v(smallest) : \A i \in 1 .. n \ {smallest} : m \in v(i)}>>
  BY <1>5, Zenon DEF cmdSInter, Result
<1> HIDE DEF smallest
<1>7. {m \in v(smallest) : \A i \in 1 .. n \ {smallest} : m \in v(i)}
        = Shared(s, keys)
  BY <1>4 DEF Elems, Shared
<1> QED BY <1>6, <1>7
=============================================================================
