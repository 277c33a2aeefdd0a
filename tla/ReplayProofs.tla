---------------------------- MODULE ReplayProofs ----------------------------
(***************************************************************************)
(* What recover makes of a snapshot and of a log of any length.  First the *)
(* recursive function replaySegments: it exists, and a record appended to  *)
(* a log is one more step of its replay.  Then the databases it yields are *)
(* sound (RecoveryInv), and as long as no deadline has passed they are     *)
(* those in memory (ExactInv).  Both invariants speak of a restart at any  *)
(* later time: the clock moves on between a command and its replay.        *)
(***************************************************************************)
EXTENDS Replay, CommandsProofs

USE Zenon, SMT

\* f gives the states of a replay, up to record n.
Prefix(f, start, records, t, n) ==
  f = [i \in 0 .. n |-> IF i = 0 THEN start ELSE replay(f[i - 1], records[i], t)]

\* Such states exist for a log of any length.
LEMMA PrefixExists ==
  ASSUME NEW start, NEW records, NEW t, NEW n \in Nat
  PROVE  \E f : Prefix(f, start, records, t, n)
<1> DEFINE Bad == {m \in Nat : ~ \E f : Prefix(f, start, records, t, m)}
<1> SUFFICES ASSUME Bad # {} PROVE FALSE
  OBVIOUS
<1>1. PICK m \in Bad : \A k \in Bad : m <= k
  BY LeastNumber
<1>2. m # 0
  <2> DEFINE f == [i \in 0 .. 0 |-> start]
  <2>1. Prefix(f, start, records, t, 0)
    BY SMT DEF Prefix
  <2> QED BY <2>1
<1>3. m - 1 \in Nat /\ m - 1 \notin Bad
  <2>1. m \in Nat
    OBVIOUS
  <2>2. m - 1 \in Nat /\ ~(m <= m - 1)
    BY SMT, <1>2, <2>1
  <2> QED BY <1>1, <2>2
<1>4. PICK f : Prefix(f, start, records, t, m - 1)
  BY <1>3
<1> DEFINE g == [i \in 0 .. m |-> IF i = m THEN replay(f[m - 1], records[m], t) ELSE f[i]]
<1>5. Prefix(g, start, records, t, m)
  <2>1. ASSUME NEW i \in 0 .. m
        PROVE  g[i] = IF i = 0 THEN start ELSE replay(g[i - 1], records[i], t)
    <3>1. CASE i = m
      <4>1. g[m - 1] = f[m - 1]
        BY SMT, <1>3
      <4> QED BY <1>2, <3>1, <4>1
    <3>2. CASE i # m
      <4>1. i \in 0 .. m - 1 /\ (i # 0 => i - 1 \in 0 .. m /\ i - 1 # m)
        BY SMT, <1>3, <3>2
      <4>2. f[i] = IF i = 0 THEN start ELSE replay(f[i - 1], records[i], t)
        BY <1>4, <4>1 DEF Prefix
      <4> QED BY <3>2, <4>1, <4>2
    <3> QED BY <3>1, <3>2
  <2> QED BY <2>1 DEF Prefix
<1> QED BY <1>5

\* They are determined by the records.
LEMMA PrefixUnique ==
  ASSUME NEW start, NEW r1, NEW r2, NEW t, NEW m \in Nat, NEW n \in Nat, m <= n,
         \A i \in 1 .. m : r1[i] = r2[i],
         NEW f, NEW g, Prefix(f, start, r1, t, m), Prefix(g, start, r2, t, n)
  PROVE  f[m] = g[m]
<1> DEFINE Bad == {i \in 0 .. m : f[i] # g[i]}
<1> SUFFICES ASSUME Bad # {} PROVE FALSE
  BY SMT
<1>0. Bad \in SUBSET Nat
  BY SMT
<1>1. PICK k \in Bad : \A i \in Bad : k <= i
  BY <1>0, LeastNumber
<1>2. k \in 0 .. m /\ f[k] # g[k]
  OBVIOUS
<1>3. f[k] = IF k = 0 THEN start ELSE replay(f[k - 1], r1[k], t)
  BY <1>2 DEF Prefix
<1>4. g[k] = IF k = 0 THEN start ELSE replay(g[k - 1], r2[k], t)
  <2>1. k \in 0 .. n
    BY SMT, <1>2
  <2> QED BY <2>1 DEF Prefix
<1>5. k # 0
  BY <1>2, <1>3, <1>4
<1>6. k - 1 \in 0 .. m /\ ~(k <= k - 1) /\ k \in 1 .. m
  BY SMT, <1>2, <1>5
<1>7. f[k - 1] = g[k - 1]
  BY <1>1, <1>6
<1> QED BY <1>2, <1>3, <1>4, <1>5, <1>6, <1>7

\* replaySegments is the last of them.
LEMMA StreamPrefix ==
  ASSUME NEW start, NEW records, Len(records) \in Nat, NEW t
  PROVE  \E f : /\ Prefix(f, start, records, t, Len(records))
                /\ replaySegments(start, records, t) = f[Len(records)]
<1> DEFINE h == CHOOSE f : Prefix(f, start, records, t, Len(records))
<1>1. Prefix(h, start, records, t, Len(records))
  BY PrefixExists, Zenon
<1>2. replaySegments(start, records, t) = h[Len(records)]
  BY Zenon DEF replaySegments, Prefix
<1> QED BY <1>1, <1>2

\* Nothing is replayed from an empty log.
LEMMA StreamEmpty ==
  ASSUME NEW start, NEW t
  PROVE  replaySegments(start, <<>>, t) = start
<1>1. Len(<<>>) = 0
  OBVIOUS
<1>2. PICK f : Prefix(f, start, <<>>, t, 0) /\ replaySegments(start, <<>>, t) = f[0]
  BY <1>1, StreamPrefix
<1> QED BY SMT, <1>2 DEF Prefix

\* The record at the end of a log is replayed after all the others.
LEMMA StreamAppend ==
  ASSUME NEW start, NEW R, NEW records \in Seq(R), NEW rec \in R, NEW t
  PROVE  replaySegments(start, Append(records, rec), t)
           = replay(replaySegments(start, records, t), rec, t)
<1> DEFINE n == Len(records)
           more == Append(records, rec)
<1>1. n \in Nat /\ Len(more) = n + 1 /\ more[n + 1] = rec /\ \A i \in 1 .. n : records[i] = more[i]
  BY SMT
<1>2. PICK f : Prefix(f, start, records, t, n) /\ replaySegments(start, records, t) = f[n]
  BY <1>1, StreamPrefix
<1>3. PICK g : Prefix(g, start, more, t, n + 1) /\ replaySegments(start, more, t) = g[n + 1]
  <2>1. Len(more) \in Nat
    BY SMT, <1>1
  <2> QED BY <1>1, <2>1, StreamPrefix
<1> HIDE DEF n, more
<1>4. f[n] = g[n]
  <2>1. n + 1 \in Nat /\ n <= n + 1
    BY SMT, <1>1
  <2> QED BY <1>1, <1>2, <1>3, <2>1, PrefixUnique
<1>5. g[n + 1] = replay(g[n], more[n + 1], t)
  <2>1. n + 1 \in 0 .. n + 1 /\ n + 1 # 0 /\ (n + 1) - 1 = n
    BY SMT, <1>1
  <2> QED BY <1>3, <2>1 DEF Prefix
<1> QED BY <1>1, <1>2, <1>3, <1>4, <1>5 DEF more

-----------------------------------------------------------------------------
(* Types: what is in memory, in the log and in the snapshot, and what      *)
(* recovery makes of it at any time.                                       *)

\* Databases whose keyspaces are sound and hold known keys.
GoodDBs(D) ==
  /\ D = [d \in DBs |-> D[d]]
  /\ \A d \in DBs : Sound(D[d]) /\ DOMAIN D[d].entries \subseteq Keys

\* A session over such databases.
GoodState(s) == GoodDBs(s.dbs) /\ s.index \in DBs

\* The commands that are logged, and the records of the log.
LoggedCmds ==
  {c \in Cmds \cup {persistArgs(x, t) : x \in Cmds, t \in Int} :
     Resolved(c) /\ c.keys \in Seq(Keys) /\ c.op # "expire"}

LogRecords == [db : DBs, cmd : LoggedCmds]

\* What a restart at time t would yield, with its session.
Restart(t) == replaySegments(State([d \in DBs |-> Restored(snap[d])], 0, FALSE), log, t)

TypeInv ==
  /\ GoodDBs(dbs)
  /\ index \in [Conns -> DBs]
  /\ now \in StartTime .. MaxTime
  /\ log \in Seq(LogRecords) /\ Len(log) <= MaxLog
  /\ \A d \in DBs :
       /\ DOMAIN snap[d] \subseteq Keys
       /\ \A k \in DOMAIN snap[d] :
            snap[d][k].value.kind \in ValueKinds /\ snap[d][k].nano \in Int
  /\ due \subseteq Int /\ saved \subseteq Int

RecoveryInv == \A t \in Int : GoodState(Restart(t))

\* A command leaves databases and session good.
LEMMA RunGood ==
  ASSUME NEW s, GoodState(s), NEW c, Resolved(c), c.keys \in Seq(Keys), NEW t \in Int
  PROVE  GoodState(Run(s, c, t))
<1>1. CASE c.op \in {"select", "plain"}
  BY <1>1 DEF Run, Select, State, GoodState
<1>2. CASE c.op \notin {"select", "plain"}
  <2> DEFINE r == Dispatch(c, s.dbs[s.index], t)
  <2>1. Run(s, c, t).dbs = [s.dbs EXCEPT ![s.index] = r.ks] /\ Run(s, c, t).index = s.index
    BY <1>2 DEF Run, State
  <2>2. Sound(r.ks) /\ DOMAIN r.ks.entries \subseteq Keys
    BY DispatchSound, DispatchWithin DEF GoodState, GoodDBs
  <2> HIDE DEF r
  <2> QED BY <2>1, <2>2 DEF GoodState, GoodDBs
<1> QED BY <1>1, <1>2

\* So does a record that is replayed.
LEMMA ReplayGood ==
  ASSUME NEW s, GoodState(s), NEW rec \in LogRecords, NEW t \in Int
  PROVE  GoodState(replay(s, rec, t))
<1>1. rec.db \in DBs /\ Resolved(rec.cmd) /\ rec.cmd.keys \in Seq(Keys)
  BY DEF LogRecords, LoggedCmds
<1>2. GoodState(Select(s, rec.db))
  BY <1>1 DEF Select, State, GoodState
<1> QED BY <1>1, <1>2, RunGood DEF replay

\* persistArgs turns a command that has not failed into one that is logged.
LEMMA PersistLogged ==
  ASSUME NEW c \in Cmds, NEW t \in Int, c.op = "expire" => c.xs[1] # Text
  PROVE  /\ persistArgs(c, t) \in LoggedCmds
         /\ c.op # "expire" => persistArgs(c, t) = c
         /\ c.op = "expire" => /\ persistArgs(c, t).op = "pexpireat"
                               /\ persistArgs(c, t).keys = c.keys
                               /\ persistArgs(c, t).xs = <<MilliOf(t + Seconds(c.xs[1]))>>
<1>1. Resolved(c) /\ c.keys \in Seq(Keys)
  BY ReplayAssumption
<1>2. CASE c.op # "expire"
  BY <1>1, <1>2 DEF persistArgs, LoggedCmds
<1>3. CASE c.op = "expire"
  <2> DEFINE ms == MilliOf(t + Seconds(c.xs[1]))
             p == [op |-> "pexpireat", keys |-> c.keys, xs |-> <<ms>>]
  <2>1. c.xs[1] \in Int /\ c.keys # <<>>
    BY <1>1, <1>3 DEF Resolved
  <2>2. ms \in Int
    <3>1. t + Seconds(c.xs[1]) \in Int
      <4>1. Seconds(c.xs[1]) \in Int
        BY <2>1, SecondsRange
      <4> QED BY SMT, <4>1
    <3> QED BY <3>1, MilliRounds
  <2>3. persistArgs(c, t) = p
    BY <1>3 DEF persistArgs
  <2> HIDE DEF ms
  <2>4. Resolved(p)
    BY <2>1, <2>2 DEF Resolved
  <2> QED BY <1>1, <1>3, <2>3, <2>4 DEF LoggedCmds, ms
<1> QED BY <1>2, <1>3

\* The snapshot of good databases, and what is restored from it.
LEMMA EmitTyped ==
  ASSUME GoodDBs(dbs)
  PROVE  \A d \in DBs :
           /\ DOMAIN emitRecords[d] \subseteq Keys
           /\ \A k \in DOMAIN emitRecords[d] :
                emitRecords[d][k].value.kind \in ValueKinds /\ emitRecords[d][k].nano \in Int
<1> SUFFICES ASSUME NEW d \in DBs
             PROVE  /\ DOMAIN emitRecords[d] \subseteq Keys
                    /\ \A k \in DOMAIN emitRecords[d] :
                         /\ emitRecords[d][k].value.kind \in ValueKinds
                         /\ emitRecords[d][k].nano \in Int
  OBVIOUS
<1> DEFINE entries == dbs[d].entries
<1>1. emitRecords[d] = [k \in DOMAIN entries |->
        [value |-> entries[k].value,
         nano |-> IF HasExpiry(entries[k]) THEN UnixNano(entries[k].expireAt) ELSE 0]]
  BY DEF emitRecords
<1>2. DOMAIN entries \subseteq Keys
  BY DEF GoodDBs
<1>3. \A k \in DOMAIN entries : entries[k].value.kind \in ValueKinds /\ entries[k].expireAt \in Int
  BY DEF GoodDBs, Sound
<1>4. \A x \in Int : UnixNano(x) \in Int
  <2>1. \A x \in Int : x - Epoch \in Int
    BY SMT, CommandsAssumption
  <2> QED BY Zenon, <2>1, Int64Range DEF UnixNano
<1> HIDE DEF entries
<1> QED BY <1>1, <1>2, <1>3, <1>4

\* A snapshot of that type is restored to good databases, its keys indexed.
LEMMA RestoredGood ==
  ASSUME NEW S, \A d \in DBs :
           /\ DOMAIN S[d] \subseteq Keys
           /\ \A k \in DOMAIN S[d] : S[d][k].value.kind \in ValueKinds /\ S[d][k].nano \in Int
  PROVE  GoodState(State([d \in DBs |-> Restored(S[d])], 0, FALSE))
<1>1. 0 \in DBs
  BY SMT, ReplayAssumption DEF DBs
<1>2. ASSUME NEW d \in DBs
      PROVE  Sound(Restored(S[d])) /\ DOMAIN Restored(S[d]).entries \subseteq Keys
  <2>1. \A k \in DOMAIN S[d] : RestoredEntry(S[d][k]).expireAt \in Int
                              /\ RestoredEntry(S[d][k]).value = S[d][k].value
    BY SMT, CommandsAssumption DEF RestoredEntry, Entry, ZeroTime
  <2> QED BY <2>1 DEF Restored, Sound
<1> QED BY <1>1, <1>2 DEF GoodState, GoodDBs, State

\* Commands that fail on an argument that is no number.
LEMMA TextFails ==
  ASSUME NEW s, NEW c, NEW t, c.op = "expire", c.xs[1] = Text
  PROVE  Run(s, c, t).error
BY DEF Run, Dispatch, cmdExpire, Fails, State

\* The record that a command appends, and what becomes of the restart.
LEMMA CommandLogs ==
  ASSUME TypeInv, NEW conn \in Conns, NEW c \in Cmds, Command(conn, c)
  PROVE  LET r == Run(State(dbs, index[conn], FALSE), c, now)
             rec == [db |-> r.index, cmd |-> persistArgs(c, now')]
         IN  /\ GoodState(r) /\ dbs' = r.dbs
             /\ now' \in now .. MaxTime /\ now' <= now + MaxDrift
             /\ c.op = "expire" => c.xs[1] # Text
             /\ rec \in LogRecords /\ log' = Append(log, rec)
             /\ \A t \in Int : Restart(t)' = replay(Restart(t), rec, t)
<1> DEFINE r == Run(State(dbs, index[conn], FALSE), c, now)
           rec == [db |-> r.index, cmd |-> persistArgs(c, now')]
<1>1. GoodState(r)
  <2>1. GoodState(State(dbs, index[conn], FALSE))
    BY DEF TypeInv, GoodState, State
  <2>2. now \in Int
    BY SMT, ReplayAssumption DEF TypeInv
  <2> QED BY <2>1, <2>2, RunGood, ReplayAssumption
<1>2. now' \in now .. MaxTime /\ now' <= now + MaxDrift
  BY SMT, ReplayAssumption DEF Command, TypeInv, Least
<1>3. c.op = "expire" => c.xs[1] # Text
  BY TextFails DEF Command
<1>4. rec \in LogRecords
  <2>1. now' \in Int
    BY SMT, <1>2, ReplayAssumption DEF TypeInv
  <2> QED BY <1>1, <1>3, <2>1, PersistLogged DEF LogRecords, GoodState
<1>5. log' = Append(log, rec) /\ dbs' = r.dbs /\ snap' = snap
  BY DEF Command
<1>6. ASSUME NEW t \in Int PROVE Restart(t)' = replay(Restart(t), rec, t)
  <2> HIDE DEF rec
  <2>1. Restart(t)' = replaySegments(State([d \in DBs |-> Restored(snap[d])], 0, FALSE), Append(log, rec), t)
    BY <1>5 DEF Restart
  <2>2. log \in Seq(LogRecords)
    BY DEF TypeInv
  <2> QED BY <1>4, <2>1, <2>2, StreamAppend DEF Restart
<1> QED BY <1>1, <1>2, <1>3, <1>4, <1>5, <1>6

\* The types hold at the beginning: the databases and their snapshot are empty.
LEMMA TypeInit == Init => TypeInv /\ RecoveryInv
<1> SUFFICES ASSUME Init PROVE TypeInv /\ RecoveryInv
  OBVIOUS
<1>1. GoodDBs(dbs)
  BY DEF Init, GoodDBs, EmptyKeyspace, Sound
<1>2. TypeInv
  <2>1. 0 \in DBs /\ StartTime \in StartTime .. MaxTime /\ 0 <= MaxLog
    BY SMT, ReplayAssumption DEF DBs
  <2>2. <<>> \in Seq(LogRecords) /\ Len(<<>>) = 0
    OBVIOUS
  <2> QED BY <1>1, <2>1, <2>2, EmitTyped DEF Init, TypeInv
<1>3. RecoveryInv
  BY <1>2, RestoredGood, StreamEmpty DEF Init, RecoveryInv, Restart, TypeInv
<1> QED BY <1>2, <1>3

\* Every step preserves them, in memory and in what a restart at any time yields.
LEMMA TypeStep == TypeInv /\ RecoveryInv /\ [Next]_vars => (TypeInv /\ RecoveryInv)'
<1> SUFFICES ASSUME TypeInv, RecoveryInv, [Next]_vars PROVE TypeInv' /\ RecoveryInv'
  OBVIOUS
<1>1. ASSUME NEW conn \in Conns, NEW c \in Cmds, Command(conn, c) PROVE TypeInv' /\ RecoveryInv'
  <2> DEFINE r == Run(State(dbs, index[conn], FALSE), c, now)
             rec == [db |-> r.index, cmd |-> persistArgs(c, now')]
  <2>1. /\ GoodState(r) /\ dbs' = r.dbs /\ now' \in now .. MaxTime
        /\ rec \in LogRecords /\ log' = Append(log, rec)
        /\ \A t \in Int : Restart(t)' = replay(Restart(t), rec, t)
        /\ c.op = "expire" => c.xs[1] # Text
    BY <1>1, CommandLogs
  <2>2. RecoveryInv'
    <3>1. \A t \in Int : GoodState(Restart(t)')
      BY <2>1, ReplayGood DEF RecoveryInv
    <3> QED BY <3>1 DEF RecoveryInv, GoodState, GoodDBs
  <2>3. index' \in [Conns -> DBs]
    BY <1>1, <2>1 DEF Command, TypeInv, GoodState
  <2>4. now' \in StartTime .. MaxTime
    BY SMT, <2>1, ReplayAssumption DEF TypeInv
  <2>5. log' \in Seq(LogRecords) /\ Len(log') <= MaxLog
    <3>1. Len(log) < MaxLog /\ log \in Seq(LogRecords)
      BY <1>1 DEF Command, TypeInv
    <3> HIDE DEF rec
    <3> QED BY SMT, <2>1, <3>1, ReplayAssumption
  <2>6. due' \subseteq Int
    <3>1. Deadlines(c, now, now') \subseteq Int
      <4>0. now \in Int /\ now' \in Int /\ Resolved(c)
        BY SMT, <2>4, ReplayAssumption DEF TypeInv
      <4>1. CASE c.op = "expire"
        <5>1. c.xs[1] \in Int
          BY <4>0, <4>1 DEF Resolved
        <5>2. now + Seconds(c.xs[1]) \in Int /\ now' + Seconds(c.xs[1]) \in Int
          <6>1. Seconds(c.xs[1]) \in Int
            BY <5>1, SecondsRange
          <6> QED BY SMT, <4>0, <6>1
        <5>3. persistArgs(c, now').xs[1] = MilliOf(now' + Seconds(c.xs[1]))
          BY <2>1, <4>0, <4>1, PersistLogged
        <5>4. UnixMilli(MilliOf(now' + Seconds(c.xs[1]))) \in Int
          BY <5>2, MilliRounds
        <5> QED BY <4>1, <5>2, <5>3, <5>4 DEF Deadlines
      <4>2. CASE c.op = "pexpireat"
        <5>1. c.xs[1] \in Int
          BY <4>0, <4>2 DEF Resolved
        <5>2. UnixMilli(c.xs[1]) \in Int
          BY SMT, <5>1, CommandsAssumption DEF UnixMilli
        <5> QED BY <4>2, <5>2 DEF Deadlines
      <4>3. CASE c.op \notin {"expire", "pexpireat"}
        BY <4>3 DEF Deadlines
      <4> QED BY <4>1, <4>2, <4>3
    <3> QED BY <1>1, <3>1 DEF Command, TypeInv
  <2>7. GoodDBs(dbs)' /\ snap' = snap /\ saved' = saved
    BY <1>1, <2>1 DEF Command, GoodState, GoodDBs
  <2> QED BY <2>2, <2>3, <2>4, <2>5, <2>6, <2>7 DEF TypeInv
<1>2. CASE Tick
  <2>1. now' \in StartTime .. MaxTime
    BY SMT, <1>2, ReplayAssumption DEF Tick, TypeInv
  <2>2. UNCHANGED <<dbs, index, log, snap, due, saved>>
    BY <1>2 DEF Tick
  <2> QED BY <2>1, <2>2 DEF TypeInv, RecoveryInv, Restart, GoodDBs, GoodState
<1>3. CASE Compact
  <2>1. TypeInv'
    <3>1. GoodDBs(dbs)' /\ UNCHANGED <<dbs, index, now>>
      BY <1>3 DEF Compact, TypeInv, GoodDBs
    <3>2. log' \in Seq(LogRecords) /\ Len(log') <= MaxLog
      BY SMT, <1>3, ReplayAssumption DEF Compact
    <3>3. due' \subseteq Int /\ saved' \subseteq Int
      BY <1>3 DEF Compact, TypeInv, GoodDBs, Sound, Range
    <3> QED BY <1>3, <3>1, <3>2, <3>3, EmitTyped DEF Compact, TypeInv
  <2>2. RecoveryInv'
    <3>1. \A t \in Int : Restart(t)' = State([d \in DBs |-> Restored(snap'[d])], 0, FALSE)
      BY <1>3, StreamEmpty DEF Compact, Restart
    <3>2. \A t \in Int : GoodState(Restart(t)')
      BY <2>1, <3>1, RestoredGood DEF TypeInv
    <3> QED BY <3>2 DEF RecoveryInv, GoodState, GoodDBs
  <2> QED BY <2>1, <2>2
<1>4. ASSUME NEW d \in DBs, Expire(d) PROVE TypeInv' /\ RecoveryInv'
  <2>1. PICK S : dbs' = [dbs EXCEPT ![d] = SampleExpired(dbs[d], S, now)]
    BY <1>4 DEF Expire
  <2>2. Sound(SampleExpired(dbs[d], S, now))
    BY SampleSound DEF TypeInv, GoodDBs
  <2>3. DOMAIN SampleExpired(dbs[d], S, now).entries \subseteq Keys
    BY DEF TypeInv, GoodDBs, SampleExpired, Without
  <2>4. GoodDBs(dbs')
    BY <2>1, <2>2, <2>3 DEF TypeInv, GoodDBs
  <2>5. UNCHANGED <<index, now, log, snap, due, saved>>
    BY <1>4 DEF Expire
  <2> QED BY <2>4, <2>5 DEF TypeInv, RecoveryInv, Restart, GoodDBs, GoodState
<1>5. CASE UNCHANGED vars
  BY <1>5 DEF vars, TypeInv, RecoveryInv, Restart, GoodDBs, GoodState
<1> QED BY <1>1, <1>2, <1>3, <1>4, <1>5 DEF Next, Background

\* The types hold in every state of every execution.
LEMMA TypeInvariance == Spec => [](TypeInv /\ RecoveryInv)
BY TypeInit, TypeStep, PTL DEF Spec

\* Memory, log and snapshot are of their types, and the log holds no EXPIRE.
THEOREM TypeCorrect == Spec => []TypeOK
<1>1. TypeInv => TypeOK
  <2> SUFFICES ASSUME TypeInv PROVE TypeOK
    OBVIOUS
  <2>1. \A d \in DBs : DOMAIN dbs[d].entries \subseteq Keys /\ dbs[d].withTTL \subseteq Keys
    BY DEF TypeInv, GoodDBs, Sound
  <2>2. \A i \in 1 .. Len(log) : log[i].db \in DBs /\ log[i].cmd.op # "expire"
    <3>1. \A i \in 1 .. Len(log) : log[i] \in LogRecords
      BY DEF TypeInv
    <3> QED BY <3>1 DEF LogRecords, LoggedCmds
  <2> QED BY <2>1, <2>2 DEF TypeInv, TypeOK
<1> QED BY <1>1, TypeInvariance, PTL

\* Whenever the server is restarted, the TTL indexes that recover builds from the
\* snapshot and the log are complete and hold stored keys only.
THEOREM RecoveredIndexedHolds == Spec => []RecoveredIndexed
<1>1. TypeInv /\ RecoveryInv => RecoveredIndexed
  <2> SUFFICES ASSUME TypeInv, RecoveryInv PROVE RecoveredIndexed
    OBVIOUS
  <2>1. now \in Int
    BY SMT, ReplayAssumption DEF TypeInv
  <2>2. GoodDBs(Recovered(now))
    BY <2>1 DEF RecoveryInv, GoodState, Recovered, Restart
  <2> HIDE DEF Recovered
  <2> QED BY <2>2 DEF GoodDBs, Sound, RecoveredIndexed, Range
<1> QED BY <1>1, TypeInvariance, PTL

-----------------------------------------------------------------------------
(* Handlers cannot tell a recovered keyspace from the one in memory as long *)
(* as nothing in either has expired.                                       *)

\* A recovered deadline: rounded down to milliseconds, and read off the clock up
\* to MaxDrift later.
Near(at, rec) == rec \in at - Milli + 1 .. at + MaxDrift

\* s in memory, r recovered.
Similar(s, r) ==
  /\ DOMAIN r.entries = DOMAIN s.entries
  /\ \A k \in DOMAIN s.entries :
       /\ r.entries[k].value = s.entries[k].value
       /\ HasExpiry(r.entries[k]) <=> HasExpiry(s.entries[k])
       /\ Near(s.entries[k].expireAt, r.entries[k].expireAt)

Unexpired(s, t) == \A k \in DOMAIN s.entries : ~Expired(s.entries[k], t)

\* A deadline is near itself.
LEMMA NearSame == \A at \in Int : Near(at, at)
BY SMT, CommandsAssumption, ReplayAssumption DEF Near

\* The methods of a keyspace keep two similar keyspaces similar.
LEMMA MethodsSimilar ==
  ASSUME NEW s, NEW r, Similar(s, r), NEW k
  PROVE  /\ \A v : Similar(Set(s, k, v), Set(r, k, v))
         /\ k \in DOMAIN s.entries =>
              /\ \A v : Similar(Update(s, k, v), Update(r, k, v))
              /\ \A v : Similar(SetEntry(s, k, Entry(v, s.entries[k].expireAt)),
                                SetEntry(r, k, Entry(v, r.entries[k].expireAt)))
              /\ Similar(Persist(s, k), Persist(r, k))
         /\ \A K : Similar(Delete(s, K), Delete(r, K))
<1>1. Near(ZeroTime, ZeroTime)
  BY NearSame DEF ZeroTime
<1>2. \A v : Similar(Set(s, k, v), Set(r, k, v))
  BY <1>1 DEF Similar, Set, Assign, Entry, HasExpiry
<1>3. ASSUME k \in DOMAIN s.entries, NEW v
      PROVE  /\ Similar(Update(s, k, v), Update(r, k, v))
             /\ Similar(SetEntry(s, k, Entry(v, s.entries[k].expireAt)),
                        SetEntry(r, k, Entry(v, r.entries[k].expireAt)))
  BY <1>3 DEF Similar, Update, SetEntry, Assign, Entry, HasExpiry
<1>4. k \in DOMAIN s.entries => Similar(Persist(s, k), Persist(r, k))
  BY <1>2 DEF Persist, Similar
<1>5. \A K : Similar(Delete(s, K), Delete(r, K))
  BY DEF Similar, Delete, Without
<1> QED BY <1>2, <1>3, <1>4, <1>5

\* What handlers ask of a keyspace has the same answer for both.
LEMMA SameAnswers ==
  ASSUME NEW s, NEW r, Similar(s, r), NEW t, NEW u, Unexpired(s, t), Unexpired(r, u), NEW k
  PROVE  /\ Live(s, k, t) <=> k \in DOMAIN s.entries
         /\ Live(r, k, u) <=> k \in DOMAIN s.entries
         /\ k \in DOMAIN s.entries => r.entries[k].value = s.entries[k].value
         /\ \A new : Held(r, k, u, new) = Held(s, k, t, new)
         /\ \A kind : WrongKind(r, k, u, kind) <=> WrongKind(s, k, t, kind)
         /\ \A v : Similar(Store(s, k, t, v), Store(r, k, u, v))
         /\ \A v : k \in DOMAIN s.entries => Similar(Shrink(s, k, v), Shrink(r, k, v))
<1>1. /\ Live(s, k, t) <=> k \in DOMAIN s.entries
      /\ Live(r, k, u) <=> k \in DOMAIN s.entries
      /\ k \in DOMAIN s.entries => r.entries[k].value = s.entries[k].value
  BY DEF Similar, Unexpired, Live
<1>2. /\ \A new : Held(r, k, u, new) = Held(s, k, t, new)
      /\ \A kind : WrongKind(r, k, u, kind) <=> WrongKind(s, k, t, kind)
  BY <1>1 DEF Held, WrongKind
<1>3. /\ \A v : Similar(Store(s, k, t, v), Store(r, k, u, v))
      /\ \A v : k \in DOMAIN s.entries => Similar(Shrink(s, k, v), Shrink(r, k, v))
  BY <1>1, MethodsSimilar DEF Store, Shrink
<1> QED BY <1>1, <1>2, <1>3

\* Therefore every handler that sets no deadline keeps them similar.
LEMMA HandlersSimilar ==
  ASSUME NEW s, NEW r, Similar(s, r), NEW t, NEW u, Unexpired(s, t), Unexpired(r, u),
         NEW k, NEW xs, NEW flag, NEW delta
  PROVE  /\ Similar(cmdSet(s, t, k, xs).ks, cmdSet(r, u, k, xs).ks)
         /\ Similar(incrBy(s, t, k, delta).ks, incrBy(r, u, k, delta).ks)
         /\ Similar(cmdDel(s, t, xs).ks, cmdDel(r, u, xs).ks)
         /\ Similar(cmdPersist(s, t, k).ks, cmdPersist(r, u, k).ks)
         /\ Similar(listPush(s, t, k, xs, flag).ks, listPush(r, u, k, xs, flag).ks)
         /\ Similar(listPop(s, t, k, xs, flag).ks, listPop(r, u, k, xs, flag).ks)
         /\ Similar(cmdHSet(s, t, k, xs).ks, cmdHSet(r, u, k, xs).ks)
         /\ Similar(cmdHDel(s, t, k, xs).ks, cmdHDel(r, u, k, xs).ks)
         /\ Similar(cmdSAdd(s, t, k, xs).ks, cmdSAdd(r, u, k, xs).ks)
         /\ Similar(cmdSRem(s, t, k, xs).ks, cmdSRem(r, u, k, xs).ks)
         /\ Similar(cmdZAdd(s, t, k, xs).ks, cmdZAdd(r, u, k, xs).ks)
<1> USE DEF Result, Fails
<1>a. /\ Live(s, k, t) <=> k \in DOMAIN s.entries
      /\ Live(r, k, u) <=> k \in DOMAIN s.entries
      /\ k \in DOMAIN s.entries => r.entries[k].value = s.entries[k].value
  BY SameAnswers
<1>b. \A new : Held(r, k, u, new) = Held(s, k, t, new)
  BY SameAnswers
<1>c. \A kind : WrongKind(r, k, u, kind) <=> WrongKind(s, k, t, kind)
  BY SameAnswers
<1>d. \A v : Similar(Store(s, k, t, v), Store(r, k, u, v))
  BY SameAnswers
<1>e. \A v : k \in DOMAIN s.entries => Similar(Shrink(s, k, v), Shrink(r, k, v))
  BY SameAnswers
<1>1. Similar(cmdSet(s, t, k, xs).ks, cmdSet(r, u, k, xs).ks)
  BY MethodsSimilar DEF cmdSet
<1>2. Similar(incrBy(s, t, k, delta).ks, incrBy(r, u, k, delta).ks)
  BY <1>a, <1>b, <1>c, MethodsSimilar DEF incrBy
<1>3. Similar(cmdDel(s, t, xs).ks, cmdDel(r, u, xs).ks)
  BY MethodsSimilar DEF cmdDel
<1>4. Similar(cmdPersist(s, t, k).ks, cmdPersist(r, u, k).ks)
  <2>1. k \in DOMAIN s.entries => (HasExpiry(r.entries[k]) <=> HasExpiry(s.entries[k]))
    BY DEF Similar
  <2> QED BY <1>a, <2>1, MethodsSimilar DEF cmdPersist
<1>5. Similar(listPush(s, t, k, xs, flag).ks, listPush(r, u, k, xs, flag).ks)
  BY <1>b, <1>c, <1>d DEF listPush
<1>6. Similar(listPop(s, t, k, xs, flag).ks, listPop(r, u, k, xs, flag).ks)
  BY <1>a, <1>c, <1>e DEF listPop
<1>7. Similar(cmdHSet(s, t, k, xs).ks, cmdHSet(r, u, k, xs).ks)
  BY <1>b, <1>c, <1>d DEF cmdHSet
<1>8. Similar(cmdHDel(s, t, k, xs).ks, cmdHDel(r, u, k, xs).ks)
  BY <1>a, <1>c, <1>e DEF cmdHDel
<1>9. Similar(cmdSAdd(s, t, k, xs).ks, cmdSAdd(r, u, k, xs).ks)
  BY <1>b, <1>c, <1>d DEF cmdSAdd
<1>10. Similar(cmdSRem(s, t, k, xs).ks, cmdSRem(r, u, k, xs).ks)
  BY <1>a, <1>c, <1>e DEF cmdSRem
<1>11. Similar(cmdZAdd(s, t, k, xs).ks, cmdZAdd(r, u, k, xs).ks)
  BY <1>b, <1>c, <1>d DEF cmdZAdd
<1> QED BY <1>1, <1>2, <1>3, <1>4, <1>5, <1>6, <1>7, <1>8, <1>9, <1>10, <1>11

\* Two similar keyspaces stay similar under one command, as long as it sets no
\* deadline.
LEMMA DispatchSimilar ==
  ASSUME NEW s, NEW r, Similar(s, r), NEW t, NEW u, Unexpired(s, t), Unexpired(r, u),
         NEW c, c.op \notin {"expire", "pexpireat"}
  PROVE  Similar(Dispatch(c, s, t).ks, Dispatch(c, r, u).ks)
<1> DEFINE k == c.keys[1]
<1>1. CASE ReadOnly(c)
  BY <1>1, ReadsUnchanged
<1>2. CASE c.op \in {"set", "incr", "decr", "del", "persist"}
  <2> HIDE DEF k
  <2>1. \/ /\ Dispatch(c, s, t) = cmdSet(s, t, k, c.xs)
           /\ Dispatch(c, r, u) = cmdSet(r, u, k, c.xs)
        \/ \E d : Dispatch(c, s, t) = incrBy(s, t, k, d) /\ Dispatch(c, r, u) = incrBy(r, u, k, d)
        \/ Dispatch(c, s, t) = cmdDel(s, t, c.keys) /\ Dispatch(c, r, u) = cmdDel(r, u, c.keys)
        \/ Dispatch(c, s, t) = cmdPersist(s, t, k) /\ Dispatch(c, r, u) = cmdPersist(r, u, k)
    BY <1>2 DEF Dispatch, k
  <2> QED BY <2>1, HandlersSimilar
<1>3. CASE c.op \in {"lpush", "rpush", "lpop", "rpop"}
  <2> HIDE DEF k
  <2>1. \E front :
          \/ /\ Dispatch(c, s, t) = listPush(s, t, k, c.xs, front)
             /\ Dispatch(c, r, u) = listPush(r, u, k, c.xs, front)
          \/ /\ Dispatch(c, s, t) = listPop(s, t, k, c.xs, front)
             /\ Dispatch(c, r, u) = listPop(r, u, k, c.xs, front)
    BY <1>3 DEF Dispatch, k
  <2> QED BY <2>1, HandlersSimilar
<1>4. CASE c.op \in {"hset", "hdel", "sadd", "srem", "zadd"}
  <2> HIDE DEF k
  <2>1. \/ Dispatch(c, s, t) = cmdHSet(s, t, k, c.xs) /\ Dispatch(c, r, u) = cmdHSet(r, u, k, c.xs)
        \/ Dispatch(c, s, t) = cmdHDel(s, t, k, c.xs) /\ Dispatch(c, r, u) = cmdHDel(r, u, k, c.xs)
        \/ Dispatch(c, s, t) = cmdSAdd(s, t, k, c.xs) /\ Dispatch(c, r, u) = cmdSAdd(r, u, k, c.xs)
        \/ Dispatch(c, s, t) = cmdSRem(s, t, k, c.xs) /\ Dispatch(c, r, u) = cmdSRem(r, u, k, c.xs)
        \/ Dispatch(c, s, t) = cmdZAdd(s, t, k, c.xs) /\ Dispatch(c, r, u) = cmdZAdd(r, u, k, c.xs)
    BY <1>4 DEF Dispatch, k
  <2> QED BY <2>1, HandlersSimilar
<1>5. CASE /\ ~ReadOnly(c)
           /\ c.op \notin {"set", "incr", "decr", "del", "persist", "lpush", "rpush", "lpop", "rpop",
                           "hset", "hdel", "sadd", "srem", "zadd"}
  <2>1. Dispatch(c, s, t).ks = EmptyKeyspace /\ Dispatch(c, r, u).ks = EmptyKeyspace
    BY <1>5 DEF Dispatch, ReadOnly, Result, Flush
  <2> QED BY <2>1 DEF Similar, EmptyKeyspace
<1> QED BY <1>1, <1>2, <1>3, <1>4, <1>5

\* Setting two near deadlines keeps them similar too.
LEMMA ExpireSimilar ==
  ASSUME NEW s, NEW r, Similar(s, r), NEW t, NEW u, Unexpired(s, t), Unexpired(r, u),
         NEW k, NEW at, NEW rec, Near(at, rec), at # ZeroTime <=> rec # ZeroTime
  PROVE  Similar(expireAt(s, t, k, at).ks, expireAt(r, u, k, rec).ks)
<1>1. k \in DOMAIN s.entries => Similar(SetExpire(s, k, at), SetExpire(r, k, rec))
  BY DEF Similar, SetExpire, Assign, Entry, HasExpiry
<1>2. (Live(s, k, t) <=> k \in DOMAIN s.entries) /\ (Live(r, k, u) <=> k \in DOMAIN s.entries)
  BY SameAnswers
<1> QED BY <1>1, <1>2 DEF expireAt, Result

-----------------------------------------------------------------------------
(* The history of deadlines. *)

\* Every deadline of a keyspace is in T.
DeadlinesIn(s, T) ==
  \A k \in DOMAIN s.entries : HasExpiry(s.entries[k]) => s.entries[k].expireAt \in T

\* The methods of a keyspace make no deadlines up.
LEMMA MethodsDeadlines ==
  ASSUME NEW s, NEW T, DeadlinesIn(s, T), NEW k
  PROVE  /\ \A v : DeadlinesIn(Set(s, k, v), T)
         /\ k \in DOMAIN s.entries =>
              /\ \A v : DeadlinesIn(Update(s, k, v), T)
              /\ \A v : DeadlinesIn(SetEntry(s, k, Entry(v, s.entries[k].expireAt)), T)
         /\ \A at \in T : DeadlinesIn(SetExpire(s, k, at), T)
         /\ DeadlinesIn(Persist(s, k), T)
         /\ \A K : DeadlinesIn(Delete(s, K), T)
<1>1. \A v : DeadlinesIn(Set(s, k, v), T)
  BY DEF DeadlinesIn, Set, Assign, Entry, HasExpiry
<1>2. ASSUME k \in DOMAIN s.entries, NEW v
      PROVE  /\ DeadlinesIn(Update(s, k, v), T)
             /\ DeadlinesIn(SetEntry(s, k, Entry(v, s.entries[k].expireAt)), T)
  BY <1>2 DEF DeadlinesIn, Update, SetEntry, Assign, Entry, HasExpiry
<1>3. \A at \in T : DeadlinesIn(SetExpire(s, k, at), T)
  BY DEF DeadlinesIn, SetExpire, Assign, Entry, HasExpiry
<1>4. DeadlinesIn(Persist(s, k), T)
  BY <1>1 DEF Persist
<1>5. \A K : DeadlinesIn(Delete(s, K), T)
  BY DEF DeadlinesIn, Delete, Without
<1> QED BY <1>1, <1>2, <1>3, <1>4, <1>5

\* A command adds at most the deadline that it names.
LEMMA DispatchDeadlines ==
  ASSUME NEW s, NEW T, DeadlinesIn(s, T), NEW t, NEW c,
         c.op = "expire" => t + Seconds(c.xs[1]) \in T,
         c.op = "pexpireat" => UnixMilli(c.xs[1]) \in T
  PROVE  DeadlinesIn(Dispatch(c, s, t).ks, T)
<1> DEFINE k == c.keys[1]
<1> USE DEF Result, Fails
<1>0. /\ \A v : DeadlinesIn(Store(s, k, t, v), T)
      /\ Live(s, k, t) => \A v : DeadlinesIn(Shrink(s, k, v), T)
  BY MethodsDeadlines DEF Store, Shrink, Live
<1>1. CASE ReadOnly(c)
  BY <1>1, ReadsUnchanged
<1>2. CASE c.op \in {"set", "del", "persist"}
  BY <1>2, MethodsDeadlines DEF Dispatch, cmdSet, cmdDel, cmdPersist
<1>3. CASE c.op \in {"incr", "decr"}
  <2>1. \E v : Dispatch(c, s, t).ks \in
          {s, IF Live(s, k, t) THEN SetEntry(s, k, Entry(v, s.entries[k].expireAt)) ELSE Set(s, k, v)}
    BY <1>3 DEF Dispatch, incrBy
  <2> QED BY <2>1, MethodsDeadlines DEF Live
<1>4. CASE c.op \in {"expire", "pexpireat"}
  <2>1. \/ Dispatch(c, s, t).ks = s
        \/ \E at \in T : Dispatch(c, s, t).ks = SetExpire(s, k, at)
    BY <1>4 DEF Dispatch, cmdExpire, cmdPExpireAt, expireAt
  <2> QED BY <2>1, MethodsDeadlines
<1>5. CASE c.op \in {"lpush", "rpush", "hset", "sadd", "zadd"}
  <2>1. Dispatch(c, s, t).ks = s \/ \E v : Dispatch(c, s, t).ks = Store(s, k, t, v)
    BY <1>5 DEF Dispatch, listPush, cmdHSet, cmdSAdd, cmdZAdd
  <2> QED BY <1>0, <2>1
<1>6. CASE c.op \in {"lpop", "rpop", "hdel", "srem"}
  <2>1. \/ Dispatch(c, s, t).ks = s
        \/ Live(s, k, t) /\ \E v : Dispatch(c, s, t).ks = Shrink(s, k, v)
    BY <1>6 DEF Dispatch, listPop, cmdHDel, cmdSRem
  <2> QED BY <1>0, <2>1
<1>7. CASE /\ ~ReadOnly(c)
           /\ c.op \notin {"set", "incr", "decr", "del", "expire", "pexpireat", "persist",
                           "lpush", "rpush", "hset", "sadd", "zadd",
                           "lpop", "rpop", "hdel", "srem"}
  <2>1. Dispatch(c, s, t).ks = EmptyKeyspace
    BY <1>7 DEF Dispatch, ReadOnly, Flush
  <2> QED BY <2>1 DEF DeadlinesIn, EmptyKeyspace
<1> QED BY <1>1, <1>2, <1>3, <1>4, <1>5, <1>6, <1>7

-----------------------------------------------------------------------------
(* What a restart recovers before the first deadline. *)

\* A time not before now at which no deadline has passed; and the snapshot holds
\* only deadlines that it can hold.
Ahead(t) ==
  /\ now <= t
  /\ \A at \in due : t < at
  /\ \A at \in saved : HasUnixNano(at)

\* The inductive invariant: a restart at any such time, not only now, recovers
\* databases similar to those in memory, and due knows the deadlines of both.
ExactInv ==
  /\ \A d \in DBs : DeadlinesIn(dbs[d], due)
  /\ \A t \in Int : Ahead(t) =>
       \A d \in DBs : DeadlinesIn(Restart(t).dbs[d], due) /\ Similar(dbs[d], Restart(t).dbs[d])

\* The numbers among the assumptions, and the clock.
LEMMA Clock ==
  /\ StartTime \in Nat /\ MaxTime \in Nat /\ MaxDrift \in Nat /\ MaxDuration \in Nat
  /\ Epoch \in Int /\ Milli \in Int /\ Epoch < StartTime /\ 0 < StartTime
  /\ \A t \in StartTime .. MaxTime : t \in Int /\ Epoch < t /\ 0 < t
<1>1. /\ StartTime \in Nat /\ MaxTime \in Nat /\ MaxDrift \in Nat /\ Epoch < StartTime
      /\ StartTime <= MaxTime
  BY Zenon, ReplayAssumption
<1>2. Epoch \in Nat /\ Milli \in Nat \ {0} /\ MaxDuration \in Nat
  BY SMT, CommandsAssumption DEF ZeroTime
<1> QED BY SMT, <1>1, <1>2

\* A deadline n after the second reading of the clock, rounded down to a
\* millisecond, is near the one n after the first.
LEMMA NearDrifted ==
  ASSUME NEW t1 \in Int, NEW t2 \in Int, NEW n \in Int, NEW rec \in Int,
         t1 <= t2, t2 <= t1 + MaxDrift, rec \in (t2 + n) - Milli + 1 .. t2 + n
  PROVE  Near(t1 + n, rec)
<1> QED BY SMT, Clock DEF Near

\* Nothing is expired before the first deadline.
LEMMA NothingExpired ==
  ASSUME NEW s, NEW T \in SUBSET Int, DeadlinesIn(s, T), NEW t \in Int, \A at \in T : t < at
  PROVE  Unexpired(s, t)
<1>1. \A at \in T : ~(at <= t)
  BY SMT
<1> QED BY <1>1 DEF DeadlinesIn, Unexpired, Expired

\* One command in memory, at time t1, and the logged one in a replay, at time t:
\* a deadline set by EXPIRE is the logged one up to rounding and drift.
LEMMA LoggedSimilar ==
  ASSUME NEW s, NEW r, Similar(s, r), NEW c \in Cmds, c.op = "expire" => c.xs[1] # Text,
         NEW t1 \in StartTime .. MaxTime, NEW t2 \in t1 .. MaxTime, t2 <= t1 + MaxDrift,
         NEW t \in Int, t2 <= t, \A at \in Deadlines(c, t1, t2) : t < at,
         Unexpired(s, t1), Unexpired(r, t)
  PROVE  Similar(Dispatch(c, s, t1).ks, Dispatch(persistArgs(c, t2), r, t).ks)
<1>0. t1 \in Int /\ t2 \in Int /\ 0 < t2 /\ t1 <= t2 /\ StartTime <= t2 /\ t2 <= MaxTime
  BY SMT, Clock
<1>1. CASE c.op \notin {"expire", "pexpireat"}
  BY <1>1, DispatchSimilar DEF persistArgs
<1>2. CASE c.op = "pexpireat"
  <2> DEFINE at == UnixMilli(c.xs[1])
  <2>1. persistArgs(c, t2) = c
    BY <1>2 DEF persistArgs
  <2>2. at \in Int
    <3>1. c.xs[1] \in Int
      BY <1>2, ReplayAssumption DEF Resolved
    <3> QED BY SMT, Clock, <3>1 DEF UnixMilli
  <2> HIDE DEF at
  <2>3. Similar(expireAt(s, t1, c.keys[1], at).ks, expireAt(r, t, c.keys[1], at).ks)
    BY <2>2, NearSame, ExpireSimilar
  <2> QED BY <1>2, <2>1, <2>3 DEF Dispatch, cmdPExpireAt, Fails, at
<1>3. CASE c.op = "expire"
  <2> DEFINE n   == Seconds(c.xs[1])
             at  == t1 + n
             rec == UnixMilli(MilliOf(t2 + n))
             p   == persistArgs(c, t2)
  <2>1. c.xs[1] \in Int
    BY <1>3, ReplayAssumption DEF Resolved
  <2>2. n \in Int /\ n \in -MaxDuration .. MaxDuration - 1
    BY <2>1, SecondsRange
  <2>3. /\ p.op = "pexpireat" /\ p.keys = c.keys /\ p.xs = <<MilliOf(t2 + n)>>
    BY <1>0, <1>3, PersistLogged
  <2>4. p.xs[1] = MilliOf(t2 + n)
    BY <2>3
  <2> HIDE DEF n
  <2>5. MilliOf(t2 + n) # Text
    <3>1. t2 + n \in StartTime - MaxDuration .. MaxTime + MaxDuration
      BY SMT, <1>0, <2>2, Clock
    <3> QED BY Zenon, <3>1, ReplayAssumption
  <2>6. rec \in Int /\ rec \in (t2 + n) - Milli + 1 .. t2 + n
    <3>1. t2 + n \in Int
      BY SMT, <1>0, <2>2
    <3> QED BY <3>1, MilliRounds
  <2>7. t < at /\ t < rec
    BY <1>3, <2>4 DEF Deadlines, n
  <2> HIDE DEF rec, p
  <2>8. Near(at, rec)
    <3>1. n \in Int /\ rec \in Int /\ t1 <= t2 /\ t2 <= t1 + MaxDrift
          /\ rec \in (t2 + n) - Milli + 1 .. t2 + n
      BY Zenon, <1>0, <2>2, <2>6
    <3> QED BY Zenon, <1>0, <3>1, NearDrifted
  <2>9. at # ZeroTime /\ rec # ZeroTime
    <3>1. 0 < t
      BY SMT, <1>0
    <3>2. at \in Int
      BY SMT, <1>0, <2>2
    <3> HIDE DEF at
    <3> QED BY SMT, <2>6, <2>7, <3>1, <3>2 DEF ZeroTime
  <2>10. Similar(expireAt(s, t1, c.keys[1], at).ks, expireAt(r, t, c.keys[1], rec).ks)
    BY <2>8, <2>9, ExpireSimilar
  <2>11. Dispatch(c, s, t1).ks = expireAt(s, t1, c.keys[1], at).ks
    BY <1>3 DEF Dispatch, cmdExpire, n
  <2>12. Dispatch(p, r, t).ks = expireAt(r, t, c.keys[1], rec).ks
    BY <2>3, <2>4, <2>5 DEF Dispatch, cmdPExpireAt, rec
  <2> QED BY <2>10, <2>11, <2>12 DEF p
<1> QED BY <1>1, <1>2, <1>3

\* Empty databases are recovered from an empty snapshot.
LEMMA ExactInit == Init => ExactInv
<1> SUFFICES ASSUME Init PROVE ExactInv
  OBVIOUS
<1>1. \A d \in DBs : dbs[d] = EmptyKeyspace /\ DOMAIN dbs[d].entries = {}
  BY DEF Init, EmptyKeyspace
<1>2. \A d \in DBs : DOMAIN snap[d] = {}
  BY <1>1 DEF Init, emitRecords
<1>3. \A t \in Int, d \in DBs : DOMAIN Restart(t).dbs[d].entries = {}
  <2>1. log = <<>>
    BY DEF Init
  <2>2. \A t \in Int : Restart(t) = State([d \in DBs |-> Restored(snap[d])], 0, FALSE)
    BY <2>1, StreamEmpty DEF Restart
  <2>3. \A t \in Int, d \in DBs : Restart(t).dbs[d] = Restored(snap[d])
    BY <2>2 DEF State
  <2>4. \A d \in DBs : DOMAIN Restored(snap[d]).entries = {}
    BY <1>2 DEF Restored
  <2> QED BY Zenon, <2>3, <2>4
<1> QED BY <1>1, <1>3 DEF ExactInv, DeadlinesIn, Similar

\* A command: the databases in memory and the recovered ones change alike.
LEMMA ExactCommand ==
  ASSUME TypeInv, RecoveryInv, ExactInv, NEW conn \in Conns, NEW c \in Cmds, Command(conn, c)
  PROVE  ExactInv'
<1> DEFINE i   == index[conn]
           r   == Run(State(dbs, i, FALSE), c, now)
           p   == persistArgs(c, now')
           rec == [db |-> r.index, cmd |-> p]
<1>1. /\ GoodState(r) /\ dbs' = r.dbs
      /\ now' \in now .. MaxTime /\ now' <= now + MaxDrift
      /\ c.op = "expire" => c.xs[1] # Text
      /\ \A t \in Int : Restart(t)' = replay(Restart(t), rec, t)
  BY CommandLogs
<1>2. /\ now \in Int /\ now' \in Int /\ now <= now' /\ i \in DBs
      /\ due \subseteq due' /\ Deadlines(c, now, now') \subseteq due' /\ due \subseteq Int
      /\ saved' = saved
  <2>1. now \in Int /\ now' \in Int /\ now <= now'
    BY SMT, <1>1, ReplayAssumption DEF TypeInv
  <2> QED BY <2>1 DEF Command, TypeInv
<1>3. \A t \in Int : Ahead(t)' => Ahead(t) /\ now' <= t /\ \A at \in due' : t < at
  <2>1. \A t \in Int : now' <= t => now <= t
    BY SMT, <1>2
  <2> QED BY <1>2, <2>1 DEF Ahead
<1>4. r.index \in DBs
  BY <1>1 DEF GoodState
<1>5. \A t \in Int : Restart(t)' = Run(State(Restart(t).dbs, r.index, FALSE), p, t)
  BY <1>1, <1>4 DEF replay, Select
<1>6. \A d \in DBs : DeadlinesIn(dbs[d], due')
  BY <1>2 DEF ExactInv, DeadlinesIn
<1>7. \A t \in Int, d \in DBs : Ahead(t)' =>
        DeadlinesIn(Restart(t).dbs[d], due') /\ Similar(dbs[d], Restart(t).dbs[d])
  BY <1>2, <1>3 DEF ExactInv, DeadlinesIn
<1>8. CASE c.op \in {"select", "plain"}
  <2>1. dbs' = dbs
    BY <1>1, <1>8 DEF Run, Select, State
  <2>2. p = c
    BY <1>8 DEF persistArgs
  <2> HIDE DEF r, p
  <2>3. \A t \in Int : Restart(t)'.dbs = Restart(t).dbs
    <3> DEFINE j == r.index
    <3>1. \A D, t : Run(State(D, j, FALSE), c, t).dbs = D
      BY <1>8 DEF Run, Select, State
    <3>2. \A t \in Int : Restart(t)' = Run(State(Restart(t).dbs, j, FALSE), c, t)
      BY <1>5, <2>2
    <3> HIDE DEF j
    <3> QED BY Zenon, <3>1, <3>2
  <2> QED BY <1>6, <1>7, <2>1, <2>3 DEF ExactInv
<1>9. CASE c.op \notin {"select", "plain"}
  <2>1. dbs' = [dbs EXCEPT ![i] = Dispatch(c, dbs[i], now).ks] /\ r.index = i
    BY <1>1, <1>9 DEF Run, State
  <2>2. p.op \notin {"select", "plain"}
    BY <1>9 DEF persistArgs
  <2> HIDE DEF r, p, i
  <2>3. \A t \in Int : Restart(t)'.dbs
          = [Restart(t).dbs EXCEPT ![i] = Dispatch(p, Restart(t).dbs[i], t).ks]
    <3>1. \A D, t : Run(State(D, i, FALSE), p, t).dbs = [D EXCEPT ![i] = Dispatch(p, D[i], t).ks]
      BY <2>2 DEF Run, State
    <3>2. \A t \in Int : Restart(t)' = Run(State(Restart(t).dbs, i, FALSE), p, t)
      BY <1>5, <2>1
    <3> QED BY Zenon, <3>1, <3>2
  <2>4. \A d \in DBs : DeadlinesIn(dbs'[d], due')
    <3>1. c.op = "expire" => now + Seconds(c.xs[1]) \in due'
      BY <1>2 DEF Deadlines
    <3>2. c.op = "pexpireat" => UnixMilli(c.xs[1]) \in due'
      BY <1>2 DEF Deadlines
    <3>3. DeadlinesIn(Dispatch(c, dbs[i], now).ks, due')
      BY <1>2, <1>6, <3>1, <3>2, DispatchDeadlines
    <3> QED BY <1>2, <1>6, <2>1, <3>3 DEF TypeInv, GoodDBs
  <2>5. ASSUME NEW t \in Int, Ahead(t)'
        PROVE  \A d \in DBs : /\ DeadlinesIn(Restart(t)'.dbs[d], due')
                              /\ Similar(dbs'[d], Restart(t)'.dbs[d])
    <3> DEFINE R == Restart(t).dbs
    <3>0. Ahead(t) /\ now' <= t /\ (\A at \in due' : t < at) /\ (\A at \in due : t < at) /\ now <= t
      BY <1>2, <1>3, <2>5 DEF Ahead
    <3>1. R = [d \in DBs |-> R[d]]
      BY DEF RecoveryInv, GoodState, GoodDBs
    <3>2. DeadlinesIn(R[i], due') /\ DeadlinesIn(R[i], due) /\ Similar(dbs[i], R[i])
      BY <1>2, <1>7, <2>5, <3>0 DEF ExactInv
    <3>3. Unexpired(R[i], t)
      BY <1>2, <3>0, <3>2, NothingExpired
    <3>4. Unexpired(dbs[i], now)
      <4>1. \A at \in due : now < at
        BY SMT, <1>2, <3>0
      <4>2. DeadlinesIn(dbs[i], due)
        BY <1>2 DEF ExactInv
      <4> QED BY <1>2, <4>1, <4>2, NothingExpired
    <3>5. Similar(Dispatch(c, dbs[i], now).ks, Dispatch(p, R[i], t).ks)
      <4>1. now \in StartTime .. MaxTime /\ \A at \in Deadlines(c, now, now') : t < at
        BY <1>2, <3>0 DEF TypeInv
      <4> QED BY <1>1, <3>0, <3>2, <3>3, <3>4, <4>1, LoggedSimilar DEF p
    <3>6. DeadlinesIn(Dispatch(p, R[i], t).ks, due')
      <4>1. p.op # "expire"
        BY <1>1, <1>2, PersistLogged DEF p
      <4>2. p.op = "pexpireat" => UnixMilli(p.xs[1]) \in due'
        <5>1. CASE c.op = "expire"
          BY <1>2, <5>1 DEF Deadlines, p
        <5>2. CASE c.op # "expire"
          BY <1>2, <5>2 DEF Deadlines, p, persistArgs
        <5> QED BY <5>1, <5>2
      <4> QED BY <3>2, <4>1, <4>2, DispatchDeadlines
    <3>7. Restart(t)'.dbs = [R EXCEPT ![i] = Dispatch(p, R[i], t).ks]
      BY <2>3
    <3>8. \A d \in DBs : DeadlinesIn(R[d], due') /\ Similar(dbs[d], R[d])
      BY <1>7, <2>5
    <3>9. dbs = [d \in DBs |-> dbs[d]]
      BY DEF TypeInv, GoodDBs
    <3> HIDE DEF R
    <3> QED BY <1>2, <2>1, <3>1, <3>5, <3>6, <3>7, <3>8, <3>9
  <2> QED BY <2>4, <2>5 DEF ExactInv
<1> QED BY <1>8, <1>9

\* Every step preserves the invariant.
LEMMA ExactStep == TypeInv /\ RecoveryInv /\ ExactInv /\ [Next]_vars => ExactInv'
<1> SUFFICES ASSUME TypeInv, RecoveryInv, ExactInv, [Next]_vars PROVE ExactInv'
  OBVIOUS
<1>0. now \in Int /\ due \subseteq Int
  BY Clock DEF TypeInv
<1>1. ASSUME NEW conn \in Conns, NEW c \in Cmds, Command(conn, c) PROVE ExactInv'
  BY <1>1, ExactCommand
<1>2. CASE Tick
  <2>1. \A t \in Int : Ahead(t)' => Ahead(t)
    <3>1. now' = now + 1 /\ due' = due /\ saved' = saved
      BY <1>2 DEF Tick
    <3>2. \A t \in Int : now' <= t => now <= t
      BY SMT, <1>0, <3>1
    <3> QED BY <3>1, <3>2 DEF Ahead
  <2> QED BY <1>2, <2>1 DEF Tick, ExactInv, Restart
<1>3. CASE Compact
  <2>1. \A d \in DBs : DeadlinesIn(dbs'[d], due')
    BY <1>3 DEF Compact, DeadlinesIn, Range
  <2>2. ASSUME NEW t \in Int, Ahead(t)', NEW d \in DBs
        PROVE  DeadlinesIn(Restart(t)'.dbs[d], due') /\ Similar(dbs'[d], Restart(t)'.dbs[d])
    <3> DEFINE e(k) == dbs[d].entries[k]
               f(k) == Restart(t)'.dbs[d].entries[k]
    <3>1. Restart(t)'.dbs[d] = Restored(emitRecords[d])
      BY <1>3, StreamEmpty DEF Compact, Restart, State
    <3>2. emitRecords[d] = [k \in DOMAIN dbs[d].entries |->
            [value |-> e(k).value, nano |-> IF HasExpiry(e(k)) THEN UnixNano(e(k).expireAt) ELSE 0]]
      BY DEF emitRecords
    <3>a. \A s : Restored(s).entries = [k \in DOMAIN s |-> RestoredEntry(s[k])]
      BY DEF Restored
    <3>b. DOMAIN emitRecords[d] = DOMAIN dbs[d].entries
      BY <3>2
    <3>c. Restart(t)'.dbs[d].entries = [k \in DOMAIN dbs[d].entries |-> RestoredEntry(emitRecords[d][k])]
      <4>1. Restored(emitRecords[d]).entries
              = [k \in DOMAIN emitRecords[d] |-> RestoredEntry(emitRecords[d][k])]
        BY <3>a
      <4> QED BY Zenon, <3>1, <3>b, <4>1
    <3>3. DOMAIN Restart(t)'.dbs[d].entries = DOMAIN dbs[d].entries
      BY Zenon, <3>c
    <3>4. ASSUME NEW k \in DOMAIN dbs[d].entries
          PROVE  f(k).value = e(k).value /\ f(k).expireAt = e(k).expireAt
      <4>1. f(k) = RestoredEntry(emitRecords[d][k])
        BY Zenon, <3>c
      <4>2. e(k).expireAt \in Int
        BY DEF TypeInv, GoodDBs, Sound
      <4>3. CASE HasExpiry(e(k))
        <5>1. e(k).expireAt # Epoch
          <6>1. t < e(k).expireAt /\ now <= t
            BY <1>3, <2>1, <2>2, <4>3 DEF Compact, DeadlinesIn, Ahead
          <6>2. Epoch < now /\ Epoch \in Int
            BY Clock DEF TypeInv
          <6> HIDE DEF e
          <6> QED BY SMT, <1>0, <4>2, <6>1, <6>2
        <5>a. UnixNano(e(k).expireAt) = e(k).expireAt - Epoch
          <6>1. e(k).expireAt \in due' /\ due' = saved'
            BY <1>3, <2>1, <4>3 DEF Compact, DeadlinesIn
          <6>2. HasUnixNano(e(k).expireAt)
            BY <2>2, <6>1 DEF Ahead
          <6> HIDE DEF e
          <6>3. e(k).expireAt - Epoch \in Int
            BY SMT, <4>2, Clock
          <6> QED BY Zenon, <6>2, <6>3, Int64Range DEF UnixNano, HasUnixNano
        <5>2. emitRecords[d][k] = [value |-> e(k).value, nano |-> e(k).expireAt - Epoch]
          BY <3>2, <4>3, <5>a
        <5>3. e(k).expireAt - Epoch # 0 /\ Epoch + (e(k).expireAt - Epoch) = e(k).expireAt
          <6> HIDE DEF e
          <6> QED BY SMT, <4>2, <5>1, Clock
        <5>4. RestoredEntry(emitRecords[d][k]) = Entry(e(k).value, e(k).expireAt)
          <6> HIDE DEF e
          <6> QED BY <5>2, <5>3 DEF RestoredEntry
        <5>5. f(k) = Entry(e(k).value, e(k).expireAt)
          BY Zenon, <4>1, <5>4
        <5> HIDE DEF e, f
        <5> QED BY <5>5 DEF Entry
      <4>4. CASE ~HasExpiry(e(k))
        <5>1. emitRecords[d][k] = [value |-> e(k).value, nano |-> 0]
          BY <3>2, <4>4
        <5> HIDE DEF e, f
        <5> QED BY <4>1, <4>4, <5>1 DEF RestoredEntry, Entry, HasExpiry, ZeroTime
      <4> QED BY <4>3, <4>4
    <3>5. \A k \in DOMAIN dbs[d].entries : Near(e(k).expireAt, f(k).expireAt)
      <4>1. \A k \in DOMAIN dbs[d].entries : e(k).expireAt \in Int
        BY DEF TypeInv, GoodDBs, Sound
      <4> HIDE DEF e, f
      <4> QED BY <3>4, <4>1, NearSame
    <3>6. dbs' = dbs
      BY <1>3 DEF Compact
    <3> QED BY <2>1, <3>3, <3>4, <3>5, <3>6 DEF DeadlinesIn, Similar, HasExpiry
  <2> QED BY <2>1, <2>2 DEF ExactInv
<1>4. ASSUME NEW d \in DBs, Expire(d) PROVE ExactInv'
  <2>1. PICK S : dbs' = [dbs EXCEPT ![d] = SampleExpired(dbs[d], S, now)]
    BY <1>4 DEF Expire
  <2>2. UNCHANGED <<index, now, log, snap, due, saved>>
    BY <1>4 DEF Expire
  <2>3. dbs = [x \in DBs |-> dbs[x]]
    BY DEF TypeInv, GoodDBs
  <2>4. DeadlinesIn(SampleExpired(dbs[d], S, now), due)
    BY DEF ExactInv, DeadlinesIn, SampleExpired, Without
  <2>5. ASSUME NEW t \in Int, Ahead(t) 
        PROVE  \A x \in DBs : /\ DOMAIN dbs'[x].entries = DOMAIN dbs[x].entries
                              /\ \A k \in DOMAIN dbs[x].entries : dbs'[x].entries[k] = dbs[x].entries[k]
    <3>1. \A at \in due : now < at
      BY SMT, <1>0, <2>5 DEF Ahead
    <3>2. Unexpired(dbs[d], now)
      BY <1>0, <3>1, NothingExpired DEF ExactInv
    <3>3. Evicted(dbs[d], S, now) = {}
      BY <3>2 DEF Unexpired, Evicted
    <3>4. SampleExpired(dbs[d], S, now).entries = [k \in DOMAIN dbs[d].entries |-> dbs[d].entries[k]]
      BY <3>3 DEF SampleExpired, Without
    <3>5. dbs'[d].entries = [k \in DOMAIN dbs[d].entries |-> dbs[d].entries[k]]
      BY <2>1, <2>3, <3>4
    <3>6. \A x \in DBs \ {d} : dbs'[x] = dbs[x]
      BY <2>1, <2>3
    <3> QED BY Zenon, <3>5, <3>6
  <2>6. \A t \in Int : Restart(t)' = Restart(t) /\ (Ahead(t)' <=> Ahead(t))
    BY <2>2 DEF Restart, Ahead
  <2>7. \A x \in DBs : DeadlinesIn(dbs'[x], due')
    BY <2>1, <2>2, <2>3, <2>4 DEF ExactInv
  <2>8. ASSUME NEW t \in Int, Ahead(t), NEW x \in DBs PROVE Similar(dbs'[x], Restart(t).dbs[x])
    <3>1. Similar(dbs[x], Restart(t).dbs[x])
      BY <2>8 DEF ExactInv
    <3> QED BY <2>5, <2>8, <3>1 DEF Similar
  <2> QED BY <2>2, <2>6, <2>7, <2>8 DEF ExactInv
<1>5. CASE UNCHANGED vars
  BY <1>5 DEF vars, ExactInv, Restart, Ahead
<1> QED BY <1>1, <1>2, <1>3, <1>4, <1>5 DEF Next, Background

\* As long as no deadline that the log or the snapshot mentions has passed, and if
\* emitRecords met none that UnixNano does not convert exactly, recover yields every
\* key in its database with its value, and with its deadline up to the rounding of
\* persistArgs and the time between two readings of the clock.
THEOREM ExactBeforeDeadlinesHolds == Spec => []ExactBeforeDeadlines
<1>1. Spec => [](TypeInv /\ RecoveryInv /\ ExactInv)
  BY TypeInit, TypeStep, ExactInit, ExactStep, PTL DEF Spec
<1>2. TypeInv /\ RecoveryInv /\ ExactInv => ExactBeforeDeadlines
  <2> SUFFICES ASSUME TypeInv, ExactInv, \A t \in due : now < t, \A t \in saved : HasUnixNano(t)
               PROVE  LET rec == Recovered(now) IN
                      \A d \in DBs :
                        /\ DOMAIN rec[d].entries = DOMAIN dbs[d].entries
                        /\ \A k \in DOMAIN dbs[d].entries :
                             LET e == dbs[d].entries[k]  f == rec[d].entries[k] IN
                             /\ f.value = e.value
                             /\ HasExpiry(f) <=> HasExpiry(e)
                             /\ f.expireAt \in e.expireAt - Milli + 1 .. e.expireAt + MaxDrift
    BY DEF ExactBeforeDeadlines
  <2>1. now \in Int /\ Ahead(now)
    <3>1. now \in Int /\ now <= now
      BY SMT, Clock DEF TypeInv
    <3> QED BY <3>1 DEF Ahead
  <2>2. Recovered(now) = Restart(now).dbs
    BY DEF Recovered, Restart
  <2>3. \A d \in DBs : Similar(dbs[d], Recovered(now)[d])
    BY <2>1, <2>2 DEF ExactInv
  <2> HIDE DEF Recovered
  <2> QED BY <2>3 DEF Similar, Near
<1> QED BY <1>1, <1>2, PTL
=============================================================================
