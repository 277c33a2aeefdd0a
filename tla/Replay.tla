------------------------------- MODULE Replay -------------------------------
(***************************************************************************)
(* What the append log and the snapshot record of the databases, and what  *)
(* recovery makes of them: sessions with SELECT, persistArgs, emitRecords  *)
(* and Server.recover over the handlers of module Commands, with a clock.  *)
(*                                                                         *)
(* Recovered(t) are the databases that a server restarted at time t would  *)
(* begin with, so that a crash needs no action of its own.  That the disk  *)
(* holds the log and the snapshot at all is the matter of AppendLog.       *)
(***************************************************************************)
EXTENDS Commands, Functions

CONSTANTS Conns,       \* the connections, each with a session
          Databases,   \* the number of databases
          Cmds,        \* the commands that clients send
          Keys,        \* the keys they name
          StartTime,   \* reading of the clock at the beginning
          MaxTime,     \* bound: last reading of the clock
          MaxDrift,    \* bound: ticks between two clock readings of a command
          MaxLog       \* bound: commands in the log

DBs == 0 .. Databases - 1

\* A deadline in milliseconds, written as a number, reads back as a number.
ASSUME ReplayAssumption ==
  /\ Databases \in Nat \ {0}
  /\ \A c \in Cmds : Resolved(c) /\ c.keys \in Seq(Keys)
  /\ \A at \in StartTime - MaxDuration .. MaxTime + MaxDuration : MilliOf(at) # Text
  /\ StartTime \in Nat /\ MaxTime \in Nat /\ MaxDrift \in Nat /\ MaxLog \in Nat
  /\ Epoch < StartTime /\ StartTime <= MaxTime

VARIABLES dbs,   \* the databases in memory
          index, \* the database that each session has selected
          now,   \* the clock
          log,   \* the commands logged since the snapshot, each with a database
          snap,  \* the snapshot: per database and key, value and deadline as written
          due,   \* history: every deadline set since, and in, the snapshot
          saved  \* history: the deadlines in memory when the snapshot was taken

vars == <<dbs, index, now, log, snap, due, saved>>

-----------------------------------------------------------------------------
(* Sessions: what a command does to the databases and to the session, which *)
(* has selected database i.                                                 *)

State(d, i, failed) == [dbs |-> d, index |-> i, error |-> failed]

\* Context.Select: an index out of range is an error and changes nothing.
Select(s, i) == IF i \in DBs THEN State(s.dbs, i, FALSE) ELSE State(s.dbs, s.index, TRUE)

\* Registry.Dispatch with a session.  "plain" stands for PING and CONFIG.
Run(s, c, t) ==
  IF c.op = "select" THEN Select(s, c.xs[1])
  ELSE IF c.op = "plain" THEN State(s.dbs, s.index, FALSE)
  ELSE LET r == Dispatch(c, s.dbs[s.index], t)
       IN  State([s.dbs EXCEPT ![s.index] = r.ks], s.index, r.error)

-----------------------------------------------------------------------------
(* The log. *)

\* Mutant: EXPIRE is logged as it came.
persistArgsRaw(c, t) == c

\* persistArgs: EXPIRE becomes PEXPIREAT, with the clock read a second time;
\* other commands are logged as they came.
persistArgs(c, t) ==
  IF c.op = "expire" /\ c.xs[1] # Text
    THEN [op |-> "pexpireat", keys |-> c.keys, xs |-> <<MilliOf(t + Seconds(c.xs[1]))>>]
    ELSE c

\* The deadlines that a command sets, in memory and in the log.
Deadlines(c, t1, t2) ==
  CASE c.op = "expire"    -> {t1 + Seconds(c.xs[1]), UnixMilli(persistArgs(c, t2).xs[1])}
    [] c.op = "pexpireat" -> {UnixMilli(c.xs[1])}
    [] OTHER              -> {}

-----------------------------------------------------------------------------
(* The snapshot: a deadline is written in nanoseconds since the epoch, and  *)
(* as zero if there is none.                                                *)

\* Time.UnixNano, in int64: what lies outside 1678 .. 2262 wraps around.
UnixNano(at) == Int64(at - Epoch)

\* The times that it converts exactly.
HasUnixNano(at) == at - Epoch \in -MaxDuration .. MaxDuration - 1

emitRecords ==
  [d \in DBs |-> [k \in DOMAIN dbs[d].entries |->
     LET e == dbs[d].entries[k]
     IN  [value |-> e.value, nano |-> IF HasExpiry(e) THEN UnixNano(e.expireAt) ELSE 0]]]

RestoredEntry(rec) == Entry(rec.value, IF rec.nano # 0 THEN Epoch + rec.nano ELSE ZeroTime)

\* Mutant: restored keys are not indexed.
RestoredUnindexed(s) ==
  [entries |-> [k \in DOMAIN s |-> RestoredEntry(s[k])], withTTL |-> {}]

\* recover's restore callback, for all records of one database.
Restored(s) ==
  [entries |-> [k \in DOMAIN s |-> RestoredEntry(s[k])],
   withTTL |-> {k \in DOMAIN s : HasExpiry(RestoredEntry(s[k]))}]

\* Mutant: replay leaves it to the logged SELECTs to change the database.
replaySelects(s, rec, t) == Run(s, rec.cmd, t)

\* recover's replay callback: one session for the whole log, which selects the
\* database of each record and dispatches the command.
replay(s, rec, t) == Run(Select(s, rec.db), rec.cmd, t)

\* replaySegments: the records of a log, one after the other.
replaySegments(start, records, t) ==
  LET after[n \in 0 .. Len(records)] ==
        IF n = 0 THEN start ELSE replay(after[n - 1], records[n], t)
  IN  after[Len(records)]

\* recover: load the snapshot and replay the log, by the clock of the restarted
\* server.
Recovered(t) ==
  replaySegments(State([d \in DBs |-> Restored(snap[d])], 0, FALSE), log, t).dbs

-----------------------------------------------------------------------------
Init ==
  /\ dbs = [d \in DBs |-> EmptyKeyspace]
  /\ index = [conn \in Conns |-> 0]
  /\ now = StartTime
  /\ log = <<>>
  /\ snap = emitRecords
  /\ due = {}
  /\ saved = {}

\* execute: a command that is not read-only and does not fail is logged, with the
\* database that is selected after it.  The clock may move on between the
\* handler's reading and the one of persistArgs.
Command(conn, c) ==
  LET r == Run(State(dbs, index[conn], FALSE), c, now) IN
  /\ ~ReadOnly(c) /\ ~r.error
  /\ Len(log) < MaxLog
  /\ dbs' = r.dbs
  /\ index' = [index EXCEPT ![conn] = r.index]
  /\ now' \in IF c.op = "expire" THEN now .. Least(now + MaxDrift, MaxTime) ELSE {now}
  /\ log' = Append(log, [db |-> r.index, cmd |-> persistArgs(c, now')])
  /\ due' = due \cup Deadlines(c, now, now')
  /\ UNCHANGED <<snap, saved>>

Tick ==
  /\ now < MaxTime
  /\ now' = now + 1
  /\ UNCHANGED <<dbs, index, log, snap, due, saved>>

\* Active expiry examines some keys of a database; it is not logged.
Expire(d) ==
  /\ \E S \in SUBSET dbs[d].withTTL : dbs' = [dbs EXCEPT ![d] = SampleExpired(@, S, now)]
  /\ UNCHANGED <<index, now, log, snap, due, saved>>

\* compact: the snapshot takes the place of the log.
Compact ==
  /\ snap' = emitRecords
  /\ log' = <<>>
  /\ saved' = {e.expireAt : e \in {f \in UNION {Range(dbs[d].entries) : d \in DBs} : HasExpiry(f)}}
  /\ due' = saved'
  /\ UNCHANGED <<dbs, index, now>>

Background == Tick \/ Compact \/ \E d \in DBs : Expire(d)

Next == Background \/ \E conn \in Conns, c \in Cmds : Command(conn, c)

Spec == Init /\ [][Next]_vars

-----------------------------------------------------------------------------
(* Correctness. *)

\* Type correctness; the log holds no relative deadline, persistArgs having
\* rewritten every EXPIRE (conn.go:155-163).
TypeOK ==
  /\ \A d \in DBs : DOMAIN dbs[d].entries \subseteq Keys /\ dbs[d].withTTL \subseteq Keys
  /\ index \in [Conns -> DBs]
  /\ now \in StartTime .. MaxTime
  /\ Len(log) <= MaxLog
  /\ \A i \in 1 .. Len(log) : log[i].db \in DBs /\ log[i].cmd.op # "expire"
  /\ \A d \in DBs : DOMAIN snap[d] \subseteq Keys /\ \A k \in DOMAIN snap[d] : snap[d][k].nano \in Int
  /\ due \subseteq Int /\ saved \subseteq Int

\* "an absolute deadline so replay does not depend on when it runs"
\* (conn.go:152-154), as far as it goes: as long as none of the deadlines that
\* the log and the snapshot mention has passed, and if int64 held those that the
\* snapshot mentions in nanoseconds (server.go:402), recovery yields every key in
\* its database, with its value, however the sessions have interleaved SELECT and
\* writes; its deadline is the one in memory up to the rounding to milliseconds
\* and the time between the two readings of the clock.
ExactBeforeDeadlines ==
  (\A t \in due : now < t) /\ (\A t \in saved : HasUnixNano(t)) =>
    LET rec == Recovered(now) IN
    \A d \in DBs :
      /\ DOMAIN rec[d].entries = DOMAIN dbs[d].entries
      /\ \A k \in DOMAIN dbs[d].entries :
           LET e == dbs[d].entries[k]  f == rec[d].entries[k] IN
           /\ f.value = e.value
           /\ HasExpiry(f) <=> HasExpiry(e)
           /\ f.expireAt \in e.expireAt - Milli + 1 .. e.expireAt + MaxDrift

\* The recovered TTL indexes are complete, at whatever time recovery runs.
RecoveredIndexed ==
  \A rec \in Range(Recovered(now)) :
    /\ rec.withTTL \subseteq DOMAIN rec.entries
    /\ \A k \in DOMAIN rec.entries : HasExpiry(rec.entries[k]) => k \in rec.withTTL

\* "replaying the log produces the same deadlines regardless of when replay runs"
\* (ARCHITECTURE.md:140-141): whenever the server is restarted, clients see the
\* keys, with the values, that they would have seen without the restart.
SameWhenever ==
  \A d \in DBs, k \in Keys :
    LET rec == Recovered(now)[d] IN
    /\ Live(rec, k, now) <=> Live(dbs[d], k, now)
    /\ Live(dbs[d], k, now) => rec.entries[k].value = dbs[d].entries[k].value
=============================================================================
