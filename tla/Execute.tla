------------------------------- MODULE Execute -------------------------------
(***************************************************************************)
(* Command execution under the shard locks: Server.execute on every        *)
(* connection goroutine, active expiry and compaction, all competing for   *)
(* the shards' RWMutexes.                                                  *)
(*                                                                         *)
(* A lock is named by its database and its shard.  Of the data only each   *)
(* shard's history is kept: the writes that ran on it, and the writes on   *)
(* it that the append log holds, each in order.  Appending and rotating    *)
(* succeed here: their failures are the subject of module AppendLog.       *)
(***************************************************************************)
EXTENDS Integers, Sequences

CONSTANTS Conns,       \* connection goroutines
          Compactor,   \* the goroutine that runs compact
          Expirer,     \* the goroutine that runs active expiry
          Nobody,      \* no goroutine
          NumDBs, NumShards,
          Keys,        \* the keys that commands name
          Route,       \* indexBytes: the shard of a key, the same in each database
          Requests,    \* the requests that clients send
          MaxWrites,   \* bound: writes that run
          MaxGen       \* bound: rotations of the append log

Procs  == Conns \cup {Compactor, Expirer}
Locks  == (0 .. NumDBs - 1) \X (0 .. NumShards - 1)
Gens   == 0 .. MaxGen
Kinds  == {"read", "write", "whole", "plain"}

ASSUME ExecuteAssumption ==
  /\ Compactor \notin Conns /\ Expirer \notin Conns /\ Compactor # Expirer
  /\ Nobody \notin Procs
  /\ NumDBs \in Nat \ {0} /\ NumShards \in Nat \ {0}
  /\ MaxWrites \in Nat /\ MaxGen \in Nat
  /\ Route \in [Keys -> 0 .. NumShards - 1]
  /\ Requests \subseteq [db : 0 .. NumDBs - 1, keys : SUBSET Keys, kind : Kinds]

VARIABLES
  writer,   \* per lock: the goroutine that holds it exclusively, or Nobody
  pending,  \* per lock: a writer waiting for the readers to leave, or Nobody
  readers,  \* per lock: the goroutines that hold it shared
  parked,   \* per lock: readers waiting for a writer to unlock
  pc,       \* per goroutine: its stage of execute
  need,     \* per goroutine: the locks its command needs
  excl,     \* per goroutine: does it take them exclusively?
  cur,      \* per goroutine: the number of the write it runs
  ran,      \* per shard: the writes that have run on it
  logged,   \* per shard: the writes on it that have been appended
  writes,   \* number of writes so far
  gen,      \* Store.gen
  start,    \* per segment and shard: how many writes earlier segments hold
  base,     \* compact's baseGen
  cut,      \* compact's captured state: per shard, how many writes it contains
  snap      \* the installed snapshot: base generation and contents

mutexes == <<writer, pending, readers, parked>>
command == <<pc, need, excl, cur>>
store   == <<gen, start, base, cut, snap>>
vars    == <<mutexes, command, ran, logged, writes, store>>

\* Type correctness of the mutexes, of the goroutines in execute, expiry and
\* compaction, and of the shards' histories.
TypeOK ==
  /\ writer \in [Locks -> Procs \cup {Nobody}]
  /\ pending \in [Locks -> Procs \cup {Nobody}]
  /\ readers \in [Locks -> SUBSET Procs]
  /\ parked \in [Locks -> SUBSET Procs]
  /\ pc \in [Procs -> {"idle", "locking", "running", "logging", "unlocking",
                       "install"}]
  /\ need \in [Procs -> SUBSET Locks]
  /\ excl \in [Procs -> BOOLEAN]
  /\ cur \in [Procs -> 0 .. MaxWrites]
  /\ ran \in [Locks -> Seq(1 .. MaxWrites)]
  /\ logged \in [Locks -> Seq(1 .. MaxWrites)]
  /\ writes \in 0 .. MaxWrites
  /\ gen \in Gens /\ base \in 0 .. MaxGen + 1
  /\ start \in [Gens -> [Locks -> Nat]]
  /\ cut \in [Locks -> Nat]
  /\ snap \in [base : Gens, cut : [Locks -> Nat]]

-----------------------------------------------------------------------------
(* The locks of a command. *)

\* The order in which lockAllDatabases and LockAll go through the locks.
Before(i, j) == i[1] < j[1] \/ (i[1] = j[1] /\ i[2] < j[2])

DBLocks(db) == {db} \X (0 .. NumShards - 1)

\* lockShards and the single-key path of execute: all shards of the database,
\* or the shards of the command's keys; a plain command names no keys.
LocksOf(r) ==
  IF r.kind = "whole" THEN DBLocks(r.db)
  ELSE {<<r.db, Route[k]>> : k \in IF r.kind = "plain" THEN {} ELSE r.keys}

Held(p)   == {i \in Locks : writer[i] = p \/ p \in readers[i]}
Wanted(p) == need[p] \ Held(p)

\* Mutant: locks are taken in any order.
InAnyOrder(p, i) == i \in Wanted(p)

\* shardSet sorts, LockAll and lockAllDatabases count upwards: locks are taken
\* in ascending order.
InTurn(p, i) == i \in Wanted(p) /\ \A j \in Wanted(p) : ~Before(j, i)

-----------------------------------------------------------------------------
(* sync.RWMutex.  A writer first announces itself, which keeps new readers  *)
(* out, then waits for the readers to leave.  Its Unlock lets in all the    *)
(* readers that have parked meanwhile.                                      *)

Announce(p, i) ==
  /\ writer[i] = Nobody /\ pending[i] = Nobody
  /\ pending' = [pending EXCEPT ![i] = p]
  /\ UNCHANGED <<writer, readers, parked>>

Acquire(p, i) ==
  /\ pending[i] = p /\ readers[i] = {}
  /\ pending' = [pending EXCEPT ![i] = Nobody]
  /\ writer' = [writer EXCEPT ![i] = p]
  /\ UNCHANGED <<readers, parked>>

RLock(p, i) ==
  /\ writer[i] = Nobody /\ pending[i] = Nobody
  /\ readers' = [readers EXCEPT ![i] = @ \cup {p}]
  /\ UNCHANGED <<writer, pending, parked>>

Park(p, i) ==
  /\ writer[i] # Nobody \/ pending[i] # Nobody
  /\ p \notin parked[i]
  /\ parked' = [parked EXCEPT ![i] = @ \cup {p}]
  /\ UNCHANGED <<writer, pending, readers>>

Unlock(i) ==
  /\ writer' = [writer EXCEPT ![i] = Nobody]
  /\ readers' = [readers EXCEPT ![i] = parked[i]]
  /\ parked' = [parked EXCEPT ![i] = {}]
  /\ UNCHANGED pending

RUnlock(p, i) ==
  /\ readers' = [readers EXCEPT ![i] = @ \ {p}]
  /\ UNCHANGED <<writer, pending, parked>>

-----------------------------------------------------------------------------
(* Taking and releasing the locks of a command, one at a time. *)

LockAnnounce(p) ==
  /\ pc[p] = "locking" /\ excl[p]
  /\ \E i \in Locks : InTurn(p, i) /\ Announce(p, i)
  /\ UNCHANGED <<command, ran, logged, writes, store>>

LockAcquire(p) ==
  /\ pc[p] = "locking" /\ excl[p]
  /\ \E i \in Locks : InTurn(p, i) /\ Acquire(p, i)
  /\ UNCHANGED <<command, ran, logged, writes, store>>

LockShared(p) ==
  /\ pc[p] = "locking" /\ ~excl[p]
  /\ \E i \in Locks : InTurn(p, i) /\ (RLock(p, i) \/ Park(p, i))
  /\ UNCHANGED <<command, ran, logged, writes, store>>

\* Mutant: the body runs as soon as the first lock is held.
LockedFirst(p) ==
  /\ pc[p] = "locking" /\ (need[p] = {} \/ Held(p) # {})
  /\ pc' = [pc EXCEPT ![p] = "running"]
  /\ UNCHANGED <<mutexes, need, excl, cur, ran, logged, writes, store>>

\* All locks are held: the body runs.
Locked(p) ==
  /\ pc[p] = "locking" /\ Wanted(p) = {}
  /\ pc' = [pc EXCEPT ![p] = "running"]
  /\ UNCHANGED <<mutexes, need, excl, cur, ran, logged, writes, store>>

\* The deferred unlock, in descending order.
Release(p) ==
  /\ pc[p] = "unlocking"
  /\ \E i \in Held(p) :
       /\ \A j \in Held(p) : ~Before(i, j)
       /\ IF excl[p] THEN Unlock(i) ELSE RUnlock(p, i)
  /\ UNCHANGED <<command, ran, logged, writes, store>>

\* All is unlocked.  The compactor goes on to InstallSnapshot, off the locks.
Released(p) ==
  /\ pc[p] = "unlocking" /\ Held(p) = {}
  /\ pc' = [pc EXCEPT ![p] = IF p = Compactor THEN "install" ELSE "idle"]
  /\ need' = [need EXCEPT ![p] = {}]
  /\ excl' = [excl EXCEPT ![p] = FALSE]
  /\ cur' = [cur EXCEPT ![p] = 0]
  /\ UNCHANGED <<mutexes, ran, logged, writes, store>>

-----------------------------------------------------------------------------
(* A connection: execute. *)

Begin(p, locks, exclusive) ==
  /\ pc[p] = "idle"
  /\ pc' = [pc EXCEPT ![p] = "locking"]
  /\ need' = [need EXCEPT ![p] = locks]
  /\ excl' = [excl EXCEPT ![p] = exclusive]

Request(c, r) ==
  /\ writes < MaxWrites
  /\ Begin(c, LocksOf(r), r.kind # "read")
  /\ UNCHANGED <<mutexes, cur, ran, logged, writes, store>>

\* Mutants: a write that is not logged; and one logged under an old number.
RunWriteUnlogged(c) ==
  /\ pc[c] = "running" /\ excl[c]
  /\ writes < MaxWrites
  /\ writes' = writes + 1
  /\ cur' = [cur EXCEPT ![c] = writes + 1]
  /\ ran' = [i \in Locks |-> IF i \in need[c] THEN Append(ran[i], writes + 1)
                             ELSE ran[i]]
  /\ pc' = [pc EXCEPT ![c] = "unlocking"]
  /\ UNCHANGED <<mutexes, need, excl, logged, store>>

RunWriteStale(c) ==
  /\ pc[c] = "running" /\ excl[c]
  /\ writes < MaxWrites
  /\ writes' = writes + 1
  /\ ran' = [i \in Locks |-> IF i \in need[c] THEN Append(ran[i], writes + 1)
                             ELSE ran[i]]
  /\ pc' = [pc EXCEPT ![c] = "logging"]
  /\ UNCHANGED <<mutexes, need, excl, cur, logged, store>>

\* cmd.Run: a write changes the shards it has locked; a read changes nothing,
\* and neither does a command that replies with an error, which is not logged.
RunWrite(c) ==
  /\ pc[c] = "running" /\ excl[c]
  /\ writes < MaxWrites
  /\ writes' = writes + 1
  /\ cur' = [cur EXCEPT ![c] = writes + 1]
  /\ ran' = [i \in Locks |-> IF i \in need[c] THEN Append(ran[i], writes + 1)
                             ELSE ran[i]]
  /\ pc' = [pc EXCEPT ![c] = "logging"]
  /\ UNCHANGED <<mutexes, need, excl, logged, store>>

\* Mutant: a command is tried again, with its locks held.
RunRetries(c) ==
  /\ pc[c] = "running"
  /\ pc' = [pc EXCEPT ![c] = "locking"]
  /\ UNCHANGED <<mutexes, need, excl, cur, ran, logged, writes, store>>

RunReadOrError(c) ==
  /\ pc[c] = "running"
  /\ pc' = [pc EXCEPT ![c] = "unlocking"]
  /\ UNCHANGED <<mutexes, need, excl, cur, ran, logged, writes, store>>

\* Store.Append, with the shard locks still held.
Log(c) ==
  /\ pc[c] = "logging"
  /\ logged' = [i \in Locks |-> IF i \in need[c] THEN Append(logged[i], cur[c])
                                ELSE logged[i]]
  /\ pc' = [pc EXCEPT ![c] = "unlocking"]
  /\ UNCHANGED <<mutexes, need, excl, cur, ran, writes, store>>

-----------------------------------------------------------------------------
(* Active expiry: ExpireCycle locks one shard at a time; what it evicts is  *)
(* not logged.                                                              *)

ExpireShard(i) ==
  /\ Begin(Expirer, {i}, TRUE)
  /\ UNCHANGED <<mutexes, cur, ran, logged, writes, store>>

SampleExpired ==
  /\ pc[Expirer] = "running"
  /\ pc' = [pc EXCEPT ![Expirer] = "unlocking"]
  /\ UNCHANGED <<mutexes, need, excl, cur, ran, logged, writes, store>>

-----------------------------------------------------------------------------
(* Compaction: compact. *)

\* Mutant: compaction locks the first shard of each database only.
CompactBeginPartial ==
  /\ gen < MaxGen
  /\ Begin(Compactor, {i \in Locks : i[2] = 0}, TRUE)
  /\ base' = gen + 1
  /\ UNCHANGED <<mutexes, cur, ran, logged, writes, gen, start, cut, snap>>

\* NextGen, then lockAllDatabases.
CompactBegin ==
  /\ gen < MaxGen
  /\ Begin(Compactor, Locks, TRUE)
  /\ base' = gen + 1
  /\ UNCHANGED <<mutexes, cur, ran, logged, writes, gen, start, cut, snap>>

\* WriteSnapshot into memory.
Capture ==
  /\ pc[Compactor] = "running"
  /\ cut' = [i \in Locks |-> Len(ran[i])]
  /\ pc' = [pc EXCEPT ![Compactor] = "logging"]
  /\ UNCHANGED <<mutexes, need, excl, cur, ran, logged, writes, gen, start, base,
                 snap>>

\* Rotate: later appends go to the next segment.
Rotate ==
  /\ pc[Compactor] = "logging"
  /\ gen' = gen + 1
  /\ start' = [start EXCEPT ![gen + 1] = [i \in Locks |-> Len(logged[i])]]
  /\ pc' = [pc EXCEPT ![Compactor] = "unlocking"]
  /\ UNCHANGED <<mutexes, need, excl, cur, ran, logged, writes, base, cut, snap>>

\* InstallSnapshot succeeds, or fails and leaves the previous snapshot.
Install ==
  /\ pc[Compactor] = "install"
  /\ snap' \in {[base |-> base, cut |-> cut], snap}
  /\ pc' = [pc EXCEPT ![Compactor] = "idle"]
  /\ UNCHANGED <<mutexes, need, excl, cur, ran, logged, writes, gen, start, base,
                 cut>>

-----------------------------------------------------------------------------
Init ==
  /\ writer = [i \in Locks |-> Nobody] /\ pending = [i \in Locks |-> Nobody]
  /\ readers = [i \in Locks |-> {}] /\ parked = [i \in Locks |-> {}]
  /\ pc = [p \in Procs |-> "idle"] /\ need = [p \in Procs |-> {}]
  /\ excl = [p \in Procs |-> FALSE] /\ cur = [p \in Procs |-> 0]
  /\ ran = [i \in Locks |-> <<>>] /\ logged = [i \in Locks |-> <<>>]
  /\ writes = 0 /\ gen = 0 /\ base = 0
  /\ start = [g \in Gens |-> [i \in Locks |-> 0]]
  /\ cut = [i \in Locks |-> 0]
  /\ snap = [base |-> 0, cut |-> [i \in Locks |-> 0]]

Locking(p) ==
  \/ LockAnnounce(p) \/ LockAcquire(p) \/ LockShared(p) \/ Locked(p)
  \/ Release(p) \/ Released(p)

Body(c) == RunWrite(c) \/ RunReadOrError(c) \/ Log(c)

Compact == Capture \/ Rotate \/ Install

Next ==
  \/ \E p \in Procs : Locking(p)
  \/ \E c \in Conns : Body(c) \/ \E r \in Requests : Request(c, r)
  \/ SampleExpired \/ \E i \in Locks : ExpireShard(i)
  \/ Compact \/ CompactBegin

Spec == Init /\ [][Next]_vars

\* Every goroutine that can run is scheduled.  Writers compete for the mutex
\* inside an RWMutex, a sync.Mutex, whose starvation mode serves them in turn.
Fairness ==
  /\ \A p \in Procs :
       /\ SF_vars(LockAnnounce(p))
       /\ WF_vars(LockAcquire(p)) /\ WF_vars(LockShared(p))
       /\ WF_vars(Locked(p)) /\ WF_vars(Release(p)) /\ WF_vars(Released(p))
  /\ \A c \in Conns : WF_vars(Body(c))
  /\ WF_vars(SampleExpired) /\ WF_vars(Compact)

FairSpec == Spec /\ Fairness

-----------------------------------------------------------------------------
(* Correctness. *)

InBody(p) == pc[p] \in {"running", "logging"}

\* "Writes mutate the map and run under the shard's exclusive lock"
\* (keyspace.go:19-20): two goroutines inside their command bodies, expiry and
\* compaction included, share a shard only if both merely read it.
Exclusion ==
  \A p, q \in Procs :
    p # q /\ InBody(p) /\ InBody(q) /\ need[p] \cap need[q] # {}
      => ~excl[p] /\ ~excl[q]

\* The log order of the writes on a shard is the order in which they ran: the
\* log lags behind by at most the one write that is about to be appended.
LogFollowsRuns ==
  \A i \in Locks :
    /\ Len(logged[i]) \in {Len(ran[i]), Len(ran[i]) - 1}
    /\ logged[i] = SubSeq(ran[i], 1, Len(logged[i]))

\* "no write straddles the boundary" (appendlog.go:127-128): on every shard the
\* installed snapshot contains exactly the writes logged before its base
\* segment, so that replay from there neither skips nor repeats one.
SnapshotCut == snap.base > 0 => snap.cut = start[snap.base]

\* q keeps p from taking its next lock.
WaitsFor(p, q) ==
  /\ pc[p] = "locking" /\ p # q
  /\ \E i \in Locks :
       /\ InTurn(p, i)
       /\ writer[i] = q \/ pending[i] = q \/ (excl[p] /\ q \in readers[i])

\* Goroutines never wait for each other in a circle ("it cannot deadlock
\* against single-database commands", server.go:380).
NoCircularWait ==
  LET waits == {e \in Procs \X Procs : WaitsFor(e[1], e[2])}
  IN  ~ \E S \in (SUBSET Procs) \ {{}} : \A p \in S : \E q \in S : <<p, q>> \in waits

\* Every command, and every compaction, that starts to take its locks gets
\* them all and finishes, whatever the other goroutines keep requesting.
Served ==
  \A p \in Conns \cup {Compactor} : pc[p] = "locking" ~> pc[p] = "idle"
=============================================================================
