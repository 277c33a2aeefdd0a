---------------------------- MODULE ExecuteProofs ----------------------------
(***************************************************************************)
(* Proofs about Execute, for any number of connections, databases, shards, *)
(* keys and requests: the types, mutual exclusion on the shards, the order *)
(* of the log, the cut between the snapshot and the log, and that no       *)
(* goroutines wait for each other in a circle.                             *)
(***************************************************************************)
EXTENDS Execute, WellFoundedInduction, TLAPS

\* Most leaves are first-order reasoning about sets and functions; the ones that
\* need arithmetic or many case splits name SMT.
USE Zenon, SMT

\* A goroutine between its first Lock and its last Unlock.
Busy(p) == pc[p] \in {"locking", "running", "logging", "unlocking"}

\* An RWMutex: a writer is alone, and who holds it, waits for it or has parked
\* is a goroutine that needs it, in the mode it asked for.
LockInv(i) ==
  /\ writer[i] # Nobody => readers[i] = {} /\ pending[i] = Nobody
  /\ parked[i] # {} => writer[i] # Nobody \/ pending[i] # Nobody
  /\ parked[i] \cap readers[i] = {}
  /\ \A p \in Procs :
       /\ writer[i] = p => Busy(p) /\ excl[p] /\ i \in need[p]
       /\ p \in readers[i] => Busy(p) /\ ~excl[p] /\ i \in need[p]
       /\ p \in parked[i] => pc[p] = "locking" /\ ~excl[p] /\ i \in need[p]
       /\ pending[i] = p => pc[p] = "locking" /\ excl[p] /\ i \in need[p]

MutexInv == \A i \in Locks : LockInv(i)

\* Inside a command body every lock of the command is held.
BodyInv == \A p \in Procs : InBody(p) => need[p] \subseteq Held(p)

\* A shard's log is complete, except for the write of a connection that is
\* about to append it and holds the shard.
RunsInv ==
  /\ \A c \in Conns : pc[c] = "logging" =>
       excl[c] /\ cur[c] \in 1 .. MaxWrites
       /\ \A i \in need[c] : ran[i] = Append(logged[i], cur[c])
  /\ \A i \in Locks :
       ran[i] = logged[i] \/ \E c \in Conns : pc[c] = "logging" /\ i \in need[c]

\* The stages of a compaction: baseGen is the generation after the active one
\* until Rotate, and then the active one; the captured state is what the log
\* held at Rotate.
CompactInv ==
  /\ Busy(Compactor) => need[Compactor] = Locks /\ excl[Compactor]
  /\ pc[Compactor] \in {"locking", "running", "logging"} =>
       base = gen + 1 /\ base \in Gens
  /\ pc[Compactor] = "logging" => cut = [i \in Locks |-> Len(logged[i])]
  /\ pc[Compactor] \in {"unlocking", "install"} =>
       base = gen /\ cut = start[gen]
  /\ snap.base <= gen
  /\ SnapshotCut

\* The inductive invariant.
IInv == TypeOK /\ MutexInv /\ BodyInv /\ RunsInv /\ CompactInv

-----------------------------------------------------------------------------
(* The types. *)

\* A request names locks of its database.
LEMMA RequestTypes ==
  ASSUME NEW r \in Requests
  PROVE  LocksOf(r) \subseteq Locks
BY SMT, ExecuteAssumption DEF LocksOf, DBLocks, Locks

\* Every step preserves the types; Rotate and Install need the stage of the
\* compaction for it.
LEMMA TypeStep ==
  ASSUME IInv, Next
  PROVE  TypeOK'
<1> USE ExecuteAssumption DEF IInv, TypeOK
<1>1. ASSUME NEW p \in Procs, Locking(p) PROVE TypeOK'
  <2>1. CASE LockAnnounce(p)
    <3>0. PICK i \in Locks : Announce(p, i)
      BY <2>1 DEF LockAnnounce
    <3>1. pending' \in [Locks -> Procs \cup {Nobody}]
      BY <3>0 DEF Announce
    <3> QED BY <2>1, <3>1 DEF LockAnnounce, Announce, command, store
  <2>2. CASE LockAcquire(p)
    <3>1. PICK i \in Locks : Acquire(p, i)
      BY <2>2 DEF LockAcquire
    <3>2. pending' \in [Locks -> Procs \cup {Nobody}]
      BY <3>1 DEF Acquire
    <3>3. writer' \in [Locks -> Procs \cup {Nobody}]
      BY <3>1 DEF Acquire
    <3> QED BY <2>2, <3>1, <3>2, <3>3 DEF LockAcquire, Acquire, command, store
  <2>3. CASE LockShared(p)
    <3>1. PICK i \in Locks : RLock(p, i) \/ Park(p, i)
      BY <2>3 DEF LockShared
    <3>2. readers[i] \cup {p} \in SUBSET Procs /\ parked[i] \cup {p} \in SUBSET Procs
      OBVIOUS
    <3>3. readers' \in [Locks -> SUBSET Procs] /\ parked' \in [Locks -> SUBSET Procs]
      <4>1. CASE RLock(p, i)
        BY <3>2, <4>1 DEF RLock
      <4>2. CASE Park(p, i)
        BY <3>2, <4>2 DEF Park
      <4> QED BY <3>1, <4>1, <4>2
    <3> QED BY <2>3, <3>1, <3>3 DEF LockShared, RLock, Park, command, store
  <2>4. CASE Locked(p)
    BY <2>4 DEF Locked, mutexes, store
  <2>5. CASE Release(p)
    <3>1. PICK i \in Locks : Unlock(i) \/ RUnlock(p, i)
      BY <2>5 DEF Release, Held
    <3>2. {} \in SUBSET Procs /\ readers[i] \ {p} \in SUBSET Procs
      OBVIOUS
    <3>3. writer' \in [Locks -> Procs \cup {Nobody}] /\ pending' = pending
      BY <3>1 DEF Unlock, RUnlock
    <3>4. readers' \in [Locks -> SUBSET Procs]
      BY <3>1, <3>2 DEF Unlock, RUnlock
    <3>5. parked' \in [Locks -> SUBSET Procs]
      BY <3>1, <3>2 DEF Unlock, RUnlock
    <3> QED BY <2>5, <3>3, <3>4, <3>5 DEF Release, command, store
  <2>6. CASE Released(p)
    BY SMT, <2>6 DEF Released, mutexes, store
  <2> QED BY <1>1, <2>1, <2>2, <2>3, <2>4, <2>5, <2>6 DEF Locking
<1>2. ASSUME NEW c \in Conns, Body(c) PROVE TypeOK'
  <2>1. CASE RunWrite(c)
    <3>1. writes + 1 \in 1 .. MaxWrites
      BY SMT, <2>1 DEF RunWrite
    <3>2. \A i \in Locks : Append(ran[i], writes + 1) \in Seq(1 .. MaxWrites)
      BY SMT, <3>1
    <3>3. ran' \in [Locks -> Seq(1 .. MaxWrites)]
      BY <2>1, <3>2 DEF RunWrite
    <3> QED BY SMT, <2>1, <3>1, <3>3 DEF RunWrite, Procs, mutexes, store
  <2>2. CASE RunReadOrError(c)
    BY <2>2 DEF RunReadOrError, mutexes, store
  <2>3. CASE Log(c)
    <3>1. cur[c] \in 1 .. MaxWrites
      BY <2>3 DEF Log, RunsInv
    <3>2. \A i \in Locks : Append(logged[i], cur[c]) \in Seq(1 .. MaxWrites)
      BY SMT, <3>1
    <3>3. logged' \in [Locks -> Seq(1 .. MaxWrites)]
      BY <2>3, <3>2 DEF Log
    <3> QED BY <2>3, <3>3 DEF Log, mutexes, store
  <2> QED BY <1>2, <2>1, <2>2, <2>3 DEF Body
<1>3. ASSUME NEW c \in Conns, NEW r \in Requests, Request(c, r) PROVE TypeOK'
  BY <1>3, RequestTypes DEF Request, Begin, Procs, mutexes, store
<1>4. CASE SampleExpired
  BY <1>4 DEF SampleExpired, mutexes, store
<1>5. ASSUME NEW i \in Locks, ExpireShard(i) PROVE TypeOK'
  BY <1>5 DEF ExpireShard, Begin, mutexes, store
<1>6. CASE Capture
  <2>1. \A i \in Locks : Len(ran[i]) \in Nat
    BY SMT
  <2> QED BY <1>6, <2>1 DEF Capture, mutexes
<1>7. CASE Rotate
  <2>1. [i \in Locks |-> Len(logged[i])] \in [Locks -> Nat]
    BY SMT
  <2>2. gen + 1 \in Gens
    BY <1>7 DEF Rotate, CompactInv
  <2> QED BY <1>7, <2>1, <2>2 DEF Rotate, mutexes
<1>8. CASE Install
  <2>1. [base |-> base, cut |-> cut] \in [base : Gens, cut : [Locks -> Nat]]
    BY <1>8 DEF Install, CompactInv
  <2> QED BY <1>8, <2>1 DEF Install, mutexes
<1>9. CASE CompactBegin
  <2>1. gen + 1 \in Gens
    BY SMT, <1>9 DEF CompactBegin, Gens
  <2>2. Compactor \in Procs
    BY DEF Procs
  <2>3. base' \in 0 .. MaxGen + 1
    BY SMT, <1>9, <2>1 DEF CompactBegin, Gens
  <2>4. pc' \in [Procs -> {"idle", "locking", "running", "logging", "unlocking", "install"}]
    BY <1>9, <2>2 DEF CompactBegin, Begin
  <2>5. need' \in [Procs -> SUBSET Locks] /\ excl' \in [Procs -> BOOLEAN]
    BY <1>9, <2>2 DEF CompactBegin, Begin
  <2> QED BY <1>9, <2>3, <2>4, <2>5 DEF CompactBegin, mutexes
<1> QED BY <1>1, <1>2, <1>3, <1>4, <1>5, <1>6, <1>7, <1>8, <1>9 DEF Next, Compact

-----------------------------------------------------------------------------
(* The locks. *)

\* Every step preserves what is known of each RWMutex.
LEMMA MutexStep ==
  ASSUME IInv, Next
  PROVE  MutexInv'
<1> SUFFICES ASSUME NEW j \in Locks PROVE LockInv(j)'
  BY DEF MutexInv
<1>t. /\ writer \in [Locks -> Procs \cup {Nobody}] /\ Nobody \notin Procs
      /\ pending \in [Locks -> Procs \cup {Nobody}]
      /\ readers \in [Locks -> SUBSET Procs] /\ parked \in [Locks -> SUBSET Procs]
      /\ DOMAIN pc = Procs /\ DOMAIN need = Procs /\ DOMAIN excl = Procs
  BY ExecuteAssumption DEF IInv, TypeOK
<1>i. LockInv(j) /\ \A i \in Locks : LockInv(i)
  BY DEF IInv, MutexInv
<1> USE <1>t, <1>i
<1>1. ASSUME NEW p \in Procs, Locking(p) PROVE LockInv(j)'
  <2>1. CASE LockAnnounce(p)
    <3>1. PICK i \in Locks : InTurn(p, i) /\ Announce(p, i)
      BY <2>1 DEF LockAnnounce
    <3> QED BY SMT, <2>1, <3>1 DEF LockAnnounce, Announce, InTurn, Wanted, LockInv, Busy, command
  <2>2. CASE LockAcquire(p)
    <3>1. PICK i \in Locks : InTurn(p, i) /\ Acquire(p, i)
      BY <2>2 DEF LockAcquire
    <3> QED BY SMT, <2>2, <3>1 DEF LockAcquire, Acquire, InTurn, Wanted, LockInv, Busy, command
  <2>3. CASE LockShared(p)
    <3>1. PICK i \in Locks : InTurn(p, i) /\ (RLock(p, i) \/ Park(p, i))
      BY <2>3 DEF LockShared
    <3>2. CASE RLock(p, i)
      BY SMT, <2>3, <3>1, <3>2 DEF LockShared, RLock, InTurn, Wanted, LockInv, Busy, command
    <3>3. CASE Park(p, i)
      BY SMT, <2>3, <3>1, <3>3 DEF LockShared, Park, InTurn, Wanted, Held, LockInv, Busy, command
    <3> QED BY <3>1, <3>2, <3>3
  <2>4. CASE Locked(p)
    BY SMT, <2>4 DEF Locked, Wanted, Held, LockInv, Busy, mutexes
  <2>5. CASE Release(p)
    <3>1. PICK i \in Held(p) : IF excl[p] THEN Unlock(i) ELSE RUnlock(p, i)
      BY <2>5 DEF Release
    <3>2. i \in Locks
      BY DEF Held
    <3>3. CASE excl[p]
      BY SMT, <2>5, <3>1, <3>2, <3>3 DEF Release, Unlock, Held, LockInv, Busy, command
    <3>4. CASE ~excl[p]
      BY SMT, <2>5, <3>1, <3>2, <3>4 DEF Release, RUnlock, Held, LockInv, Busy, command
    <3> QED BY <3>3, <3>4
  <2>6. CASE Released(p)
    BY SMT, <2>6 DEF Released, Held, LockInv, Busy, mutexes
  <2> QED BY <1>1, <2>1, <2>2, <2>3, <2>4, <2>5, <2>6 DEF Locking
<1>2. ASSUME NEW c \in Conns, Body(c) PROVE LockInv(j)'
  BY SMT, <1>2 DEF Body, RunWrite, RunReadOrError, Log, LockInv, Busy, Procs, mutexes
<1>3. ASSUME NEW c \in Conns, NEW r \in Requests, Request(c, r) PROVE LockInv(j)'
  BY <1>3 DEF Request, Begin, LockInv, Busy, Procs, mutexes
<1>4. CASE SampleExpired
  BY <1>4 DEF SampleExpired, LockInv, Busy, Procs, mutexes
<1>5. ASSUME NEW i \in Locks, ExpireShard(i) PROVE LockInv(j)'
  BY <1>5 DEF ExpireShard, Begin, LockInv, Busy, Procs, mutexes
<1>6. CASE Compact
  <2>1. CASE Capture
    BY <2>1 DEF Capture, LockInv, Busy, Procs, mutexes
  <2>2. CASE Rotate
    BY <2>2 DEF Rotate, LockInv, Busy, Procs, mutexes
  <2>3. CASE Install
    BY <2>3 DEF Install, LockInv, Busy, Procs, mutexes
  <2> QED BY <1>6, <2>1, <2>2, <2>3 DEF Compact
<1>7. CASE CompactBegin
  BY <1>7 DEF CompactBegin, Begin, LockInv, Busy, Procs, mutexes
<1> QED BY <1>1, <1>2, <1>3, <1>4, <1>5, <1>6, <1>7 DEF Next

\* A goroutine enters its body with all its locks and keeps them while there.
LEMMA BodyStep ==
  ASSUME IInv, Next
  PROVE  BodyInv'
<1> SUFFICES ASSUME NEW q \in Procs, InBody(q)' PROVE need'[q] \subseteq Held(q)'
  BY DEF BodyInv
<1>t. /\ DOMAIN pc = Procs /\ DOMAIN need = Procs /\ DOMAIN excl = Procs
      /\ DOMAIN writer = Locks /\ DOMAIN readers = Locks /\ need[q] \subseteq Locks
      /\ \A i \in Locks : LockInv(i)
      /\ InBody(q) => need[q] \subseteq Held(q)
      /\ Nobody \notin Procs
  BY ExecuteAssumption DEF IInv, TypeOK, BodyInv, MutexInv
<1> USE <1>t
<1>1. ASSUME NEW p \in Procs, Locking(p) PROVE need'[q] \subseteq Held(q)'
  <2>1. CASE LockAnnounce(p)
    BY <2>1 DEF LockAnnounce, Announce, Held, InBody, command
  <2>2. CASE LockAcquire(p)
    BY SMT, <2>2 DEF LockAcquire, Acquire, Held, InBody, LockInv, command
  <2>3. CASE LockShared(p)
    BY SMT, <2>3 DEF LockShared, RLock, Park, Held, InBody, command
  <2>4. CASE Locked(p)
    BY <2>4 DEF Locked, Wanted, Held, InBody, mutexes
  <2>5. CASE Release(p)
    BY SMT, <2>5 DEF Release, Unlock, RUnlock, Held, InBody, LockInv, command
  <2>6. CASE Released(p)
    BY <2>6 DEF Released, Held, InBody, mutexes
  <2> QED BY <1>1, <2>1, <2>2, <2>3, <2>4, <2>5, <2>6 DEF Locking
<1>2. ASSUME NEW c \in Conns, Body(c) PROVE need'[q] \subseteq Held(q)'
  BY <1>2 DEF Body, RunWrite, RunReadOrError, Log, Held, InBody, Procs, mutexes
<1>3. ASSUME NEW c \in Conns, NEW r \in Requests, Request(c, r)
      PROVE  need'[q] \subseteq Held(q)'
  BY <1>3 DEF Request, Begin, Held, InBody, Procs, mutexes
<1>4. CASE SampleExpired
  BY <1>4 DEF SampleExpired, Held, InBody, Procs, mutexes
<1>5. ASSUME NEW i \in Locks, ExpireShard(i) PROVE need'[q] \subseteq Held(q)'
  BY <1>5 DEF ExpireShard, Begin, Held, InBody, Procs, mutexes
<1>6. CASE Compact
  BY <1>6 DEF Compact, Capture, Rotate, Install, Held, InBody, Procs, mutexes
<1>7. CASE CompactBegin
  BY <1>7 DEF CompactBegin, Begin, Held, InBody, Procs, mutexes
<1> QED BY <1>1, <1>2, <1>3, <1>4, <1>5, <1>6, <1>7 DEF Next

\* Who holds all locks of its command, and is exclusive, is alone on each.
LEMMA ExclusionFromInv ==
  ASSUME IInv
  PROVE  Exclusion
<1> SUFFICES ASSUME NEW p \in Procs, NEW q \in Procs, p # q, InBody(p), InBody(q),
                    NEW i \in need[p] \cap need[q]
             PROVE  ~excl[p] /\ ~excl[q]
  BY DEF Exclusion
<1>1. i \in Locks /\ i \in Held(p) /\ i \in Held(q)
  BY DEF IInv, TypeOK, BodyInv
<1> QED BY SMT, <1>1, ExecuteAssumption DEF IInv, MutexInv, LockInv, Held

-----------------------------------------------------------------------------
(* The order of the log. *)

\* Run and Append happen under the same locks, so that no other write comes
\* between them on a shard.
LEMMA RunsStep ==
  ASSUME IInv, Next
  PROVE  RunsInv'
<1>t. /\ pc \in [Procs -> {"idle", "locking", "running", "logging", "unlocking", "install"}]
      /\ DOMAIN need = Procs /\ DOMAIN excl = Procs /\ DOMAIN cur = Procs
      /\ \A c \in Procs : need[c] \subseteq Locks
      /\ writes \in 0 .. MaxWrites /\ MaxWrites \in Nat
      /\ Conns \subseteq Procs /\ Compactor \in Procs \ Conns /\ Expirer \in Procs \ Conns
  BY ExecuteAssumption DEF IInv, TypeOK, Procs
<1>r. RunsInv /\ Exclusion
  BY ExclusionFromInv DEF IInv
<1> USE <1>t, <1>r
<1>1. ASSUME NEW p \in Procs, Locking(p) PROVE RunsInv'
  <2>1. /\ UNCHANGED <<ran, logged>>
        /\ \A c \in Conns : \/ pc'[c] # "logging" /\ pc[c] # "logging"
                            \/ UNCHANGED <<pc[c], need[c], excl[c], cur[c]>>
    BY <1>1 DEF Locking, LockAnnounce, LockAcquire, LockShared, Locked, Release, Released,
                command
  <2> QED BY SMT, <2>1 DEF RunsInv
<1>2. ASSUME NEW c \in Conns, Body(c) PROVE RunsInv'
  <2>1. CASE RunWrite(c)
    <3>1. \A i \in need[c] : ran[i] = logged[i]
      BY <2>1 DEF RunWrite, RunsInv, Exclusion, InBody
    <3>2. \A d \in Conns : d # c /\ pc[d] = "logging" => need[c] \cap need[d] = {}
      BY <2>1 DEF RunWrite, Exclusion, InBody
    <3>3. /\ \A i \in need[c] : ran'[i] = Append(logged[i], writes + 1)
          /\ \A i \in Locks \ need[c] : ran'[i] = ran[i]
      BY <2>1, <3>1 DEF RunWrite
    <3>4. /\ pc'[c] = "logging" /\ cur'[c] = writes + 1 /\ excl[c]
          /\ writes + 1 \in 1 .. MaxWrites
          /\ UNCHANGED <<need, excl, logged>>
          /\ \A d \in Conns : d # c => UNCHANGED <<pc[d], cur[d]>>
      BY SMT, <2>1 DEF RunWrite
    <3> QED BY SMT, <3>2, <3>3, <3>4 DEF RunsInv
  <2>2. CASE RunReadOrError(c)
    BY <2>2 DEF RunReadOrError, RunsInv
  <2>3. CASE Log(c)
    <3>1. \A d \in Conns : d # c /\ pc[d] = "logging" => need[c] \cap need[d] = {}
      BY <2>3 DEF Log, RunsInv, Exclusion, InBody
    <3>2. /\ \A i \in need[c] : logged'[i] = ran[i]
          /\ \A i \in Locks \ need[c] : logged'[i] = logged[i]
      BY <2>3 DEF Log, RunsInv
    <3>3. /\ pc'[c] = "unlocking"
          /\ UNCHANGED <<need, excl, cur, ran>>
          /\ \A d \in Conns : d # c => pc'[d] = pc[d]
      BY <2>3 DEF Log
    <3> QED BY SMT, <3>1, <3>2, <3>3 DEF RunsInv
  <2> QED BY <1>2, <2>1, <2>2, <2>3 DEF Body
<1>3. ASSUME NEW c \in Conns, NEW r \in Requests, Request(c, r) PROVE RunsInv'
  BY <1>3 DEF Request, Begin, RunsInv
<1>4. CASE SampleExpired
  BY <1>4 DEF SampleExpired, RunsInv
<1>5. ASSUME NEW i \in Locks, ExpireShard(i) PROVE RunsInv'
  BY <1>5 DEF ExpireShard, Begin, RunsInv
<1>6. CASE Compact
  <2>1. CASE Capture
    BY <2>1 DEF Capture, RunsInv
  <2>2. CASE Rotate
    BY <2>2 DEF Rotate, RunsInv
  <2>3. CASE Install
    BY <2>3 DEF Install, RunsInv
  <2> QED BY <1>6, <2>1, <2>2, <2>3 DEF Compact
<1>7. CASE CompactBegin
  BY <1>7 DEF CompactBegin, Begin, RunsInv
<1> QED BY <1>1, <1>2, <1>3, <1>4, <1>5, <1>6, <1>7 DEF Next

-----------------------------------------------------------------------------
(* The cut between snapshot and log. *)

\* Between Capture and Rotate no connection is in its body: nothing is appended.
LEMMA CompactStep ==
  ASSUME IInv, Next
  PROVE  CompactInv'
<1>t. /\ pc \in [Procs -> {"idle", "locking", "running", "logging", "unlocking", "install"}]
      /\ DOMAIN need = Procs /\ DOMAIN excl = Procs
      /\ \A c \in Procs : need[c] \subseteq Locks
      /\ gen \in Gens /\ DOMAIN start = Gens /\ snap.base \in Gens
      /\ Conns \subseteq Procs /\ Compactor \in Procs \ Conns
      /\ Expirer \in Procs \ Conns /\ Expirer # Compactor
      /\ MaxGen \in Nat
  BY ExecuteAssumption DEF IInv, TypeOK, Procs
<1>c. CompactInv
  BY DEF IInv
<1> USE <1>t, <1>c DEF CompactInv
<1>1. ASSUME NEW p \in Procs, Locking(p) PROVE CompactInv'
  <2>1. UNCHANGED <<logged, gen, start, base, cut, snap>>
    BY <1>1 DEF Locking, LockAnnounce, LockAcquire, LockShared, Locked, Release, Released,
                store
  <2>2. \/ UNCHANGED <<pc[Compactor], need[Compactor], excl[Compactor]>>
        \/ /\ pc[Compactor] = "locking" /\ pc'[Compactor] = "running"
           /\ UNCHANGED <<need[Compactor], excl[Compactor]>>
        \/ pc[Compactor] = "unlocking" /\ pc'[Compactor] = "install"
    BY <1>1 DEF Locking, LockAnnounce, LockAcquire, LockShared, Locked, Release, Released,
                command
  <2> QED BY <2>1, <2>2 DEF Busy, SnapshotCut
<1>2. ASSUME NEW c \in Conns, Body(c) PROVE CompactInv'
  <2>1. UNCHANGED <<pc[Compactor], need[Compactor], excl[Compactor], store>>
    BY <1>2 DEF Body, RunWrite, RunReadOrError, Log
  <2>2. pc[Compactor] = "logging" => [i \in Locks |-> Len(logged'[i])] = [i \in Locks |-> Len(logged[i])]
    <3>1. CASE Log(c)
      <4>1. pc[Compactor] = "logging" => need[c] = {}
        BY <3>1, ExclusionFromInv DEF Log, Exclusion, InBody, Busy
      <4> QED BY <3>1, <4>1 DEF Log
    <3>2. CASE UNCHANGED logged
      BY <3>2
    <3> QED BY <1>2, <3>1, <3>2 DEF Body, RunWrite, RunReadOrError
  <2> QED BY <2>1, <2>2 DEF Busy, SnapshotCut, store
<1>3. ASSUME NEW c \in Conns, NEW r \in Requests, Request(c, r) PROVE CompactInv'
  BY <1>3 DEF Request, Begin, Busy, SnapshotCut, store
<1>4. CASE SampleExpired
  BY <1>4 DEF SampleExpired, Busy, SnapshotCut, store
<1>5. ASSUME NEW i \in Locks, ExpireShard(i) PROVE CompactInv'
  BY <1>5 DEF ExpireShard, Begin, Busy, SnapshotCut, store
<1>6. CASE Capture
  <2>1. \A i \in Locks : ran[i] = logged[i]
    BY SMT, <1>6, ExclusionFromInv DEF Capture, IInv, RunsInv, Exclusion, InBody, Busy
  <2> QED BY <1>6, <2>1 DEF Capture, Busy, SnapshotCut
<1>7. CASE Rotate
  <2>1. gen + 1 \in Gens /\ snap.base # gen + 1
    BY SMT, <1>7 DEF Rotate, Gens
  <2> QED BY SMT, <1>7, <2>1 DEF Rotate, Busy, SnapshotCut, Gens
<1>8. CASE Install
  <2>1. /\ pc'[Compactor] = "idle" /\ base = gen /\ cut = start[gen]
        /\ UNCHANGED <<gen, start>>
    BY <1>8 DEF Install
  <2>2. snap' = [base |-> base, cut |-> cut] \/ snap' = snap
    BY <1>8 DEF Install
  <2>3. snap'.base <= gen /\ SnapshotCut'
    BY SMT, <2>1, <2>2 DEF SnapshotCut, Gens
  <2> QED BY <2>1, <2>3 DEF Busy
<1>9. CASE CompactBegin
  BY SMT, <1>9 DEF CompactBegin, Begin, Busy, SnapshotCut, Gens
<1> QED BY <1>1, <1>2, <1>3, <1>4, <1>5, <1>6, <1>7, <1>8, <1>9 DEF Next, Compact

-----------------------------------------------------------------------------
(* The theorems. *)

\* The initial state satisfies the invariant.
LEMMA InitInv == Init => IInv
<1> USE ExecuteAssumption
<1> SUFFICES ASSUME Init PROVE IInv
  OBVIOUS
<1>1. TypeOK
  BY SMT DEF Init, TypeOK, Gens
<1>2. MutexInv
  BY DEF Init, MutexInv, LockInv, Busy
<1>3. BodyInv
  BY DEF Init, BodyInv, InBody
<1>4. RunsInv
  BY DEF Init, RunsInv, Procs
<1>5. CompactInv
  BY SMT DEF Init, CompactInv, Busy, SnapshotCut, Procs, Gens
<1> QED BY <1>1, <1>2, <1>3, <1>4, <1>5 DEF IInv

\* Every step preserves the invariant.
LEMMA StepInv == IInv /\ [Next]_vars => IInv'
<1> SUFFICES ASSUME IInv, [Next]_vars PROVE IInv'
  OBVIOUS
<1>1. CASE Next
  BY <1>1, TypeStep, MutexStep, BodyStep, RunsStep, CompactStep DEF IInv
<1>2. CASE UNCHANGED vars
  <2> USE <1>2 DEF vars, mutexes, command, store, IInv
  <2>1. TypeOK'
    BY DEF TypeOK
  <2>2. MutexInv'
    BY SMT DEF MutexInv, LockInv, Busy
  <2>3. BodyInv'
    BY DEF BodyInv, InBody, Held
  <2>4. RunsInv'
    BY DEF RunsInv
  <2>5. CompactInv'
    BY DEF CompactInv, Busy, SnapshotCut
  <2> QED BY <2>1, <2>2, <2>3, <2>4, <2>5
<1> QED BY <1>1, <1>2

\* The inductive invariant holds in every state of every execution.
THEOREM Invariance == Spec => []IInv
BY InitInv, StepInv, PTL DEF Spec

\* The locks, the command states and the log of every execution have the types
\* that TypeOK gives them.
THEOREM TypeCorrect == Spec => []TypeOK
BY Invariance, PTL DEF IInv

\* No two goroutines of Server.execute, ExpireCycle and compact are inside their
\* bodies on a common shard unless both only read it.
THEOREM ExclusionHolds == Spec => []Exclusion
<1>1. IInv => Exclusion
  BY ExclusionFromInv
<1> QED BY <1>1, Invariance, PTL

\* The append log holds the writes of each shard in the order in which they ran,
\* and lacks at most the last.
THEOREM LogOrder == Spec => []LogFollowsRuns
<1>1. IInv => LogFollowsRuns
  <2> SUFFICES ASSUME IInv, NEW i \in Locks
               PROVE  /\ Len(logged[i]) \in {Len(ran[i]), Len(ran[i]) - 1}
                      /\ logged[i] = SubSeq(ran[i], 1, Len(logged[i]))
    BY DEF LogFollowsRuns
  <2>1. ran[i] \in Seq(1 .. MaxWrites) /\ logged[i] \in Seq(1 .. MaxWrites)
    BY DEF IInv, TypeOK
  <2>2. CASE ran[i] = logged[i]
    BY SMT, <2>1, <2>2
  <2>3. ASSUME NEW w \in 1 .. MaxWrites, ran[i] = Append(logged[i], w)
        PROVE  /\ Len(logged[i]) = Len(ran[i]) - 1
               /\ logged[i] = SubSeq(ran[i], 1, Len(logged[i]))
    BY SMT, <2>1, <2>3
  <2> QED BY <2>2, <2>3 DEF IInv, RunsInv
<1> QED BY <1>1, Invariance, PTL

\* On every shard the installed snapshot holds exactly the writes that the log
\* holds in the segments before the snapshot's base: no write straddles Rotate.
THEOREM SnapshotCutHolds == Spec => []SnapshotCut
<1>1. IInv => SnapshotCut
  BY DEF IInv, CompactInv
<1> QED BY <1>1, Invariance, PTL

-----------------------------------------------------------------------------
(* No circular wait: who waits for a lock holds earlier locks only. *)

(* The order of the locks. *)

\* Before is a strict total order.
LEMMA BeforeOrder ==
  /\ \A i \in Locks : ~Before(i, i)
  /\ \A i, j \in Locks : Before(i, j) \/ Before(j, i) \/ i = j
  /\ \A i, j \in Locks : Before(i, j) => ~Before(j, i)
<1>1. \A i \in Locks : i[1] \in Int /\ i[2] \in Int /\ i = <<i[1], i[2]>>
  BY SMT, ExecuteAssumption DEF Locks
<1> QED BY SMT, <1>1 DEF Before

\* A set of natural numbers below n that is not empty has a greatest element.
LEMMA Greatest ==
  ASSUME NEW n \in Nat, NEW F \in SUBSET (0 .. n - 1), F # {}
  PROVE  \E g \in F : \A h \in F : h <= g
<1> DEFINE T == {n - g : g \in F}
<1>0. \A g \in F : g \in Int /\ n - g \in Nat
  BY SMT
<1>1. T \subseteq Nat /\ T # {}
  BY <1>0
<1>2. PICK x \in T : \A y \in T : ~(<<y, x>> \in OpToRel(<, Nat))
  BY <1>1, WFMin, NatLessThanWellFounded
<1>3. ASSUME NEW y \in T PROVE x <= y
  <2>1. x \in Nat /\ y \in Nat
    BY <1>1
  <2>2. ~(<<y, x>> \in OpToRel(<, Nat))
    BY <1>2
  <2> HIDE DEF T
  <2> QED BY SMT, <2>1, <2>2 DEF OpToRel
<1>4. PICK g \in F : x = n - g
  OBVIOUS
<1>5. \A h \in F : x <= n - h
  BY <1>3
<1> QED BY SMT, <1>4, <1>5

\* A set of locks that is not empty has a last one.
LEMMA LastLock ==
  ASSUME NEW L \in SUBSET Locks, L # {}
  PROVE  \E i \in L : \A j \in L : ~Before(i, j)
<1> DEFINE D == {i[1] : i \in L}
<1>0. \A i \in L : i[1] \in 0 .. NumDBs - 1 /\ i[2] \in 0 .. NumShards - 1
  BY DEF Locks
<1>1. D \in SUBSET (0 .. NumDBs - 1) /\ D # {}
  BY <1>0
<1>2. PICK d \in D : \A e \in D : e <= d
  BY <1>1, Greatest, ExecuteAssumption
<1> DEFINE F == {i[2] : i \in {j \in L : j[1] = d}}
<1>3. F \in SUBSET (0 .. NumShards - 1) /\ F # {}
  BY <1>0
<1>4. PICK s \in F : \A t \in F : t <= s
  BY <1>3, Greatest, ExecuteAssumption
<1>5. PICK i \in L : i[1] = d /\ i[2] = s
  OBVIOUS
<1>6. ASSUME NEW j \in L, Before(i, j) PROVE FALSE
  <2>1. j[1] <= i[1] /\ (j[1] = i[1] => j[2] <= i[2])
    BY <1>2, <1>4, <1>5
  <2>2. i[1] \in Int /\ i[2] \in Int /\ j[1] \in Int /\ j[2] \in Int
    BY SMT, <1>0, ExecuteAssumption
  <2> QED BY SMT, <1>6, <2>1, <2>2 DEF Before
<1> QED BY <1>5, <1>6

\* A goroutine has at most one lock that is in turn.
LEMMA OneInTurn ==
  ASSUME NEW p, NEW i \in Locks, NEW j \in Locks, InTurn(p, i), InTurn(p, j)
  PROVE  i = j
BY BeforeOrder DEF InTurn

-----------------------------------------------------------------------------
(* What a goroutine that takes locks has and waits for. *)

\* The locks it holds come before those it wants, and it is a pending writer of,
\* or has parked at, only the lock that is in turn.
Ascending(p) ==
  pc[p] = "locking" =>
    \A i \in Locks :
      /\ i \in Held(p) => \A j \in Wanted(p) : Before(i, j)
      /\ pending[i] = p \/ p \in parked[i] => InTurn(p, i)

OrderInv == \A p \in Procs : Ascending(p)

\* Nothing that concerns p has changed.
LEMMA AscendingFrame ==
  ASSUME NEW p \in Procs, Ascending(p), Held(p)' = Held(p), need'[p] = need[p],
         pc'[p] = "locking" => pc[p] = "locking",
         \A i \in Locks : (pending'[i] = p => pending[i] = p) /\ (p \in parked'[i] => p \in parked[i])
  PROVE  Ascending(p)'
BY DEF Ascending, Wanted, InTurn

\* p gets the lock that was in turn.
LEMMA AscendingGain ==
  ASSUME NEW p \in Procs, NEW i \in Locks, TypeOK, Ascending(p), InTurn(p, i), pc[p] = "locking",
         Held(p)' = Held(p) \cup {i}, need'[p] = need[p],
         \A k \in Locks : (pending'[k] = p => pending[k] = p) /\ (p \in parked'[k] => p \in parked[k]),
         pending'[i] # p, p \notin parked'[i]
  PROVE  Ascending(p)'
<1>1. ASSUME NEW k \in Locks, pending'[k] = p \/ p \in parked'[k] PROVE FALSE
  BY <1>1, OneInTurn DEF Ascending
<1>2. ASSUME NEW k \in Held(p)', NEW j \in Wanted(p)' PROVE Before(k, j)
  <2>1. j \in Wanted(p) /\ j # i /\ j \in Locks
    BY DEF Wanted, TypeOK
  <2>2. CASE k = i
    BY <2>1, <2>2, BeforeOrder DEF InTurn
  <2>3. CASE k # i
    <3>1. k \in Held(p) /\ k \in Locks
      BY <2>3 DEF Held
    <3> QED BY <2>1, <3>1 DEF Ascending
  <2> QED BY <2>2, <2>3
<1> QED BY <1>1, <1>2 DEF Ascending

\* Every step preserves the order in which locks are taken.
LEMMA OrderStep ==
  ASSUME IInv, OrderInv, Next
  PROVE  OrderInv'
<1> SUFFICES ASSUME NEW q \in Procs PROVE Ascending(q)'
  BY DEF OrderInv
<1>t. /\ TypeOK /\ Ascending(q) /\ q # Nobody
      /\ DOMAIN pc = Procs /\ DOMAIN need = Procs /\ DOMAIN excl = Procs
      /\ DOMAIN writer = Locks /\ DOMAIN readers = Locks
      /\ DOMAIN pending = Locks /\ DOMAIN parked = Locks
      /\ \A i \in Locks : LockInv(i)
  BY ExecuteAssumption DEF IInv, OrderInv, TypeOK, MutexInv
<1> USE <1>t
\* Who holds nothing and waits for nothing may start.
<1>b. ASSUME NEW p \in Procs, NEW locks, NEW exclusive, Begin(p, locks, exclusive), UNCHANGED mutexes
      PROVE  Ascending(q)'
  <2>1. CASE p = q
    <3>1. Held(q)' = {} /\ \A i \in Locks : pending'[i] # q /\ q \notin parked'[i]
      BY <1>b, <2>1 DEF Begin, mutexes, Held, LockInv, Busy
    <3> QED BY <3>1 DEF Ascending
  <2>2. CASE p # q
    BY <1>b, <2>2, AscendingFrame DEF Begin, mutexes, Held
  <2> QED BY <2>1, <2>2
<1>1. ASSUME NEW p \in Procs, Locking(p) PROVE Ascending(q)'
  <2>1. CASE LockAnnounce(p)
    <3>1. PICK i \in Locks : InTurn(p, i) /\ Announce(p, i)
      BY <2>1 DEF LockAnnounce
    <3>2. Held(q)' = Held(q) /\ UNCHANGED <<pc, need, parked>>
      BY <2>1, <3>1 DEF LockAnnounce, Announce, Held, command
    <3>3. CASE p = q
      <4>1. InTurn(q, i)' /\ Wanted(q)' = Wanted(q)
        BY <3>1, <3>2, <3>3 DEF InTurn, Wanted
      <4>2. \A k \in Locks : k # i => pending'[k] = pending[k]
        BY <3>1 DEF Announce
      <4> QED BY <3>2, <4>1, <4>2 DEF Ascending, InTurn
    <3>4. CASE p # q
      <4>1. \A k \in Locks : pending'[k] = q => pending[k] = q
        BY <3>1, <3>4 DEF Announce
      <4> QED BY <3>2, <4>1, AscendingFrame
    <3> QED BY <3>3, <3>4
  <2>2. CASE LockAcquire(p)
    <3>1. PICK i \in Locks : InTurn(p, i) /\ Acquire(p, i)
      BY <2>2 DEF LockAcquire
    <3>2. UNCHANGED <<pc, need, parked>> /\ pc[p] = "locking" /\ excl[p]
      BY <2>2, <3>1 DEF LockAcquire, Acquire, command
    <3>3. \A k \in Locks : (pending'[k] = q => pending[k] = q) /\ pending'[i] = Nobody
      BY <3>1 DEF Acquire
    <3>4. CASE p = q
      <4>1. Held(q)' = Held(q) \cup {i}
        BY <3>1, <3>4 DEF Acquire, Held
      <4>2. q \notin parked[i]
        BY <3>2, <3>4 DEF LockInv
      <4> QED BY <3>1, <3>2, <3>3, <3>4, <4>1, <4>2, AscendingGain
    <3>5. CASE p # q
      <4>0. pending[i] = p /\ p # Nobody
        BY <3>1, ExecuteAssumption DEF Acquire
      <4>1. writer[i] # q /\ writer'[i] # q
        BY <3>1, <3>5, <4>0 DEF Acquire, LockInv
      <4>2. readers' = readers /\ \A k \in Locks : writer'[k] = q <=> writer[k] = q
        BY <3>1, <4>1 DEF Acquire
      <4>3. Held(q)' = Held(q)
        BY <4>2 DEF Held
      <4> QED BY <3>2, <3>3, <4>3, AscendingFrame
    <3> QED BY <3>4, <3>5
  <2>3. CASE LockShared(p)
    <3>1. PICK i \in Locks : InTurn(p, i) /\ (RLock(p, i) \/ Park(p, i))
      BY <2>3 DEF LockShared
    <3>2. UNCHANGED <<pc, need, pending>> /\ pc[p] = "locking" /\ ~excl[p]
      BY <2>3, <3>1 DEF LockShared, RLock, Park, command
    <3>3. CASE RLock(p, i) /\ p = q
      <4>1. Held(q)' = Held(q) \cup {i} /\ parked' = parked
        BY <3>1, <3>3 DEF RLock, Held
      <4>2. pending'[i] # q /\ q \notin parked'[i]
        BY <3>2, <3>3, <4>1 DEF RLock, LockInv
      <4> QED BY <3>1, <3>2, <3>3, <4>1, <4>2, AscendingGain
    <3>4. CASE RLock(p, i) /\ p # q
      <4>1. Held(q)' = Held(q) /\ parked' = parked
        BY <3>1, <3>4 DEF RLock, Held
      <4> QED BY <3>2, <4>1, AscendingFrame
    <3>5. CASE Park(p, i)
      <4>1. Held(q)' = Held(q)
        BY <3>5 DEF Park, Held
      <4>2. CASE p = q
        <5>1. InTurn(q, i)' /\ Wanted(q)' = Wanted(q)
          BY <3>1, <3>2, <4>1, <4>2 DEF InTurn, Wanted
        <5>2. \A k \in Locks : k # i => parked'[k] = parked[k]
          BY <3>5 DEF Park
        <5> QED BY <3>2, <4>1, <5>1, <5>2 DEF Ascending, InTurn
      <4>3. CASE p # q
        <5>1. \A k \in Locks : q \in parked'[k] => q \in parked[k]
          BY <3>5, <4>3 DEF Park
        <5> QED BY <3>2, <4>1, <5>1, AscendingFrame
      <4> QED BY <4>2, <4>3
    <3> QED BY <3>1, <3>3, <3>4, <3>5
  <2>4. CASE Locked(p)
    BY <2>4, AscendingFrame DEF Locked, mutexes, Held
  <2>5. CASE Release(p)
    <3>1. PICK i \in Held(p) : IF excl[p] THEN Unlock(i) ELSE RUnlock(p, i)
      BY <2>5 DEF Release
    <3>2. UNCHANGED <<pc, need>> /\ pc[p] = "unlocking" /\ i \in Locks
      BY <2>5 DEF Release, command, Held
    <3>3. CASE p = q
      BY <3>2, <3>3 DEF Ascending
    <3>4. CASE p # q /\ ~excl[p]
      <4>1. Held(q)' = Held(q) /\ UNCHANGED <<pending, parked>>
        BY <3>1, <3>2, <3>4 DEF RUnlock, Held
      <4> QED BY <3>2, <4>1, AscendingFrame
    <3>5. CASE p # q /\ excl[p]
      <4>0. p \notin readers[i]
        BY <3>2, <3>5 DEF LockInv
      <4>1. Unlock(i) /\ writer[i] = p /\ pending[i] = Nobody /\ readers[i] = {}
        <5>1. writer[i] = p
          BY <4>0 DEF Held
        <5>2. p # Nobody
          BY ExecuteAssumption
        <5> QED BY <3>1, <3>2, <3>5, <5>1, <5>2 DEF LockInv
      <4>2. \A k \in Locks : (pending'[k] = q => pending[k] = q) /\ (q \in parked'[k] => q \in parked[k])
        BY <3>2, <4>1 DEF Unlock
      <4>3. q \notin parked'[i]
        BY <3>2, <4>1 DEF Unlock
      <4>4. CASE q \in parked[i]
        <5>1. pc[q] = "locking" /\ InTurn(q, i)
          BY <3>2, <4>4 DEF LockInv, Ascending
        <5>2. Held(q)' = Held(q) \cup {i}
          BY <3>2, <4>1, <4>4, <3>5 DEF Unlock, Held
        <5>3. pending'[i] # q
          BY <4>1 DEF Unlock
        <5> QED BY <3>2, <4>2, <4>3, <5>1, <5>2, <5>3, AscendingGain
      <4>5. CASE q \notin parked[i]
        <5>1. Held(q)' = Held(q)
          BY <3>2, <4>1, <4>5, <3>5 DEF Unlock, Held
        <5> QED BY <3>2, <4>2, <5>1, AscendingFrame
      <4> QED BY <4>4, <4>5
    <3> QED BY <3>3, <3>4, <3>5
  <2>6. CASE Released(p)
    <3>1. CASE p = q
      BY <2>6, <3>1 DEF Released, Ascending
    <3>2. CASE p # q
      BY <2>6, <3>2, AscendingFrame DEF Released, mutexes, Held
    <3> QED BY <3>1, <3>2
  <2> QED BY <1>1, <2>1, <2>2, <2>3, <2>4, <2>5, <2>6 DEF Locking
<1>2. ASSUME NEW c \in Conns, Body(c) PROVE Ascending(q)'
  BY <1>2, AscendingFrame DEF Body, RunWrite, RunReadOrError, Log, Held, Procs, mutexes
<1>3. ASSUME NEW c \in Conns, NEW r \in Requests, Request(c, r) PROVE Ascending(q)'
  BY <1>3, <1>b DEF Request, Procs
<1>4. CASE SampleExpired
  BY <1>4, AscendingFrame DEF SampleExpired, Held, Procs, mutexes
<1>5. ASSUME NEW i \in Locks, ExpireShard(i) PROVE Ascending(q)'
  BY <1>5, <1>b DEF ExpireShard, Procs
<1>6. CASE Compact
  BY <1>6, AscendingFrame DEF Compact, Capture, Rotate, Install, Held, Procs, mutexes
<1>7. CASE CompactBegin
  BY <1>7, <1>b DEF CompactBegin, Procs
<1> QED BY <1>1, <1>2, <1>3, <1>4, <1>5, <1>6, <1>7 DEF Next

-----------------------------------------------------------------------------
(* No circle. *)

\* The goroutine of a circle that waits for the last lock waits for one that
\* holds it, and so wants a later lock; or for a pending writer, which waits
\* for such a one.
LEMMA NoCircle ==
  ASSUME IInv, OrderInv
  PROVE  NoCircularWait
<1> SUFFICES ASSUME NEW S \in SUBSET Procs, S # {},
                    \A p \in S : \E q \in S : WaitsFor(p, q)
             PROVE  FALSE
  BY DEF NoCircularWait
<1> DEFINE L == {i \in Locks : \E p \in S : InTurn(p, i)}
<1>0. \A i \in Locks : LockInv(i)
  BY DEF IInv, MutexInv
<1>1. L \in SUBSET Locks /\ L # {}
  BY DEF WaitsFor
<1>2. PICK i \in L : \A j \in L : ~Before(i, j)
  BY <1>1, LastLock
<1>3. ASSUME NEW q \in S, i \in Held(q) PROVE FALSE
  <2>1. PICK j \in Locks : InTurn(q, j) /\ pc[q] = "locking"
    BY DEF WaitsFor
  <2>2. j \in L /\ j \in Wanted(q)
    BY <2>1 DEF InTurn
  <2>3. Before(i, j)
    BY <1>3, <2>1, <2>2 DEF OrderInv, Ascending
  <2> QED BY <1>2, <2>2, <2>3
<1>4. ASSUME NEW p \in S, InTurn(p, i)
      PROVE  \E q \in S : q # p /\ pending[i] = q
  <2>1. PICK q \in S : WaitsFor(p, q)
    OBVIOUS
  <2>2. p # q /\ (writer[i] = q \/ pending[i] = q \/ q \in readers[i])
    BY <1>4, <2>1, OneInTurn DEF WaitsFor
  <2>3. i \notin Held(q)
    BY <1>3
  <2> QED BY <2>2, <2>3 DEF Held
<1>5. PICK p \in S : InTurn(p, i)
  BY <1>2
<1>6. PICK q \in S : pending[i] = q
  BY <1>4, <1>5
<1>7. InTurn(q, i)
  BY <1>0, <1>6 DEF OrderInv, Ascending, LockInv
<1>8. PICK r \in S : r # q /\ pending[i] = r
  BY <1>4, <1>7
<1> QED BY <1>6, <1>8

\* No set of goroutines, be they connections, active expiry or compaction, waits
\* for each other in a circle.
THEOREM NoDeadlock == Spec => []NoCircularWait
<1>1. Init => OrderInv
  BY ExecuteAssumption DEF Init, OrderInv, Ascending
<1>2. IInv /\ OrderInv /\ [Next]_vars => OrderInv'
  <2>1. CASE Next
    BY <2>1, OrderStep
  <2>2. CASE UNCHANGED vars
    BY <2>2 DEF vars, mutexes, command, OrderInv, Ascending, Held, Wanted, InTurn
  <2> QED BY <2>1, <2>2
<1>3. IInv /\ OrderInv => NoCircularWait
  BY NoCircle
<1> QED BY <1>1, <1>2, <1>3, Invariance, PTL DEF Spec
=============================================================================
