# memcore in TLA+

A verification project for memcore, an in-memory key-value server with the
Redis protocol (Go, `src/`). TLA+ modules model its core, TLC checks them on
small instances, and TLAPS proves the most important invariants for every
value of the constants. `PROJECT.json` lists the components, the runs, the
hazards, the theorems and, for each definition, the source lines it models.

## The system

| Part | State | Operations |
|---|---|---|
| `persistence.Store` | active segment and its `bufio.Writer`, generation, snapshot file | Open, Append, Flush, NextGen, Rotate, InstallSnapshot, Close |
| Record and snapshot codec | - | writeValue/readValue, writeRecord/readRecord, writeCommand/replaySegment |
| Recovery | snapshot and segments on disk | Recover, the restore and replay callbacks |
| Server lifecycle | listener, registered connections, background loops, reaper queue | Run, Serve, startConn, closeConn, shutdown, the timers, final flush/compact/close |
| Connections | read and write buffers, session | the read loop, dispatch, held-back replies, read errors |
| Command execution | shard locks | execute (single-key path and general path), lockShards, lockAllDatabases, ExpireCycle |
| `keyspace.Keyspace` | entries, TTL index | Set, SetEntry, SetExpire, Persist, Delete, Take, Flush, SampleExpired |
| Command handlers | - | strings, keys, lists, hashes, sets, sorted sets, server |
| Active expiry | one clock reading per cycle | cycle |
| Values | packed bytes, or linked list / map / score map and skip list | push, pop, set, add, remove, range, promotion |
| Runtime settings | an atomic pointer | Set, Get, All |
| RESP, Go client | - | ReadRequest, WriteReply, the client's encoding and decoding |

How they interact: a connection goroutine parses a command, takes the locks of
the shards it names, runs the handler on the keyspaces and, if it was a write
that did not fail, appends it to the log before it unlocks. It flushes its
replies when no further input is buffered. Compaction stops all shards,
captures the state in memory, rotates the log, unlocks, and then installs the
snapshot and removes the covered segments. Expiry visits the shards one after
the other. On shutdown the listener is closed, the read deadline of every
connection is tripped, and when the last of them and all loops have ended the
log is flushed, compacted and closed. At boot the snapshot is loaded and the
segments from its base on are dispatched again.

What makes it hard: crashes and power failures between any two file operations;
records cut in two; errors that stick to the writer; the capture and the
rotation as one cut through concurrent writes; lock order over shards and
databases; sessions in different databases that share one log; deadlines that
pass between logging and replay; the hand-kept TTL index; encodings that change
in the middle of a command; requests cut anywhere by TCP; a shutdown that meets
a connection being accepted, or one that holds replies back.

## Modules

| Module | Models | Correspondence |
|---|---|---|
| `AppendLog` | `appendlog.go`, `recover.go`, the loops of `server.go` | A write is its number in the order of Append; memory, a segment and the snapshot are sets of numbers. `segs` is what the operating system has, `synced` what an fsync has made durable, `buf` what is still in the `bufio.Writer`. Operations are split where a process or a machine may stop. |
| `DurableLog` | what the store promises | One set of writes; a crash takes a tail of it, and nothing promised. |
| `Execute` | `execute`, `lockShards`, `shard.go`, `compact`, `ExpireCycle` | One `sync.RWMutex` per database and shard, with Go's rule that a waiting writer holds off new readers. Of the data, each shard keeps the order in which its writes ran and were logged. |
| `Keyspace`, `Commands` | `keyspace.go`, `entry.go`, `internal/command` | Operators: a handler maps a keyspace and a clock reading to a keyspace and a reply. Counters, durations and nanoseconds keep a (scaled) width of int64. A handler that panics is one that fails: `execute` recovers. |
| `Database` | one shard, its clients, the clock, active expiry | `Command(c)` dispatches one command; `CycleBegin` reads the clock and `CycleVisit` uses the reading later. |
| `Replay` | `persistArgs`, `emitRecords`, `recover`, `Context.Select` | Several sessions, each with its selected database, over one log. `Recovered(t)` is what a server restarted at time `t` begins with. A deadline is written to the snapshot as `UnixNano`, an int64 that wraps around. |
| `Records` | `codec.go`, `snapshot.go`, the record format of `appendlog.go` | Writers and readers over sequences of bytes. A score, a deadline and the magic string are one byte each; `Base` stands for 128 in a uvarint. |
| `Pack` | `pack.go` | Byte by byte. |
| `ListValue`, `HashValue`, `SetValue`, `ZSet` | `list.go`, `hash.go`, `set.go`, `zset.go` | The packed form, the full form (linked list, map, score map and skip list with every choice of levels), and promotion. |
| `Deque`, `Table`, `ScoredSet` | what those promise | A sequence; a function from fields to values (for a set, to one value); a function from members to scores. |
| `Ranges` | `normalizeRange` | against a definition by ranks, `SelectedRanks`. |
| `Parsing`, `Resp` | `reader.go`, `writer.go`, `reply.go`, `clients/go/memcore.go` | The stream is a sequence of tokens: a marker, a number, a word, a space, a line end. A reader maps a stream to a result, to "need more", or to an error, and to what it has consumed. |
| `Server` | `conn.go`, `server.go` | Sockets, the goroutine of each connection, `Server.conns`, `closing`, the loops, the reaper queue. Replies are any of `Replies`: what commands do is the matter of the modules above. |
| `Settings` | `settings.go`, `cmdConfig` | `SetLoad` and `SetStore` are two steps, as in the code. |
| `MC*` | | the instances for TLC. |
| `*Proofs` | | the theorems. `ListProofs` is about `Pack`, `Ranges` and `ListValue`, `RespProofs` about `Parsing` and `Resp`. |

The modules compose by what each leaves to another. `Server` shows that the
commands that run are those that were sent, in order, and that the final
compaction comes after all of them; `AppendLog` may therefore shut down in one
order. `Execute` shows that commands on a shard run one at a time and are
logged in that order; `Database` may therefore execute commands as single
steps and `AppendLog` may number writes. `AppendLog` shows which records
recovery reads, and in which order; `Records` that a record is read as it was
written or not at all; `Replay` says what dispatching them yields.

Names beginning like a definition and marked *Mutant* are faulty variants of
it. No specification uses them; each one violates the property listed with it
in `PROJECT.json`, which shows that the property depends on that code.

### Assumptions about the environment

- File system: creation, rename and removal of files are durable in the order
  issued, except that a segment of which nothing was synced may be missing
  after a power failure. The code never syncs the directory; a file system that
  delays renames is outside the model.
- A power failure keeps what an fsync covered and any prefix of the rest of a
  segment. With `Tears`, a crash may leave half a record.
- Records that follow half a record in the same segment are unreadable
  (`shadow`); the code would read on out of step, so this is the milder case:
  a garbage command, or a boot that fails, is not modelled.
- The clock never steps back.
- Handlers read the clock once; `persistArgs` reads it again.
- TCP delivers a stream in order, in packets of any size. Tokens of the stream
  are not cut inside; a line end may be missing or come late.
- Texts of simple and error replies hold no line end: the writer does not
  escape them. The handlers' texts hold none but for the errors that repeat what
  the client sent (an unknown command, a CONFIG parameter), so clients are
  assumed to send no such names with line ends in them. No array holds an error
  reply: no handler makes one.
- A client that sends only the beginning of a request sends nothing after it.
  Otherwise the two would be read as one request, which no one meant.

## Runs

| Run | Bounds | Shows |
|---|---|---|
| `append_log_faults` | 2 writes, 2 generations, 2 crashes | under `always`, with crashes, power failures, torn records and failing file operations: `MemoryOnDisk`, `ReplayInOrder`, `PromisedDurable`, `CleanShutdown` |
| `append_log_everysec` | 3 writes, 2 generations, 2 process crashes | `ImplementsDurableLog`: files, generations and compactions are one log that loses at most a tail of unflushed writes; `PromisedServed`: what a timed Flush has written is in every later incarnation; `CleanShutdown` |
| `execute` | 2 connections, expiry, 1 compaction, 1 database of 2 shards, 2 writes | `Exclusion`, `LogFollowsRuns`, `SnapshotCut`, `NoCircularWait`, and `Served`: what starts to lock ends |
| `database` | 2 keys, integers -1..1, lists up to 3, 5 instants, samples of one key | `Indexed`, `NoSilentChange`, `IntegersFit`, `NoEmptyCollection`, `SInterIsIntersection`, `EvictsOnlyExpired`, `NoRevival`, `Reclaimed` |
| `replay_exact` | logs up to 3 commands, 2 sessions, 2 databases, deadlines at both sides of the last that int64 nanoseconds hold | `ExactBeforeDeadlines`, `RecoveredIndexed` |
| `values` | 4 pushes, 3 or 4 elements, promotion above 2 entries or 2 bytes, 3 levels | refinement of `Deque`, `Table` and `ScoredSet`; `BothWays` and `RangeSelects` of lists; `SortedSetSound`; and of the files that hold a collection, `RoundTrips` and `CutsDetected`, in each of its states (of a list, in the states before its first pop, which have all the contents that it has later) |
| `server` | 2 clients, pipelines of up to 3 requests in any packets, buffers that fill | `Framed`, `Tracked`, `FinalAlone`, and, with fairness, `Drains` and `Answered` |

Why the bounds are enough for the cases of interest:

- Two generations and two crashes let a compaction be interrupted, recovered
  and followed by another; three writes leave one in the snapshot, one in the
  old and one in the new segment. The policy `no` differs from `everysec` only
  in what it promises, which is nothing; the theorems cover it.
- A reader of two shards, a writer, expiry and compaction are enough for a
  cycle of waiting. Locks of several databases, and writers of several keys,
  make the state space too large for liveness; the theorems cover them.
- Time runs four or five ticks with deadlines of one and two, so that keys
  expire, are extended and are written again; an EXPIRE wraps around. In a
  behaviour the clients send commands from one menu (strings, collections;
  keys, far deadlines, sessions), because commands of different menus meet only in `DEL`,
  `EXPIRE`, `SET` and `FLUSHDB`, which are in both.
- Collections are promoted with entries before and after it, by count and by
  size, and shrink to nothing and grow again. Elements look like lengths, so
  that a reader out of step would find something to read.
- The pipelines mix the two forms of requests, an empty line, an empty array,
  a half and a malformed request; a bulk body holds a line end; a reply is
  longer than what the socket takes at once.

`CHECK_DEADLOCK FALSE` is set for `AppendLog` and `Server`: a server that has
shut down, or used up its crashes, really stops.

### Fairness

- `Execute`: every goroutine that can run is scheduled (weak fairness of its
  steps). Strong fairness of `LockAnnounce`, which takes the `sync.Mutex` inside
  an `RWMutex`: its starvation mode hands it to waiters in turn. Clients need
  not send anything: requests, and the start of a compaction, have no fairness.
- `Database`: the clock and the expiry ticker run. Each indexed key is strongly
  fairly sampled, because Go begins to range over a map at a random place.
- `Server`: goroutines are scheduled, and a client reads what has arrived for
  it. Without the latter `Drains` is false: shutdown trips read deadlines only,
  and a goroutine blocked in a write is waited for. Clients need not send, and
  the context need not be cancelled.

### Disagreements found

Five runs are expected to end in a violation; each states what the
repository's own text says and shows an execution of the code against it.

| Run | Property | What happens |
|---|---|---|
| `append_log_torn` | `PromisedServed` | A torn record is not cut off when its segment is reopened; acknowledged, fsynced writes behind it are lost at the next boot. |
| `append_log_rotate` | `PromisedServed` | Rotate does not fsync the segment it closes; the next timed Flush syncs only the new one. A power failure before the rename loses older writes than the policy says. |
| `replay_late` | `SameWhenever` | SET, EXPIRE 1, EXPIRE 2 replayed after the first deadline: the second PEXPIREAT does not see the key, which is lost although it is still live. |
| `server_deadline` | `RepliesBeforeDeadline` | A command is followed by part of another request: its reply is held back, the read that waits for the rest meets the deadline of a shutdown, and the connection is closed without a flush. |
| `settings` | `SetsVisible` | Two CONFIG SETs of different parameters load the same settings; the second store undoes the first. |

`SameWhenever` fails in two more ways with other commands. INCR, EXPIRE, INCR
replayed after the deadline: the last INCR finds the counter hidden and makes a
new one without a deadline. PEXPIREAT to the Unix epoch, then a compaction: the
deadline is written as 0, which is read as none, and the expired key is back.
No run goes there; its trace would hide the one above.

Deadlines after 2262 are lost as well, without any having passed. PEXPIREAT
takes any int64 of milliseconds, and a snapshot holds nanoseconds: `UnixNano`
(server.go:402) wraps around, so that after SET, PEXPIREAT to the year 2286, a
compaction and a restart the key has a deadline 584 years earlier and is gone.
Every clean shutdown compacts. The log alone keeps such a deadline.

`ExactBeforeDeadlines` is what does hold: no deadline in the log or the snapshot
has passed, and each that was in memory when the snapshot was taken (`saved`)
is one that `UnixNano` converts exactly (`HasUnixNano`). The menu of far deadlines
has the last such time and the first one behind it; without the second
condition, or with it one tick too wide, TLC finds the lost key.

`Answered` speaks of clients that send commands only. A blank line behind a
command is skipped without a flush, so the reply waits for the next command.

## Theorems

All are proved by TLAPS without unproved steps, from the named assumptions on
the constants only (`AppendLogAssumption`, `ExecuteAssumption`,
`CommandsAssumption`, `DatabaseAssumption`, `ReplayAssumption`,
`ServerAssumption`, `RespAssumption`, `ProgramsAssumption`,
`RepliesAssumption`, `PackAssumption`, `ListAssumption`): numbers are natural, sets of goroutines are disjoint,
`Route` is a function into the shards, commands have passed the arity check
(`Resolved`), connections are finitely many, no millisecond count that
`persistArgs` writes is beyond int64, a varint has a base of at least 2,
different numbers have different numerals, none of which is a line end, and
requests and replies are such as the assumptions about the environment allow.
The bounds are arbitrary, so the results hold for any number of writes,
generations, crashes, connections, databases, shards, keys and ticks.

**`AppendLogProofs`**: `TypeCorrect`, `MemoryOnDiskHolds`, `ReplayInOrderHolds`,
`PromisedDurableHolds`, `CleanShutdownHolds`. The inductive invariant adds to
the properties:

- `DiskInv`: only existing segment files have contents, nothing is numbered
  ahead of `next`;
- `RunInv`: the active segment exists, is the highest, and is not covered by
  the snapshot (this is where Open's use of the snapshot's base enters);
- `StageInv`: which stages of Append, compaction and shutdown exclude each
  other through `Store.mu`, the shard locks and the order of Serve;
- `CaptureInv`: the captured state is all of memory until Rotate is done, and
  whatever is in memory besides went to the new segment. Without it, nothing
  is known about the snapshot at the moment of its rename;
- `OrderInv`: replay is in order and the buffered writes come last;
- `PromiseInv`: a promised write is not dropped by a snapshot on its way.

`Refinement` and `PromisedServedHolds`, in the same module: `AppendLog`
implements `DurableLog` under every policy if only the process may crash
(`Calm`), and serves what it promised. The mapped state is the memory of a
running server and what recovery would read of a dead one. Beyond
the invariant above, `KeptInv` says that what is promised has left the buffer,
and `FlushInv` that a flush in progress has emptied it. Lemma `OnDisk` turns
`MemoryOnDisk` into an equation, so that a crash loses exactly the buffer, and
`BufferLast`, from `OrderInv`, makes that a tail.

**`ExecuteProofs`**: `TypeCorrect`, `ExclusionHolds`, `LogOrder`,
`SnapshotCutHolds`. `MutexInv` says what it means to hold or to await each
lock, `BodyInv` that a command inside its body holds all its locks, `RunsInv`
that a shard's log is complete but for the write of the goroutine that holds
the shard, and `CompactInv` relates base, generation and cut at each stage.

`NoDeadlock`, in the same module: whoever waits for a lock holds, and has
announced itself at, earlier locks only. In a set of goroutines that all wait
for each other, take the last of the locks they wait for: whoever keeps its
waiter from it waits for a later one. That there is a last one follows from the
library's theorem on well-founded relations.

**`CommandsProofs`**: lemmas about the methods of the keyspace and the handlers,
which the next two modules share. One lemma per method shows that it keeps a
keyspace sound (`Sound`: typed, and the TTL index complete), one per group of
handlers that the handlers do (`DispatchSound`), that they touch only the keys
they name (`DispatchFrame`), that reads and failures change nothing, and that
they keep values in bounds and collections not empty (`DispatchFit`).

**`DatabaseProofs`**: `TypeCorrect`, `IndexComplete`, `NoSilentChangeHolds`,
`ExpiryInvisible`, `NoRevivalHolds`, `NoEmptyCollectionHolds`,
`IntegersFitHolds`, `SInterIsIntersectionHolds`. `ExpiryInvisible` needs from
the invariant that a cycle's reading of the clock is never ahead of the clock.
The invariant about contents (`AllFit`) is about all stored values, expired ones
too, because INCR or a pop starts from what is stored: a string is a text or a
number in bounds, a list is a sequence, a set is finite and nothing is empty. It
needs from the arity check that a command that adds has something to add.
`SInterIsIntersectionHolds` needs it because SINTER begins with a smallest set,
which there is among finite ones.

**`ReplayProofs`**: `TypeCorrect`, `RecoveredIndexedHolds`,
`ExactBeforeDeadlinesHolds`, for logs of any length. The library's induction
theorems cannot be used, so what the recursive function `replaySegments`
computes is had from the principle of the least number: of two solutions of the
recursion, take the first record at which they differ (`PrefixUnique`), and of
the lengths without a solution the least (`PrefixExists`). `StreamAppend` then
says that one more record is one more step. The two inductive invariants speak
of a restart at *every* time `t`, because a record is replayed long after it was
logged: `RecoveryInv`, the recovered databases are sound; `ExactInv`, if `t` is
not before now, no deadline is due by `t`, and the snapshot was given none that
`UnixNano` wraps (`Ahead`), they hold the keys and
values of those in memory and the same deadlines up to rounding and drift
(`Similar`), and `due` knows all deadlines on both sides. `LoggedSimilar` is the
step: a command on a keyspace in memory, and what `persistArgs` made of it on
a similar one at a later time, yield similar keyspaces.

**`RespProofs`**: `BulkReads`: ReadRequest reads back what the client's
writeCommand wrote, whatever bytes the arguments hold, or refuses it for its
size. `SomeRead`: from any prefix of the replies that the server wrote, the
client reads the first ones as they were, and waits only if there is more to
come. Each reader is a composition of readers over a stream that may be cut
anywhere, and the lemmas follow that composition: a reader that answers does so
from what it has consumed (`Firm`: more input changes nothing), and a piece
that stands somewhere in a stream is read there as it is read alone (`Holds`).
What the recursive `Repeat` and `ConcatTo` compute is had from the principle of
the least number.

**`ServerProofs`**: `TrackedHolds`, `FinalAloneHolds`. `ConnInv` relates the
socket, the goroutine and the registration of a connection, and says that the
listener hands out connections only while Serve accepts; `ServeInv` that the
gauge counts the goroutines between opened and closed. Nothing is assumed of
what clients send or of buffer sizes.

`FramedHolds`, in the same module, for any programs, packets, buffers and
replies. `Framed` is not inductive: that the next command to run is the next
that was sent depends on where in the stream the reader is. The invariant `SInv`
says that the position up to which requests have been consumed is the end of the
k-th request of the client's program, for some k; that the commands run are those
among the first k (`Progress`); and that the tokens written are the replies,
one behind the other. `ReadsNext` is the step: whatever part of the rest has
arrived, ReadRequest finds the next request, or waits, or refuses it.

**`ListProofs`**: `PackEachReads`: whatever byte strings are packed, `packEach`
reads them back, for any number of them, any lengths and any base of the
varints. What the recursive functions of `Pack` compute is had by induction over
a *set* of numbers (`Induction`, from the principle of the least number), since
the prover cannot instantiate the library's induction theorems. A varint is read
back wherever it stands in a buffer (`BytesMove` and the lemmas around it); so
the loop of `packEach`, at the offset behind some elements, meets the next one.
`FirstOfPack`, `LastOfPack` and `PushedPacks` are the same for what the
operations of a list do with the ends of a pack.

In the same module, `TypeOKHolds`, `BothWaysHolds`, `RangeSelectsHolds` and
`ListImplementsDeque`, from `ListAssumption` (elements are byte strings, the
limits are natural), so for any elements, any
limits and any number of operations. None of the properties is inductive: each
is about what a walk along the pointers meets. The inductive invariant `Inv` says
that the list *represents* some sequence of elements (`Represents`): a compact
list is the pack of that sequence and counts it, and a promoted one `Holds` it:
there are nodes, all different, with nil before the first and after the last,
that hold its elements in order and point at each other in both directions
(`Chain`). One lemma for each of `pushFront`, `pushBack`, `popFront`, `popBack` and
`promote` gives the chain after it. `Reads` then says that the walk from the head,
the walk from the tail, and the scan of the pack all yield the represented
sequence, so that the mapped state of a step is the one of the deque's step.
Theorem `NormalizeRangeSelects`: for every length and all indices,
`normalizeRange` yields the first and last of the ranks between them, and
nothing exactly if there are none; `RangeSelectsHolds` applies it to both
encodings.

Only model-checked: liveness (`Served`, `Reclaimed`, `Drains`, `Answered`), which
is beyond the prover. `RoundTrips` and `CutsDetected`, which are about the files
of the collections in all their states. `SortedSetSound` and the refinements of
`ScoredSet` and `Table`: the inductive invariants, of the skip list's levels and
of the scans over a packed hash or set, are not written.

## Not modelled

- Exhaustion of memory, as by LPOP with a count for which `make` can just
  allocate; a larger count panics, which is modelled (`MaxCount`).
- A boot that ends in a replay error, for instance with fewer databases than
  before: it changes nothing on disk.
- CONFIG SET at recovery. It is logged and replayed, so a setting outlives a
  restart unless a compaction dropped it; the repository does not say whether
  it should. For the databases it is a command without effect.
- Name lookup, arity checks and the wording of replies: they choose a handler
  or an error and change no state.
- Timing of commands, the slow log and the counters of `metrics`: nothing reads
  them back. The gauge of open connections is modelled.
- Flags and the wiring of `main`: done once, before anything runs.
- The Node and Python clients, which use the protocol as the Go client does, and
  the Go client's typed helpers.
