------------------------------ MODULE AppendLog ------------------------------
(***************************************************************************)
(* The durable half of memcore: persistence.Store (the generation-numbered *)
(* append-log segments, the snapshot file and their compaction), the       *)
(* server loops that drive it, and recovery at boot, under process crashes *)
(* and power failures.                                                     *)
(*                                                                         *)
(* A write command is its number in the order of Append calls; a database  *)
(* state is the set of writes whose effect it contains.  (Commands that    *)
(* touch the same shard run and append under that shard's lock, so this    *)
(* order is the execution order of conflicting writes: module Execute.)    *)
(* A segment or a snapshot is likewise the set of writes it records.       *)
(*                                                                         *)
(* Assumed of the file system: creating, renaming and removing a file are  *)
(* durable in the order issued, except that a segment file of which        *)
(* nothing was ever synced may be missing after a power failure.           *)
(***************************************************************************)
EXTENDS Integers

CONSTANTS FSync,       \* the fsync policy: "always", "everysec" or "no"
          MaxWrites,   \* bound: write commands appended
          MaxGen,      \* bound: highest segment generation
          MaxCrashes,  \* bound: process crashes and power failures
          PowerFails,  \* may power failures happen (and not only crashes)?
          Tears,       \* may a crash leave a record half-written?
          Faults       \* may a file operation return an error?

ASSUME AppendLogAssumption ==
  /\ FSync \in {"always", "everysec", "no"}
  /\ MaxWrites \in Nat /\ MaxGen \in Nat /\ MaxCrashes \in Nat
  /\ PowerFails \in BOOLEAN /\ Tears \in BOOLEAN /\ Faults \in BOOLEAN

VARIABLES
  status,    \* "down", "up", the finalizePersistence stages, "closed"
  mem,       \* writes whose effect the in-memory databases contain
  gen,       \* Store.gen: generation of the active segment
  buf,       \* writes (still) held by Store.writer, the bufio.Writer
  partial,   \* does the active segment end in the beginning of a record?
  werr,      \* "none"; "sticky": writer holds an error; "closed": seg is closed
  io,        \* what the holder of Store.mu has done so far; "idle" if free
  comp,      \* the compaction: program counter, base generation, captured state
  files,     \* generations whose segment file exists
  segs,      \* intact records of each segment file, as the OS sees it
  synced,    \* the part of segs that an fsync has made durable
  torn,      \* segments that end in, or contain, a half-written record
  shadow,    \* writes recorded behind a half-written record
  snap,      \* the snapshot file: its base generation and contents
  next,      \* number of the next write
  promised,  \* history: writes the fsync policy has declared durable
  failed,    \* history: writes whose Append returned an error
  lost,      \* history: writes a recovery could not read behind a torn record
  crashes    \* history: crashes and power failures so far

process == <<status, mem, gen, buf, partial, werr, io, comp>>
disk    == <<files, segs, synced, torn, shadow, snap>>
history == <<next, promised, failed, lost, crashes>>
vars    == <<process, disk, history>>

Writes  == 1 .. MaxWrites
Gens    == 0 .. MaxGen
NoComp  == [pc |-> "idle", base |-> 0, ids |-> {}]

\* The stages of a running process: serving; finalizePersistence's Flush,
\* compact and Close; "exiting" once finalizePersistence has returned an error.
Running == {"up", "finalFlush", "finalCompact", "finalClose", "exiting"}

\* Type correctness of the process, of the disk it leaves behind and of the
\* bookkeeping: Store.gen and every segment file stay within the generations.
TypeOK ==
  /\ status \in Running \cup {"down", "closed"}
  /\ mem \subseteq Writes /\ buf \subseteq Writes
  /\ gen \in Gens
  /\ partial \in BOOLEAN
  /\ werr \in {"none", "sticky", "closed"}
  /\ io \in {"idle", "appending", "appended", "flushed"}
  /\ comp \in [pc : {"idle", "nextGen", "locked", "rotating", "install",
                     "rename", "renamed", "trim"},
               base : 0 .. MaxGen + 1, ids : SUBSET Writes]
  /\ files \subseteq Gens /\ torn \subseteq Gens
  /\ segs \in [Gens -> SUBSET Writes]
  /\ synced \in [Gens -> SUBSET Writes]
  /\ shadow \in [Gens -> SUBSET Writes]
  /\ snap \in [base : Gens, ids : SUBSET Writes]
  /\ next \in 1 .. MaxWrites + 1
  /\ promised \subseteq Writes /\ failed \subseteq Writes /\ lost \subseteq Writes
  /\ crashes \in 0 .. MaxCrashes

-----------------------------------------------------------------------------
(* What recovery would read from the disk. *)

\* Mutant: replay starts one past the snapshot's base.
ReplayedAbove == {g \in files : snap.base < g}

\* replaySegments: the segments from the snapshot's base up to the highest,
\* skipping generations without a file.
Replayed == {g \in files : snap.base <= g}

InSegments(f) == {w \in Writes : \E g \in Replayed : w \in f[g]}

\* Recover after a process crash: the snapshot's records, then every intact
\* record of the replayed segments.
Recoverable == snap.ids \cup InSegments(segs)

\* The part of it that a power failure cannot take away.
Durable == snap.ids \cup InSegments(synced)

Shadowed == InSegments(shadow)

\* Mutant: Open goes one past the highest segment.
OpenGenPast ==
  IF files = {} THEN 0 ELSE 1 + CHOOSE g \in files : \A h \in files : h <= g

\* highestSegment, raised to the snapshot's base: the generation Open reopens.
OpenGen ==
  LET highest == IF files = {} THEN 0
                 ELSE CHOOSE g \in files : \A h \in files : h <= g
  IN  IF snap.base > highest THEN snap.base ELSE highest

-----------------------------------------------------------------------------
(* Writing the bufio.Writer's contents to the active segment.  Records that *)
(* land behind a half-written one are in the file but not readable.         *)

WriteOut(ws) ==
  IF gen \in torn
    THEN /\ shadow' = [shadow EXCEPT ![gen] = @ \cup ws]
         /\ UNCHANGED segs
    ELSE /\ segs' = [segs EXCEPT ![gen] = @ \cup ws]
         /\ UNCHANGED shadow

\* writer.Flush succeeds: everything buffered reaches the operating system.
WriterFlush ==
  /\ werr = "none"
  /\ WriteOut(buf)
  /\ buf' = {}
  /\ partial' = FALSE
  /\ UNCHANGED <<files, torn, snap, werr>>

\* A write by the bufio.Writer fails: on a closed file, or when the writer holds
\* an error already, nothing is written; a fresh error leaves a prefix of the
\* buffered records in the file, perhaps cut in a record.
WriteFails ==
  /\ \/ /\ werr # "none"
        /\ UNCHANGED <<buf, partial, segs, shadow>>
     \/ /\ werr = "none" /\ Faults
        /\ \E n \in 0 .. MaxWrites :
             /\ WriteOut({w \in buf : w <= n})
             /\ buf' = {w \in buf : w > n}
        /\ partial' \in {partial /\ buf' = buf, Tears}
  /\ werr' = "sticky"
  /\ UNCHANGED <<files, synced, torn, snap>>

\* writer.Flush and the Sync or Close after it fail in the write or, with nothing
\* to write, on a segment that a failed Rotate has closed.
WriterFlushFails ==
  \/ ~(werr = "closed" /\ buf = {}) /\ WriteFails
  \/ werr = "closed" /\ buf = {} /\ UNCHANGED <<buf, partial, werr, disk>>

Sync == synced' = [synced EXCEPT ![gen] = segs[gen]]

\* Store.mu is free: no Append, Flush, Rotate or segment removal holds it.
MuFree == io = "idle" /\ comp.pc \notin {"rotating", "trim"}

-----------------------------------------------------------------------------
(* A write command: cmd.Run and Store.Append, which the connection calls    *)
(* with its shard locks held.  A compaction that holds every shard lock     *)
(* keeps it waiting; an Append error is logged and the client still gets    *)
(* the command's reply.                                                     *)

CanWrite ==
  /\ status = "up" /\ MuFree /\ comp.pc # "locked"
  /\ next \in Writes
  /\ mem' = mem \cup {next}
  /\ next' = next + 1

\* writeCommand into the buffer.  A full buffer first goes to the file, and
\* may take the beginning of the new record with it.
Append ==
  /\ CanWrite
  /\ werr # "sticky"
  /\ \/ /\ buf' = buf \cup {next}
        /\ UNCHANGED <<segs, shadow, partial>>
     \/ /\ werr = "none"
        /\ WriteOut(buf)
        /\ buf' = {next}
        /\ partial' \in {FALSE, Tears}
  /\ io' = IF FSync = "always" THEN "appending" ELSE "idle"
  /\ UNCHANGED <<status, gen, werr, comp, files, synced, torn, snap,
                 promised, failed, lost, crashes>>

\* writeCommand fails: the writer holds an error, or meets one as it spills.
AppendFails ==
  /\ CanWrite
  /\ failed' = failed \cup {next}
  /\ WriteFails
  /\ UNCHANGED <<status, gen, io, comp, promised, lost, crashes>>

\* The "always" policy, flushLocked inside Append: write, then fsync.
AppendFlush ==
  /\ io = "appending"
  /\ WriterFlush
  /\ io' = "appended"
  /\ UNCHANGED <<status, mem, gen, comp, synced, history>>

AppendSync ==
  /\ io = "appended"
  /\ Sync
  /\ io' = "idle"
  /\ promised' = promised \cup {next - 1}
  /\ UNCHANGED <<status, mem, gen, buf, partial, werr, comp, files, segs, torn,
                 shadow, snap, next, failed, lost, crashes>>

\* Mutant: Append drops flushLocked's error.
AppendIgnoresError ==
  /\ \/ io = "appending" /\ WriterFlushFails
     \/ io = "appended" /\ Faults /\ UNCHANGED <<buf, partial, werr, disk>>
  /\ io' = "idle"
  /\ promised' = promised \cup {next - 1}
  /\ UNCHANGED <<status, mem, gen, comp, next, failed, lost, crashes>>

\* flushLocked fails, in the write or in the fsync.
AppendFlushFails ==
  /\ \/ io = "appending" /\ WriterFlushFails
     \/ io = "appended" /\ Faults /\ UNCHANGED <<buf, partial, werr, disk>>
  /\ io' = "idle"
  /\ failed' = failed \cup {next - 1}
  /\ UNCHANGED <<status, mem, gen, comp, next, promised, lost, crashes>>

-----------------------------------------------------------------------------
(* Store.Flush: on runAppendLogFlush's timer under "everysec", and as the   *)
(* first step of finalizePersistence under every policy.                    *)

\* Mutant: Flush syncs the file but leaves the bufio.Writer alone.
FlushSyncOnly ==
  /\ (status = "up" /\ FSync = "everysec") \/ status = "finalFlush"
  /\ MuFree
  /\ io' = "flushed"
  /\ UNCHANGED <<status, mem, gen, buf, partial, werr, comp, disk, history>>

FlushWrite ==
  /\ (status = "up" /\ FSync = "everysec") \/ status = "finalFlush"
  /\ MuFree
  /\ WriterFlush
  /\ io' = "flushed"
  /\ UNCHANGED <<status, mem, gen, comp, synced, history>>

\* The fsync returns: under "everysec" everything written so far counts as
\* durable from here on.
FlushSync ==
  /\ io = "flushed"
  /\ Sync
  /\ io' = "idle"
  /\ status' = IF status = "finalFlush" THEN "finalCompact" ELSE status
  /\ promised' = IF FSync = "everysec" THEN promised \cup (mem \ failed)
                 ELSE promised
  /\ UNCHANGED <<mem, gen, buf, partial, werr, comp, files, segs, torn, shadow,
                 snap, next, failed, lost, crashes>>

\* The timer logs the error and goes on; shutdown gives up and the process ends.
FlushFails ==
  /\ \/ /\ (status = "up" /\ FSync = "everysec") \/ status = "finalFlush"
        /\ MuFree
        /\ WriterFlushFails
     \/ io = "flushed" /\ Faults /\ UNCHANGED <<buf, partial, werr, disk>>
  /\ io' = "idle"
  /\ status' = IF status = "finalFlush" THEN "exiting" ELSE status
  /\ UNCHANGED <<mem, gen, comp, history>>

-----------------------------------------------------------------------------
(* Server.compact, on runCompaction's timer or from finalizePersistence.    *)

\* Mutant: NextGen reports the current generation.
NextGenCurrent ==
  /\ status \in {"up", "finalCompact"} /\ comp.pc = "idle"
  /\ MuFree
  /\ gen < MaxGen
  /\ comp' = [pc |-> "nextGen", base |-> gen, ids |-> {}]
  /\ UNCHANGED <<status, mem, gen, buf, partial, werr, io, disk, history>>

\* NextGen, read before any lock is taken.
NextGen ==
  /\ status \in {"up", "finalCompact"} /\ comp.pc = "idle"
  /\ MuFree
  /\ gen < MaxGen
  /\ comp' = [pc |-> "nextGen", base |-> gen + 1, ids |-> {}]
  /\ UNCHANGED <<status, mem, gen, buf, partial, werr, io, disk, history>>

\* lockAllDatabases returns: no command is between its Run and its Append.
\* WriteSnapshot then captures the state in memory.
LockAndCapture ==
  /\ comp.pc = "nextGen"
  /\ io \notin {"appending", "appended"}
  /\ comp' = [comp EXCEPT !.pc = "locked", !.ids = mem]
  /\ UNCHANGED <<status, mem, gen, buf, partial, werr, io, disk, history>>

\* Rotate: flush and close the active segment, without an fsync ...
RotateFlush ==
  /\ comp.pc = "locked" /\ MuFree
  /\ WriterFlush
  /\ comp' = [comp EXCEPT !.pc = "rotating"]
  /\ UNCHANGED <<status, mem, gen, io, synced, history>>

\* ... and open the next one; the shard locks are released.
RotateOpen ==
  /\ comp.pc = "rotating"
  /\ gen' = gen + 1
  /\ files' = files \cup {gen + 1}
  /\ comp' = [comp EXCEPT !.pc = "install"]
  /\ UNCHANGED <<status, mem, buf, partial, werr, io, segs, synced, torn, shadow,
                 snap, history>>

\* Mutant: shutdown goes on after a failed compaction.
GoOn ==
  /\ comp' = NoComp
  /\ status' = IF status = "finalCompact" THEN "finalClose" ELSE status

\* A failed compaction is logged and retried at the next tick; in shutdown it
\* ends the process.
GiveUp ==
  /\ comp' = NoComp
  /\ status' = IF status = "finalCompact" THEN "exiting" ELSE status

\* Rotate fails in the flush or on a closed segment, or in opening the next
\* segment, which leaves the closed one in place.
RotateFails ==
  /\ \/ comp.pc = "locked" /\ MuFree /\ WriterFlushFails
     \/ /\ comp.pc = "rotating" /\ Faults
        /\ werr' = "closed"
        /\ UNCHANGED <<buf, partial, disk>>
  /\ GiveUp
  /\ UNCHANGED <<mem, gen, io, history>>

\* InstallSnapshot: the temporary file is written, fsynced and closed ...
InstallWrite ==
  /\ comp.pc = "install"
  /\ comp' = [comp EXCEPT !.pc = "rename"]
  /\ UNCHANGED <<status, mem, gen, buf, partial, werr, io, disk, history>>

\* Mutant: the covered segments are removed although the rename has failed.
InstallFailsTrims ==
  /\ comp.pc \in {"install", "rename"} /\ Faults
  /\ comp' = [comp EXCEPT !.pc = "renamed"]
  /\ UNCHANGED <<status, mem, gen, buf, partial, werr, io, disk, history>>

\* Any of these calls fails: the previous snapshot and all segments stay.
InstallFails ==
  /\ comp.pc \in {"install", "rename"} /\ Faults
  /\ GiveUp
  /\ UNCHANGED <<mem, gen, buf, partial, werr, io, disk, history>>

\* ... renamed over the previous snapshot ...
InstallRename ==
  /\ comp.pc = "rename"
  /\ snap' = [base |-> comp.base, ids |-> comp.ids]
  /\ comp' = [comp EXCEPT !.pc = "renamed"]
  /\ UNCHANGED <<status, mem, gen, buf, partial, werr, io, files, segs, synced,
                 torn, shadow, history>>

\* ... and, with Store.mu held, the covered segments are removed, lowest first.
TrimLock ==
  /\ comp.pc = "renamed" /\ MuFree
  /\ comp' = [comp EXCEPT !.pc = "trim"]
  /\ UNCHANGED <<status, mem, gen, buf, partial, werr, io, disk, history>>

Covered == {g \in files : g < comp.base}

\* A segment is removed; a failed removal is ignored and the file stays.
Trim(g) ==
  /\ comp.pc = "trim"
  /\ g \in Covered
  /\ \A h \in Covered : g <= h \/ Faults
  /\ files' = files \ {g}
  /\ torn' = torn \ {g}
  /\ segs' = [segs EXCEPT ![g] = {}]
  /\ synced' = [synced EXCEPT ![g] = {}]
  /\ shadow' = [shadow EXCEPT ![g] = {}]
  /\ UNCHANGED <<status, mem, gen, buf, partial, werr, io, comp, snap, history>>

TrimDone ==
  /\ comp.pc = "trim"
  /\ Covered = {} \/ Faults
  /\ comp' = NoComp
  /\ status' = IF status = "finalCompact" THEN "finalClose" ELSE status
  /\ UNCHANGED <<mem, gen, buf, partial, werr, io, disk, history>>

-----------------------------------------------------------------------------
(* Shutdown, crashes and boot. *)

\* Mutant: shutdown does not wait for a compaction in progress.
BeginFinalEarly ==
  /\ status = "up" /\ io = "idle"
  /\ gen < MaxGen
  /\ status' = "finalFlush"
  /\ UNCHANGED <<mem, gen, buf, partial, werr, io, comp, disk, history>>

\* Serve's wg.Wait returns: connections and timers have ended, and
\* finalizePersistence starts.
BeginFinal ==
  /\ status = "up" /\ io = "idle" /\ comp.pc = "idle"
  /\ gen < MaxGen
  /\ status' = "finalFlush"
  /\ UNCHANGED <<mem, gen, buf, partial, werr, io, comp, disk, history>>

\* Close: flush, fsync and close; the process exits normally.
Close ==
  /\ status = "finalClose"
  /\ WriterFlush
  /\ synced' = [synced EXCEPT ![gen] = segs'[gen]]
  /\ status' = "closed"
  /\ UNCHANGED <<mem, gen, io, comp, history>>

CloseFails ==
  /\ status = "finalClose" /\ Faults
  /\ WriterFlushFails
  /\ status' = "exiting"
  /\ UNCHANGED <<mem, gen, io, comp, history>>

\* The process is gone, and with it all that was only in memory.
Gone ==
  /\ status' = "down"
  /\ mem' = {} /\ buf' = {} /\ partial' = FALSE /\ werr' = "none"
  /\ io' = "idle" /\ comp' = NoComp /\ gen' = 0

\* The process dies, or exits after a failed shutdown: a record the
\* bufio.Writer had written in part stays torn.
Crash ==
  /\ status \in Running
  /\ \/ status = "exiting" /\ UNCHANGED crashes
     \/ crashes < MaxCrashes /\ crashes' = crashes + 1
  /\ Gone
  /\ torn' = IF partial THEN torn \cup {gen} ELSE torn
  /\ UNCHANGED <<files, segs, synced, shadow, snap, next, promised, failed, lost>>

\* The machine loses power: of each file what was synced survives, and any
\* prefix of the rest; the cut may fall inside a record.
PowerLoss ==
  /\ PowerFails /\ crashes < MaxCrashes
  /\ crashes' = crashes + 1
  /\ Gone
  /\ \E keep \in [Gens -> 0 .. MaxWrites] :
       /\ \A g \in Gens : keep[g] \in {0} \cup (segs[g] \ synced[g])
       /\ segs' = [g \in Gens |-> synced[g] \cup {w \in segs[g] : w <= keep[g]}]
  /\ synced' = segs'
  /\ \E gone \in SUBSET {g \in files : segs'[g] = {} /\ shadow[g] = {}} :
       files' = files \ gone
  /\ \E cut \in SUBSET {g \in Gens : Tears /\ segs'[g] # segs[g]} :
       torn' = (torn \cup cut \cup IF partial THEN {gen} ELSE {}) \cap files'
  /\ UNCHANGED <<shadow, snap, next, promised, failed, lost>>

\* openPersistence: Open reopens the highest segment for appending, as it is;
\* Recover loads the snapshot and replays.  Behind a half-written record the
\* replay is out of step with the records: it may find any of them, or none.
Boot ==
  /\ status \in {"down", "closed"}
  /\ status' = "up"
  /\ gen' = OpenGen
  /\ files' = files \cup {OpenGen}
  /\ \E found \in SUBSET Shadowed :
       /\ mem' = Recoverable \cup found
       /\ lost' = lost \cup ((Shadowed \ found) \ Recoverable)
  /\ buf' = {} /\ partial' = FALSE /\ werr' = "none" /\ io' = "idle"
  /\ comp' = NoComp
  /\ UNCHANGED <<segs, synced, torn, shadow, snap, next, promised, failed, crashes>>

-----------------------------------------------------------------------------
Init ==
  /\ status = "down" /\ mem = {} /\ gen = 0 /\ buf = {} /\ partial = FALSE
  /\ werr = "none" /\ io = "idle" /\ comp = NoComp
  /\ files = {} /\ torn = {}
  /\ segs = [g \in Gens |-> {}]
  /\ synced = [g \in Gens |-> {}]
  /\ shadow = [g \in Gens |-> {}]
  /\ snap = [base |-> 0, ids |-> {}]
  /\ next = 1 /\ promised = {} /\ failed = {} /\ lost = {} /\ crashes = 0

Next ==
  \/ Append \/ AppendFails \/ AppendFlush \/ AppendSync \/ AppendFlushFails
  \/ FlushWrite \/ FlushSync \/ FlushFails
  \/ NextGen \/ LockAndCapture \/ RotateFlush \/ RotateOpen \/ RotateFails
  \/ InstallWrite \/ InstallFails \/ InstallRename
  \/ TrimLock \/ (\E g \in Gens : Trim(g)) \/ TrimDone
  \/ BeginFinal \/ Close \/ CloseFails
  \/ Crash \/ PowerLoss \/ Boot

Spec == Init /\ [][Next]_vars

-----------------------------------------------------------------------------
(* Correctness. *)

\* While the server runs, the disk and the write buffer together hold exactly
\* the state in memory: no compaction step, crash or reboot in the past has
\* dropped a covered segment too early, or left one behind that would bring
\* back a write.  Excepted are the writes whose Append failed, and those
\* behind a torn record, which may or may not be readable.
MemoryOnDisk ==
  status \in Running =>
    /\ mem \subseteq Recoverable \cup buf \cup failed \cup Shadowed
    /\ Recoverable \cup buf \subseteq mem

\* Replay applies every write once and in the order of execution ("a crash
\* mid-compaction can never lose or double-apply writes", appendlog.go:28-29):
\* what the snapshot holds precedes every record of a replayed segment, and
\* the segments follow each other.
ReplayInOrder ==
  /\ \A g \in Replayed : \A v \in snap.ids, w \in segs[g] : v < w
  /\ \A g, h \in Replayed : g < h => \A v \in segs[g], w \in segs[h] : v < w

\* Under "always", a write whose Append returned without error survives any
\* later crash, power failure, compaction or I/O error, except behind a torn
\* record.
PromisedDurable ==
  FSync = "always" => promised \subseteq Durable \cup Shadowed \cup lost

\* The clients' view: a write the fsync policy has declared durable is in the
\* databases of every later incarnation of the server.
PromisedServed == status \in Running => promised \subseteq mem

\* After a clean shutdown the snapshot alone holds the whole state, under every
\* fsync policy and whatever happened to the segments before.
CleanShutdown == status = "closed" => mem \subseteq snap.ids

\* With no file fault and no power failure, the segments, the snapshot, their
\* compaction and the write buffer are one log that a crash cuts at its end: what
\* the server has after Recover is all it had, but for the latest writes, and
\* never misses one that the fsync policy has declared durable.
DL == INSTANCE DurableLog WITH up <- status \in Running,
                               state <- IF status \in Running THEN mem ELSE Recoverable

ImplementsDurableLog == DL!Spec
=============================================================================
