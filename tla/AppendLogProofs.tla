-------------------------- MODULE AppendLogProofs --------------------------
(***************************************************************************)
(* Proofs about AppendLog, for any number of writes, generations and       *)
(* crashes, under every fsync policy, with or without power failures, torn *)
(* records and I/O errors: what is in memory is on disk or in the buffer,  *)
(* replay is in order, a write that "always" has promised is durable, and  *)
(* a clean shutdown leaves everything in the snapshot.  The last section   *)
(* shows that AppendLog implements DurableLog as long as no file operation *)
(* fails, no record is torn and the machine keeps power.                   *)
(***************************************************************************)
EXTENDS AppendLog, WellFoundedInduction, TLAPS

\* Most leaves are first-order reasoning about sets and functions; the ones that
\* need arithmetic or many case splits name SMT.
USE Zenon, SMT

\* The disk: only segment files have contents, and nothing is numbered ahead.
DiskInv ==
  /\ \A g \in Gens : synced[g] \subseteq segs[g]
  /\ \A g \in Gens \ files : segs[g] = {} /\ shadow[g] = {}
  /\ \A g \in Gens : \A w \in segs[g] \cup shadow[g] : w < next
  /\ \A w \in snap.ids : w < next

\* A running process: the active segment exists, it is the highest one, and the
\* snapshot does not cover it.
RunInv ==
  status \in Running =>
    /\ gen \in files /\ snap.base <= gen
    /\ \A g \in files : g <= gen
    /\ \A w \in mem : w < next

\* The stages of Append, compaction and shutdown exclude each other as far as
\* Store.mu, the shard locks and Serve's order of steps say.
StageInv ==
  /\ status \notin {"up", "finalCompact"} => comp.pc = "idle"
  /\ status \notin {"up", "finalFlush"} => io = "idle"
  /\ io \in {"appending", "appended"} =>
       status = "up" /\ comp.pc \notin {"locked", "rotating", "trim"} /\ next - 1 \in Writes
  /\ comp.pc \in {"rotating", "trim"} => io = "idle"
  /\ comp.pc = "rotating" => buf = {}
  /\ comp.pc \in {"nextGen", "locked", "rotating"} => comp.base = gen + 1 /\ gen < MaxGen
  /\ comp.pc \in {"install", "rename", "renamed", "trim"} => comp.base = gen
  /\ comp.pc \in {"renamed", "trim"} => snap.base = gen

\* The captured state: all of memory until Rotate is done; from then on what is
\* in memory besides came later, and went to the new segment.
CaptureInv ==
  /\ comp.pc \in {"locked", "rotating"} => comp.ids = mem
  /\ comp.pc \in {"install", "rename"} =>
       /\ comp.ids \subseteq mem
       /\ mem \subseteq comp.ids \cup segs[gen] \cup shadow[gen] \cup buf \cup failed
       /\ \A v \in comp.ids, w \in segs[gen] \cup buf : v < w
  /\ status = "finalCompact" =>
       /\ comp.pc \in {"install", "rename"} => comp.ids = mem
       /\ comp.pc \in {"renamed", "trim"} => mem \subseteq snap.ids
  /\ status \in {"finalClose", "closed"} => mem \subseteq snap.ids

\* Replay is in order, and what is buffered comes last.
OrderInv ==
  /\ ReplayInOrder
  /\ status \in Running =>
       \A w \in buf : /\ \A v \in snap.ids : v < w
                      /\ \A g \in Replayed : \A v \in segs[g] : v < w

\* Promised writes: durable at any time, in memory while the process runs, and
\* not dropped by a snapshot that is about to be installed.
PromiseInv ==
  FSync = "always" =>
    /\ promised \subseteq Durable \cup Shadowed \cup lost
    /\ status \in Running => promised \subseteq mem \cup lost
    /\ io \in {"appending", "appended"} => next - 1 \in mem
    /\ io = "appending" => next - 1 \in buf
    /\ io = "appended" => next - 1 \in segs[gen] \cup shadow[gen]
    /\ comp.pc \in {"install", "rename"} =>
         promised \subseteq comp.ids \cup synced[gen] \cup shadow[gen] \cup lost

\* The inductive invariant.
IInv ==
  TypeOK /\ DiskInv /\ RunInv /\ StageInv /\ CaptureInv /\ OrderInv /\ MemoryOnDisk
  /\ PromiseInv

-----------------------------------------------------------------------------
(* Open finds the highest segment. *)

\* Generations and writes are integers.
LEMMA Numbers == Gens \subseteq Int /\ Writes \subseteq Int
BY SMT DEF Gens, Writes

\* A set of generations that is not empty has a greatest element.
LEMMA Greatest ==
  ASSUME NEW F \in SUBSET Gens, F # {}
  PROVE  \E g \in F : \A h \in F : h <= g
<1> DEFINE T == {MaxGen - g : g \in F}
<1>0. \A g \in F : g \in Int /\ MaxGen - g \in Nat
  BY SMT, AppendLogAssumption DEF Gens
<1>1. T \subseteq Nat /\ T # {}
  BY <1>0
<1>2. PICK x \in T : \A y \in T : ~(<<y, x>> \in OpToRel(<, Nat))
  BY <1>1, WFMin, NatLessThanWellFounded
<1>3. ASSUME NEW y \in T PROVE x <= y
  <2>1. x \in Nat /\ y \in Nat
    BY <1>1
  <2>2. ~(<<y, x>> \in OpToRel(<, Nat))
    BY <1>2
  <2> HIDE DEF T
  <2> QED BY SMT, <2>1, <2>2 DEF OpToRel
<1>4. PICK g \in F : x = MaxGen - g
  OBVIOUS
<1>5. \A h \in F : x <= MaxGen - h
  BY <1>3
<1> QED BY SMT, <1>4, <1>5, AppendLogAssumption DEF Gens

\* OpenGen is no lower than any segment and than the snapshot's base.
LEMMA OpenGenHighest ==
  ASSUME TypeOK
  PROVE  /\ OpenGen \in Gens /\ snap.base <= OpenGen
         /\ \A g \in files : g <= OpenGen
<1> DEFINE highest == IF files = {} THEN 0
                      ELSE CHOOSE g \in files : \A h \in files : h <= g
<1>1. highest \in Gens /\ \A g \in files : g <= highest
  <2>1. CASE files = {}
    BY SMT, <2>1, AppendLogAssumption DEF Gens
  <2>2. CASE files # {}
    <3>1. \E g \in files : \A h \in files : h <= g
      BY <2>2, Greatest DEF TypeOK
    <3> QED BY <2>2, <3>1 DEF TypeOK
  <2> QED BY <2>1, <2>2
<1>2. OpenGen = IF snap.base > highest THEN snap.base ELSE highest
  BY DEF OpenGen
<1> HIDE DEF highest
<1> QED BY SMT, <1>1, <1>2, AppendLogAssumption DEF TypeOK, Gens

-----------------------------------------------------------------------------
(* The types. *)

\* Records written to the active segment keep the segments well typed.
LEMMA WriteOutTypes ==
  ASSUME TypeOK, NEW ws \in SUBSET Writes, WriteOut(ws)
  PROVE  segs' \in [Gens -> SUBSET Writes] /\ shadow' \in [Gens -> SUBSET Writes]
<1>1. segs[gen] \cup ws \in SUBSET Writes /\ shadow[gen] \cup ws \in SUBSET Writes
  BY DEF TypeOK
<1> QED BY SMT, <1>1 DEF TypeOK, WriteOut

\* So does a writer.Flush, whether it succeeds or fails.
LEMMA FlushTypes ==
  ASSUME TypeOK, WriterFlush \/ WriteFails \/ WriterFlushFails
  PROVE  /\ buf' \subseteq Writes /\ partial' \in BOOLEAN
         /\ werr' \in {"none", "sticky", "closed"}
         /\ segs' \in [Gens -> SUBSET Writes] /\ shadow' \in [Gens -> SUBSET Writes]
         /\ torn' \subseteq Gens /\ UNCHANGED <<files, snap>>
<1>1. CASE WriterFlush
  <2>1. buf \in SUBSET Writes /\ WriteOut(buf)
    BY <1>1 DEF TypeOK, WriterFlush
  <2> QED BY <1>1, <2>1, WriteOutTypes DEF TypeOK, WriterFlush
<1>2. CASE WriteFails
  <2>1. UNCHANGED <<files, torn, snap>> /\ werr' = "sticky"
    BY <1>2 DEF WriteFails
  <2>2. CASE UNCHANGED <<buf, partial, segs, shadow>>
    BY <2>1, <2>2 DEF TypeOK
  <2>3. ASSUME NEW n \in 0 .. MaxWrites, WriteOut({w \in buf : w <= n}),
               buf' = {w \in buf : w > n}
        PROVE  /\ buf' \subseteq Writes
               /\ segs' \in [Gens -> SUBSET Writes] /\ shadow' \in [Gens -> SUBSET Writes]
    <3>1. {w \in buf : w <= n} \in SUBSET Writes
      BY DEF TypeOK
    <3> QED BY <2>3, <3>1, WriteOutTypes DEF TypeOK
  <2>4. CASE partial' \in {partial /\ buf' = buf, Tears}
    <3>1. partial' \in BOOLEAN
      BY <2>4, AppendLogAssumption DEF TypeOK
    <3> QED BY <1>2, <2>1, <2>2, <2>3, <3>1 DEF TypeOK, WriteFails
  <2> QED BY <1>2, <2>2, <2>4 DEF WriteFails
<1>3. CASE UNCHANGED <<buf, partial, werr, disk>>
  BY <1>3 DEF TypeOK, disk
<1> QED BY <1>1, <1>2, <1>3 DEF WriterFlushFails

\* So does an fsync of the active segment.
LEMMA SyncTypes ==
  ASSUME TypeOK, Sync
  PROVE  synced' \in [Gens -> SUBSET Writes]
BY DEF TypeOK, Sync

\* Every handler, I/O error, crash and boot preserves the types.
LEMMA TypeStep ==
  ASSUME IInv, Next
  PROVE  TypeOK'
<1> USE AppendLogAssumption
<1>t. TypeOK
  BY DEF IInv
<1>c. /\ NoComp \in [pc : {"idle", "nextGen", "locked", "rotating", "install", "rename",
                           "renamed", "trim"}, base : 0 .. MaxGen + 1, ids : SUBSET Writes]
      /\ 0 \in Gens
  BY SMT DEF NoComp, Gens
<1>n. next \in Writes => next + 1 \in 1 .. MaxWrites + 1
  BY SMT DEF Writes
<1>1. CASE Append
  <2>1. next \in Writes /\ next' = next + 1 /\ mem' \subseteq Writes
    BY <1>1, <1>t DEF Append, CanWrite, TypeOK
  <2>2. /\ buf' \subseteq Writes /\ partial' \in BOOLEAN
        /\ segs' \in [Gens -> SUBSET Writes] /\ shadow' \in [Gens -> SUBSET Writes]
    <3>1. CASE UNCHANGED <<segs, shadow, partial>> /\ buf' = buf \cup {next}
      BY <2>1, <3>1, <1>t DEF TypeOK
    <3>2. CASE WriteOut(buf) /\ buf' = {next} /\ partial' \in {FALSE, Tears}
      <4>1. buf \in SUBSET Writes
        BY <1>t DEF TypeOK
      <4> QED BY <2>1, <3>2, <4>1, <1>t, WriteOutTypes
    <3> QED BY <1>1, <3>1, <3>2 DEF Append
  <2> QED BY <1>1, <1>t, <1>n, <2>1, <2>2 DEF Append, TypeOK
<1>2. CASE AppendFails
  <2>1. next \in Writes /\ next' = next + 1 /\ mem' \subseteq Writes /\ failed' \subseteq Writes
    BY <1>2, <1>t DEF AppendFails, CanWrite, TypeOK
  <2> QED BY <1>2, <1>t, <1>n, <2>1, FlushTypes DEF AppendFails, WriterFlushFails, WriteFails, disk, TypeOK
<1>3. CASE AppendFlush
  BY <1>3, <1>t, FlushTypes DEF AppendFlush, TypeOK, history
<1>4. CASE AppendSync
  <2>1. next - 1 \in Writes
    BY <1>4, <1>t DEF AppendSync, IInv, StageInv
  <2> QED BY <1>4, <1>t, <2>1, SyncTypes DEF AppendSync, TypeOK
<1>5. CASE AppendFlushFails
  <2>1. next - 1 \in Writes
    BY <1>5 DEF AppendFlushFails, IInv, StageInv
  <2>2. CASE WriterFlushFails
    BY <1>5, <1>t, <2>1, <2>2, FlushTypes DEF AppendFlushFails, WriterFlushFails, WriteFails, disk, TypeOK
  <2>3. CASE UNCHANGED <<buf, partial, werr, disk>>
    BY <1>5, <1>t, <2>1, <2>3 DEF AppendFlushFails, TypeOK, disk
  <2> QED BY <1>5, <2>2, <2>3 DEF AppendFlushFails
<1>6. CASE FlushWrite
  BY <1>6, <1>t, FlushTypes DEF FlushWrite, TypeOK, history
<1>7. CASE FlushSync
  BY <1>7, <1>t, SyncTypes DEF FlushSync, TypeOK, Running
<1>8. CASE FlushFails
  <2>1. CASE WriterFlushFails
    BY <1>8, <1>t, <2>1, FlushTypes DEF FlushFails, WriterFlushFails, WriteFails, disk, TypeOK, Running, history
  <2>2. CASE UNCHANGED <<buf, partial, werr, disk>>
    BY <1>8, <1>t, <2>2 DEF FlushFails, TypeOK, Running, disk, history
  <2> QED BY <1>8, <2>1, <2>2 DEF FlushFails
<1>9. CASE NextGen
  <2>1. gen \in 0 .. MaxGen
    BY DEF IInv, TypeOK, Gens
  <2>2. gen + 1 \in 0 .. MaxGen + 1
    BY SMT, <2>1, AppendLogAssumption
  <2> QED BY <1>9, <1>t, <2>2 DEF NextGen, TypeOK, disk, history
<1>10. CASE LockAndCapture
  BY <1>10, <1>t DEF LockAndCapture, TypeOK, disk, history
<1>11. CASE RotateFlush
  BY <1>11, <1>t, FlushTypes DEF RotateFlush, TypeOK, history
<1>12. CASE RotateOpen
  <2>1. gen + 1 \in Gens
    BY SMT, <1>12, <1>t DEF RotateOpen, IInv, StageInv, TypeOK, Gens
  <2> QED BY <1>12, <1>t, <2>1 DEF RotateOpen, TypeOK, history
<1>13. CASE RotateFails
  <2>1. comp' = NoComp /\ status' \in Running \cup {"down", "closed"}
    BY <1>13, <1>t DEF RotateFails, GiveUp, TypeOK, Running
  <2>2. CASE WriterFlushFails
    BY <1>13, <1>t, <1>c, <2>1, <2>2, FlushTypes
       DEF RotateFails, WriterFlushFails, WriteFails, disk, TypeOK, history
  <2>3. CASE UNCHANGED <<buf, partial, disk>> /\ werr' \in {werr, "closed"}
    <3>1. werr' \in {"none", "sticky", "closed"}
      BY <1>t, <2>3 DEF TypeOK
    <3> QED BY <1>13, <1>t, <1>c, <2>1, <2>3, <3>1 DEF RotateFails, TypeOK, disk, history
  <2> QED BY <1>13, <2>2, <2>3 DEF RotateFails
<1>14. CASE InstallWrite
  BY <1>14, <1>t DEF InstallWrite, TypeOK, disk, history
<1>15. CASE InstallFails
  BY SMT, <1>15, <1>t DEF InstallFails, GiveUp, NoComp, TypeOK, Running, disk, history
<1>16. CASE InstallRename
  <2>1. comp.base \in Gens
    BY <1>16, <1>t DEF InstallRename, IInv, StageInv, TypeOK
  <2> QED BY <1>16, <1>t, <2>1 DEF InstallRename, TypeOK, history
<1>17. CASE TrimLock
  BY <1>17, <1>t DEF TrimLock, TypeOK, disk, history
<1>18. ASSUME NEW g \in Gens, Trim(g) PROVE TypeOK'
  BY <1>18, <1>t DEF Trim, TypeOK, history
<1>19. CASE TrimDone
  BY SMT, <1>19, <1>t DEF TrimDone, NoComp, TypeOK, Running, disk, history
<1>20. CASE BeginFinal
  BY <1>20, <1>t DEF BeginFinal, TypeOK, Running, disk, history
<1>21. CASE Close
  <2>1. synced' \in [Gens -> SUBSET Writes]
    BY <1>21, <1>t, FlushTypes DEF Close, TypeOK
  <2> QED BY <1>21, <1>t, <2>1, FlushTypes DEF Close, TypeOK, history
<1>22. CASE CloseFails
  BY <1>22, <1>t, FlushTypes DEF CloseFails, WriterFlushFails, WriteFails, disk, TypeOK, Running, history
<1>23. CASE Crash
  <2>1. torn' \subseteq Gens /\ crashes' \in 0 .. MaxCrashes
    BY SMT, <1>23, <1>t DEF Crash, TypeOK
  <2> QED BY <1>23, <1>t, <1>c, <2>1 DEF Crash, Gone, TypeOK
<1>24. CASE PowerLoss
  <2>1. segs' \in [Gens -> SUBSET Writes]
    BY SMT, <1>24, <1>t DEF PowerLoss, TypeOK
  <2>2. files' \subseteq Gens /\ torn' \subseteq Gens
    BY <1>24, <1>t DEF PowerLoss, TypeOK
  <2>3. crashes' \in 0 .. MaxCrashes
    BY SMT, <1>24, <1>t DEF PowerLoss, TypeOK
  <2> QED BY <1>24, <1>t, <1>c, <2>1, <2>2, <2>3 DEF PowerLoss, Gone, TypeOK
<1>25. CASE Boot
  <2>1. OpenGen \in Gens
    BY <1>t, OpenGenHighest
  <2>2. Recoverable \subseteq Writes /\ Shadowed \subseteq Writes
    BY <1>t DEF Recoverable, Shadowed, InSegments, TypeOK
  <2>3. mem' \subseteq Writes /\ lost' \subseteq Writes
    BY <1>25, <1>t, <2>2 DEF Boot, TypeOK
  <2>4. files' \subseteq Gens /\ gen' \in Gens
    BY <1>25, <1>t, <2>1 DEF Boot, TypeOK
  <2> QED BY <1>25, <1>t, <1>c, <2>3, <2>4 DEF Boot, TypeOK, Running
<1> QED BY <1>1, <1>2, <1>3, <1>4, <1>5, <1>6, <1>7, <1>8, <1>9, <1>10, <1>11, <1>12,
           <1>13, <1>14, <1>15, <1>16, <1>17, <1>18, <1>19, <1>20, <1>21, <1>22, <1>23,
           <1>24, <1>25 DEF Next

-----------------------------------------------------------------------------
(* The stages. *)

\* Every step respects the stages that Store.mu, the shard locks and the order of
\* finalizePersistence's calls impose.
LEMMA StageStep ==
  ASSUME IInv, Next
  PROVE  StageInv'
<1>t. /\ gen \in Gens /\ MaxGen \in Nat /\ next \in 1 .. MaxWrites + 1 /\ MaxWrites \in Nat
      /\ io \in {"idle", "appending", "appended", "flushed"}
      /\ comp \in [pc : {"idle", "nextGen", "locked", "rotating", "install", "rename",
                         "renamed", "trim"}, base : 0 .. MaxGen + 1, ids : SUBSET Writes]
  BY AppendLogAssumption DEF IInv, TypeOK
<1>s. StageInv
  BY DEF IInv
<1> USE <1>t, <1>s DEF StageInv, Writes
<1>1. CASE Append
  BY SMT, <1>1 DEF Append, CanWrite, MuFree
<1>2. CASE AppendFails
  BY <1>2 DEF AppendFails, CanWrite, MuFree, WriterFlushFails, WriteFails, disk
<1>3. CASE AppendFlush
  BY <1>3 DEF AppendFlush, WriterFlush, history
<1>4. CASE AppendSync
  BY <1>4 DEF AppendSync
<1>5. CASE AppendFlushFails
  BY <1>5 DEF AppendFlushFails, WriterFlushFails, WriteFails, disk
<1>6. CASE FlushWrite
  BY <1>6 DEF FlushWrite, WriterFlush, MuFree, history
<1>7. CASE FlushSync
  BY <1>7 DEF FlushSync
<1>8. CASE FlushFails
  BY <1>8 DEF FlushFails, WriterFlushFails, WriteFails, MuFree, disk, history
<1>9. CASE NextGen
  BY <1>9 DEF NextGen, MuFree, disk, history
<1>10. CASE LockAndCapture
  BY <1>10 DEF LockAndCapture, disk, history
<1>11. CASE RotateFlush
  BY <1>11 DEF RotateFlush, WriterFlush, MuFree, history
<1>12. CASE RotateOpen
  BY <1>12 DEF RotateOpen, history
<1>13. CASE RotateFails
  BY <1>13 DEF RotateFails, GiveUp, NoComp, MuFree, history
<1>14. CASE InstallWrite
  BY <1>14 DEF InstallWrite, disk, history
<1>15. CASE InstallFails
  BY <1>15 DEF InstallFails, GiveUp, NoComp, disk, history
<1>16. CASE InstallRename
  BY <1>16 DEF InstallRename, history
<1>17. CASE TrimLock
  BY <1>17 DEF TrimLock, MuFree, disk, history
<1>18. ASSUME NEW g \in Gens, Trim(g) PROVE StageInv'
  BY <1>18 DEF Trim, history
<1>19. CASE TrimDone
  BY <1>19 DEF TrimDone, NoComp, disk, history
<1>20. CASE BeginFinal
  BY <1>20 DEF BeginFinal, disk, history
<1>21. CASE Close
  BY <1>21 DEF Close, history
<1>22. CASE CloseFails
  BY <1>22 DEF CloseFails, history
<1>23. CASE Crash \/ PowerLoss
  BY SMT, <1>23 DEF Crash, PowerLoss, Gone, NoComp
<1>25. CASE Boot
  BY <1>25 DEF Boot, NoComp
<1> QED BY <1>1, <1>2, <1>3, <1>4, <1>5, <1>6, <1>7, <1>8, <1>9, <1>10, <1>11, <1>12,
           <1>13, <1>14, <1>15, <1>16, <1>17, <1>18, <1>19, <1>20, <1>21, <1>22, <1>23,
           <1>25 DEF Next

-----------------------------------------------------------------------------
(* What a flush of the bufio.Writer does to the disk. *)

\* The writes ws have gone to the active segment, readable or not.
Moved(ws) ==
  /\ \A g \in Gens \ {gen} : segs'[g] = segs[g] /\ shadow'[g] = shadow[g]
  /\ \/ segs'[gen] = segs[gen] \cup ws /\ shadow'[gen] = shadow[gen]
     \/ shadow'[gen] = shadow[gen] \cup ws /\ segs'[gen] = segs[gen]

\* WriteOut moves exactly the given records, to the readable part of the active
\* segment or behind its torn record.
LEMMA WriteOutMoves ==
  ASSUME TypeOK, NEW ws, WriteOut(ws)
  PROVE  Moved(ws)
<1>1. gen \in Gens /\ DOMAIN segs = Gens /\ DOMAIN shadow = Gens
  BY DEF TypeOK
<1>2. CASE gen \in torn
  BY <1>1, <1>2 DEF WriteOut, Moved
<1>3. CASE gen \notin torn
  BY <1>1, <1>3 DEF WriteOut, Moved
<1> QED BY <1>2, <1>3

\* A flush that succeeds moves the whole buffer; one that fails moves a prefix.
LEMMA FlushMoves ==
  ASSUME TypeOK, WriterFlush \/ WriteFails \/ WriterFlushFails
  PROVE  \E ws \in SUBSET buf :
           /\ Moved(ws) /\ buf' = buf \ ws /\ \A v \in ws, w \in buf' : v < w
           /\ WriterFlush => ws = buf
           /\ UNCHANGED <<files, snap>>
<1>1. CASE WriterFlush
  <2>1. Moved(buf)
    BY <1>1, WriteOutMoves DEF WriterFlush
  <2> QED BY <1>1, <2>1 DEF WriterFlush
<1>2. CASE (WriteFails \/ WriterFlushFails) /\ UNCHANGED <<buf, segs, shadow>>
  <2>1. Moved({})
    BY <1>2 DEF Moved
  <2>2. ~WriterFlush
    BY <1>2 DEF WriterFlush, WriterFlushFails, WriteFails, disk
  <2> QED BY <1>2, <2>1, <2>2 DEF WriterFlushFails, WriteFails, disk
<1>3. ASSUME WriteFails, NEW n \in 0 .. MaxWrites, WriteOut({w \in buf : w <= n}),
             buf' = {w \in buf : w > n}
      PROVE  \E ws \in SUBSET buf :
               /\ Moved(ws) /\ buf' = buf \ ws /\ \A v \in ws, w \in buf' : v < w
               /\ WriterFlush => ws = buf
               /\ UNCHANGED <<files, snap>>
  <2> DEFINE ws == {w \in buf : w <= n}
  <2>1. buf \subseteq Int /\ n \in Int
    BY SMT DEF TypeOK, Writes
  <2>2. Moved(ws) /\ UNCHANGED <<files, snap>>
    BY <1>3, WriteOutMoves DEF WriterFlushFails, WriteFails, disk
  <2>3. buf' = buf \ ws /\ \A v \in ws, w \in buf' : v < w
    <3>1. \A w \in buf : w > n <=> ~(w <= n)
      BY SMT, <2>1
    <3>2. \A v, w \in buf : v <= n /\ w > n => v < w
      BY SMT, <2>1
    <3> QED BY <1>3, <3>1, <3>2
  <2>4. ~WriterFlush
    BY <1>3 DEF WriterFlush, WriterFlushFails, WriteFails, disk
  <2> QED BY <2>2, <2>3, <2>4
<1> QED BY <1>1, <1>2, <1>3 DEF WriterFlushFails, WriteFails, disk

-----------------------------------------------------------------------------
(* Most steps run no command and start no segment, snapshot or incarnation: *)
(* at most they move a part of the buffer to the active segment and sync.   *)

\* A step of the running process that at most moves a prefix of the buffer.
Local ==
  /\ status \in Running
  /\ UNCHANGED <<mem, gen, files, snap, next, lost>>
  /\ failed \subseteq failed'
  /\ \A g \in Gens : synced[g] \subseteq synced'[g] /\ synced'[g] \subseteq segs'[g]
  /\ \E ws \in SUBSET buf :
       Moved(ws) /\ buf' = buf \ ws /\ \A v \in ws, w \in buf' : v < w

\* writer.Flush, failed or not, followed by an fsync or none, is a local step.
LEMMA FlushIsLocal ==
  ASSUME IInv, status \in Running, UNCHANGED <<mem, gen, next, lost>>, failed \subseteq failed',
         WriterFlush \/ WriterFlushFails,
         synced' = synced \/ synced' = [synced EXCEPT ![gen] = segs'[gen]]
  PROVE  Local
<1>1. PICK ws \in SUBSET buf :
        /\ Moved(ws) /\ buf' = buf \ ws /\ \A v \in ws, w \in buf' : v < w
        /\ UNCHANGED <<files, snap>>
  BY FlushMoves DEF IInv
<1>2. ASSUME NEW g \in Gens
      PROVE  synced[g] \subseteq synced'[g] /\ synced'[g] \subseteq segs'[g]
  BY <1>1 DEF IInv, TypeOK, DiskInv, Moved
<1> QED BY <1>1, <1>2 DEF Local

\* A step that writes nothing is local, with or without an fsync.
LEMMA QuietIsLocal ==
  ASSUME IInv, status \in Running, UNCHANGED <<mem, gen, buf, segs, shadow, files, snap, next, lost>>,
         failed \subseteq failed', synced' = synced \/ Sync
  PROVE  Local
<1>1. Moved({})
  BY DEF Moved
<1>2. ASSUME NEW g \in Gens
      PROVE  synced[g] \subseteq synced'[g] /\ synced'[g] \subseteq segs'[g]
  BY SMT DEF IInv, TypeOK, DiskInv, Sync
<1> QED BY SMT, <1>1, <1>2 DEF Local

\* The handlers that are local steps: all but a command's Append, opening a new
\* segment, renaming a snapshot, removing a segment, crashes and boot.
LEMMA LocalSteps ==
  ASSUME IInv,
         \/ AppendFlush \/ AppendSync \/ AppendFlushFails \/ FlushWrite \/ FlushSync
         \/ FlushFails \/ NextGen \/ LockAndCapture \/ RotateFlush \/ RotateFails
         \/ InstallWrite \/ InstallFails \/ TrimLock \/ TrimDone \/ BeginFinal
         \/ Close \/ CloseFails
  PROVE  Local
<1>s. StageInv
  BY DEF IInv
<1>1. CASE AppendFlush \/ FlushWrite \/ RotateFlush \/ Close
  <2>1. status \in Running
    BY <1>1, <1>s DEF AppendFlush, FlushWrite, RotateFlush, Close, StageInv, Running
  <2> QED BY <1>1, <2>1, FlushIsLocal DEF AppendFlush, FlushWrite, RotateFlush, Close, history
<1>2. CASE AppendSync \/ FlushSync
  <2>1. status \in Running
    BY <1>2, <1>s DEF AppendSync, FlushSync, StageInv, Running
  <2> QED BY <1>2, <2>1, QuietIsLocal DEF AppendSync, FlushSync
<1>3. CASE AppendFlushFails \/ FlushFails \/ RotateFails \/ CloseFails
  <2>1. status \in Running
    BY <1>3, <1>s DEF AppendFlushFails, FlushFails, RotateFails, CloseFails, StageInv, Running
  <2>2. UNCHANGED <<mem, gen, next, lost>> /\ failed \subseteq failed'
    BY <1>3 DEF AppendFlushFails, FlushFails, RotateFails, CloseFails, history
  <2>3. CASE WriterFlushFails
    BY <2>1, <2>2, <2>3, FlushIsLocal DEF WriterFlushFails, WriteFails, disk
  <2>4. CASE UNCHANGED <<buf, disk>>
    BY <2>1, <2>2, <2>4, QuietIsLocal DEF disk
  <2> QED BY <1>3, <2>3, <2>4 DEF AppendFlushFails, FlushFails, RotateFails, CloseFails
<1>4. CASE \/ NextGen \/ LockAndCapture \/ InstallWrite \/ InstallFails \/ TrimLock
           \/ TrimDone \/ BeginFinal
  <2>1. status \in Running
    BY <1>4, <1>s DEF NextGen, LockAndCapture, InstallWrite, InstallFails, TrimLock, TrimDone,
                      BeginFinal, StageInv, Running
  <2>2. UNCHANGED <<mem, gen, buf, disk, history>>
    BY <1>4 DEF NextGen, LockAndCapture, InstallWrite, InstallFails, TrimLock, TrimDone,
                BeginFinal
  <2> QED BY <2>1, <2>2, QuietIsLocal DEF disk, history
<1> QED BY <1>1, <1>2, <1>3, <1>4

\* A local step preserves all that is said of disk, memory and buffer.
LEMMA LocalStep ==
  ASSUME IInv, TypeOK', Local
  PROVE  DiskInv' /\ RunInv' /\ OrderInv' /\ MemoryOnDisk'
<1>t. /\ gen \in Gens /\ gen \in files /\ snap.base <= gen /\ \A g \in files : g <= gen
      /\ files \subseteq Gens /\ next \in Int /\ Gens \subseteq Int
      /\ buf \subseteq Writes /\ mem \subseteq Writes /\ \A w \in mem : w < next
  BY SMT DEF IInv, TypeOK, RunInv, Local, Gens
<1>m. /\ mem \subseteq Recoverable \cup buf \cup failed \cup Shadowed
      /\ Recoverable \cup buf \subseteq mem
  BY DEF IInv, MemoryOnDisk, Local
<1>1. PICK ws \in SUBSET buf : Moved(ws) /\ buf' = buf \ ws /\ \A v \in ws, w \in buf' : v < w
  BY DEF Local
<1>2. Replayed' = Replayed /\ gen \in Replayed /\ Replayed \subseteq Gens
  BY <1>t DEF Local, Replayed
<1>3. DiskInv'
  BY SMT, <1>t, <1>m, <1>1 DEF IInv, DiskInv, Local, Moved
<1>4. RunInv'
  BY <1>t DEF RunInv, Local
<1>5. OrderInv'
  <2>0. /\ \A w \in buf : /\ \A v \in snap.ids : v < w
                          /\ \A g \in Replayed : \A v \in segs[g] : v < w
        /\ ReplayInOrder
    BY DEF IInv, OrderInv, Local
  <2>1. ReplayInOrder'
    <3>1. ASSUME NEW g \in Replayed, NEW v \in snap.ids, NEW w \in segs'[g] PROVE v < w
      BY <1>1, <1>2, <2>0 DEF ReplayInOrder, Moved
    <3>2. ASSUME NEW g \in Replayed, NEW h \in Replayed, g < h,
                 NEW v \in segs'[g], NEW w \in segs'[h]
          PROVE  v < w
      <4>1. g # gen
        BY SMT, <3>2, <1>t, <1>2 DEF Replayed
      <4> QED BY <3>2, <4>1, <1>1, <1>2, <2>0 DEF ReplayInOrder, Moved
    <3> QED BY <3>1, <3>2, <1>2 DEF ReplayInOrder, Local
  <2> QED BY <1>1, <1>2, <2>0, <2>1 DEF OrderInv, Local, Moved
<1>6. MemoryOnDisk'
  <2>s. snap' = snap
    BY DEF Local
  <2>1. Recoverable \subseteq Recoverable' /\ Shadowed \subseteq Shadowed'
    BY <1>1, <1>2, <2>s DEF Recoverable, Shadowed, InSegments, Moved
  <2>2. Recoverable' \subseteq Recoverable \cup ws
    <3>1. \A g \in Replayed : segs'[g] \subseteq segs[g] \cup ws
      BY <1>1, <1>2 DEF Moved
    <3> QED BY <1>2, <2>s, <3>1 DEF Recoverable, InSegments
  <2>3. ws \subseteq Recoverable' \cup Shadowed'
    <3>1. ws \subseteq Writes
      BY <1>t
    <3> QED BY <1>1, <1>2, <3>1 DEF Recoverable, Shadowed, InSegments, Moved
  <2> QED BY <1>1, <1>m, <2>1, <2>2, <2>3 DEF MemoryOnDisk, Local
<1> QED BY <1>3, <1>4, <1>5, <1>6

-----------------------------------------------------------------------------
(* The other steps: a command ... *)

\* Append puts the write into the buffer or fails; either may move a part of
\* the buffer to the file first.
LEMMA AppendMoves ==
  ASSUME IInv, Append \/ AppendFails
  PROVE  \E ws \in SUBSET buf :
           /\ Moved(ws) /\ \A v \in ws, w \in buf \ ws : v < w
           /\ \/ buf' = (buf \ ws) \cup {next} /\ failed' = failed
              \/ buf' = buf \ ws /\ failed' = failed \cup {next}
<1>1. CASE Append
  <2>1. CASE buf' = buf \cup {next} /\ UNCHANGED <<segs, shadow>>
    <3>1. Moved({})
      BY <2>1 DEF Moved
    <3> QED BY SMT, <1>1, <2>1, <3>1 DEF Append
  <2>2. CASE WriteOut(buf) /\ buf' = {next}
    <3>1. Moved(buf)
      BY <2>2, WriteOutMoves DEF IInv
    <3> QED BY <1>1, <2>2, <3>1 DEF Append
  <2> QED BY <1>1, <2>1, <2>2 DEF Append
<1>2. CASE AppendFails
  <2>1. PICK ws \in SUBSET buf : Moved(ws) /\ buf' = buf \ ws /\ \A v \in ws, w \in buf' : v < w
    BY <1>2, FlushMoves DEF AppendFails, IInv
  <2> QED BY <1>2, <2>1 DEF AppendFails
<1> QED BY <1>1, <1>2

\* A command that runs and appends (or fails to) keeps the disk, the order of
\* replay and the agreement of memory with disk and buffer.
LEMMA AppendStep ==
  ASSUME IInv, TypeOK', Append \/ AppendFails
  PROVE  DiskInv' /\ RunInv' /\ OrderInv' /\ MemoryOnDisk'
<1>a. /\ status = "up" /\ mem' = mem \cup {next} /\ next' = next + 1
      /\ UNCHANGED <<status, gen, files, synced, snap>>
  BY DEF Append, AppendFails, CanWrite, WriterFlushFails, WriteFails, disk
<1>t. /\ gen \in Gens /\ gen \in files /\ snap.base <= gen /\ \A g \in files : g <= gen
      /\ files \subseteq Gens /\ next \in Int /\ Gens \subseteq Int
      /\ buf \subseteq Writes /\ mem \subseteq Writes /\ \A w \in mem : w < next
      /\ Writes \subseteq Int /\ \A g \in Gens : segs[g] \cup shadow[g] \subseteq Writes
      /\ snap.ids \subseteq Writes
  <2>1. next \in Int
    BY SMT DEF IInv, TypeOK
  <2> QED BY <1>a, <2>1, Numbers DEF IInv, TypeOK, RunInv, Running
<1>m. /\ mem \subseteq Recoverable \cup buf \cup failed \cup Shadowed
      /\ Recoverable \cup buf \subseteq mem
  BY <1>a DEF IInv, MemoryOnDisk, Running
<1>1. PICK ws \in SUBSET buf :
        /\ Moved(ws) /\ \A v \in ws, w \in buf \ ws : v < w
        /\ \/ buf' = (buf \ ws) \cup {next} /\ failed' = failed
           \/ buf' = buf \ ws /\ failed' = failed \cup {next}
  BY AppendMoves
<1>2. Replayed' = Replayed /\ gen \in Replayed /\ Replayed \subseteq Gens
  BY <1>a, <1>t DEF Replayed
<1>3. DiskInv'
  <2>1. \A g \in Gens : synced'[g] \subseteq segs'[g]
    BY <1>a, <1>t, <1>1 DEF IInv, DiskInv, Moved
  <2>2. \A g \in Gens \ files' : segs'[g] = {} /\ shadow'[g] = {}
    BY <1>a, <1>t, <1>1 DEF IInv, DiskInv, Moved
  <2>3. \A w \in Int : w < next => w < next'
    BY SMT, <1>a, <1>t
  <2>4. ASSUME NEW g \in Gens, NEW w \in segs'[g] \cup shadow'[g] PROVE w < next'
    <3>1. w \in segs[g] \cup shadow[g] \cup buf
      BY <1>1, <2>4 DEF Moved
    <3> QED BY <3>1, <1>t, <1>m, <2>3 DEF IInv, DiskInv
  <2>5. \A w \in snap'.ids : w < next'
    BY <1>a, <1>t, <2>3 DEF IInv, DiskInv
  <2> QED BY <2>1, <2>2, <2>4, <2>5 DEF DiskInv
<1>4. RunInv'
  BY SMT, <1>a, <1>t DEF RunInv
<1>5. OrderInv'
  <2>0. /\ \A w \in buf : /\ \A v \in snap.ids : v < w
                          /\ \A g \in Replayed : \A v \in segs[g] : v < w
        /\ ReplayInOrder
    BY <1>a DEF IInv, OrderInv, Running
  <2>1. ReplayInOrder'
    <3>1. ASSUME NEW g \in Replayed, NEW v \in snap.ids, NEW w \in segs'[g] PROVE v < w
      BY <1>1, <1>2, <2>0 DEF ReplayInOrder, Moved
    <3>2. ASSUME NEW g \in Replayed, NEW h \in Replayed, g < h,
                 NEW v \in segs'[g], NEW w \in segs'[h]
          PROVE  v < w
      <4>1. g # gen
        BY SMT, <3>2, <1>t, <1>2 DEF Replayed
      <4> QED BY <3>2, <4>1, <1>1, <1>2, <2>0 DEF ReplayInOrder, Moved
    <3> QED BY <3>1, <3>2, <1>2, <1>a DEF ReplayInOrder
  <2>2. /\ \A v \in snap.ids : v < next
        /\ \A g \in Replayed : \A v \in segs'[g] : v < next
    BY <1>1, <1>2, <1>t, <1>m DEF IInv, DiskInv, Moved
  <2>3. ASSUME NEW w \in buf \ ws
        PROVE  (\A v \in snap.ids : v < w) /\ \A g \in Replayed : \A v \in segs'[g] : v < w
    BY <1>1, <1>2, <2>0 DEF Moved
  <2> QED BY <1>1, <1>2, <1>a, <2>1, <2>2, <2>3 DEF OrderInv
<1>6. MemoryOnDisk'
  <2>1. /\ Recoverable \subseteq Recoverable' /\ Shadowed \subseteq Shadowed'
        /\ Recoverable' \subseteq Recoverable \cup ws
        /\ ws \subseteq Recoverable' \cup Shadowed'
    BY <1>1, <1>2, <1>t, <1>a DEF Recoverable, Shadowed, InSegments, Moved
  <2> QED BY <1>1, <1>m, <1>a, <2>1 DEF MemoryOnDisk
<1> QED BY <1>3, <1>4, <1>5, <1>6

-----------------------------------------------------------------------------
(* ... compaction ... *)

\* Opening the next segment keeps them: the new segment is empty and the highest.
LEMMA RotateOpenStep ==
  ASSUME IInv, TypeOK', RotateOpen
  PROVE  DiskInv' /\ RunInv' /\ OrderInv' /\ MemoryOnDisk'
<1>a. /\ status \in Running /\ gen' = gen + 1 /\ files' = files \cup {gen + 1} /\ buf = {}
      /\ UNCHANGED <<status, mem, buf, segs, synced, shadow, snap, next, failed>>
      /\ gen + 1 \in Gens /\ gen \in Int /\ Gens \subseteq Int
  BY SMT DEF RotateOpen, IInv, StageInv, Running, TypeOK, Gens, history
<1>t. /\ gen \in files /\ snap.base <= gen /\ \A g \in files : g <= gen
      /\ files \subseteq Gens /\ snap.base \in Int /\ \A w \in mem : w < next
  BY <1>a DEF IInv, TypeOK, RunInv
<1>1. gen + 1 \notin files
  BY SMT, <1>a, <1>t
<1>2. segs[gen + 1] = {} /\ shadow[gen + 1] = {}
  BY <1>a, <1>1 DEF IInv, DiskInv
<1>3. Replayed' = Replayed \cup {gen + 1}
  BY SMT, <1>a, <1>t DEF Replayed
<1>4. DiskInv'
  BY <1>a DEF IInv, DiskInv
<1>5. RunInv'
  BY SMT, <1>a, <1>t DEF RunInv
<1>6. OrderInv'
  BY <1>a, <1>2, <1>3 DEF IInv, OrderInv, ReplayInOrder
<1>7. MemoryOnDisk'
  <2>1. Recoverable' = Recoverable /\ Shadowed' = Shadowed
    BY <1>a, <1>2, <1>3 DEF Recoverable, Shadowed, InSegments
  <2> QED BY <1>a, <2>1 DEF IInv, MemoryOnDisk
<1> QED BY <1>4, <1>5, <1>6, <1>7

\* Renaming the snapshot keeps them: it holds all that the segments below its base
\* held, and only later writes are in the segment it leaves to be replayed.
LEMMA InstallRenameStep ==
  ASSUME IInv, TypeOK', InstallRename
  PROVE  DiskInv' /\ RunInv' /\ OrderInv' /\ MemoryOnDisk'
<1>a. /\ status \in Running /\ snap' = [base |-> gen, ids |-> comp.ids]
      /\ UNCHANGED <<status, mem, gen, buf, files, segs, synced, shadow, next, failed>>
      /\ comp.ids \subseteq mem
      /\ mem \subseteq comp.ids \cup segs[gen] \cup shadow[gen] \cup buf \cup failed
      /\ \A v \in comp.ids, w \in segs[gen] \cup buf : v < w
  BY DEF InstallRename, IInv, StageInv, CaptureInv, Running, history
<1>t. /\ gen \in Gens /\ gen \in files /\ snap.base <= gen /\ \A g \in files : g <= gen
      /\ files \subseteq Gens /\ Gens \subseteq Int /\ \A w \in mem : w < next
      /\ mem \subseteq Writes /\ segs[gen] \subseteq Writes /\ shadow[gen] \subseteq Writes
  BY SMT, <1>a DEF IInv, TypeOK, RunInv, Gens
<1>1. Replayed' = {gen} /\ gen \in Replayed
  BY SMT, <1>a, <1>t DEF Replayed
<1>2. DiskInv'
  BY <1>a, <1>t DEF IInv, DiskInv
<1>3. RunInv'
  BY <1>a, <1>t DEF RunInv
<1>4. OrderInv'
  BY SMT, <1>a, <1>t, <1>1 DEF IInv, OrderInv, ReplayInOrder
<1>5. MemoryOnDisk'
  <2>1. Recoverable' = comp.ids \cup segs[gen] /\ Shadowed' = shadow[gen]
    BY <1>a, <1>t, <1>1 DEF Recoverable, Shadowed, InSegments
  <2>2. segs[gen] \cup buf \subseteq mem
    BY <1>a, <1>t, <1>1 DEF IInv, MemoryOnDisk, Recoverable, InSegments
  <2> QED BY <1>a, <2>1, <2>2 DEF MemoryOnDisk
<1> QED BY <1>2, <1>3, <1>4, <1>5

\* Removing a covered segment keeps them: replay does not read it any more.
LEMMA TrimStep ==
  ASSUME IInv, TypeOK', NEW g \in Gens, Trim(g)
  PROVE  DiskInv' /\ RunInv' /\ OrderInv' /\ MemoryOnDisk'
<1>a. /\ status \in Running /\ files' = files \ {g} /\ g < gen /\ snap.base = gen
      /\ UNCHANGED <<status, mem, gen, buf, snap, next, failed>>
  BY DEF Trim, Covered, IInv, StageInv, Running, history
<1>t. /\ gen \in files /\ snap.base <= gen /\ files \subseteq Gens /\ Gens \subseteq Int
      /\ \A h \in files : h <= gen
      /\ \A w \in mem : w < next
  BY SMT, <1>a DEF IInv, TypeOK, RunInv, Gens
<1>d. DOMAIN segs = Gens /\ DOMAIN synced = Gens /\ DOMAIN shadow = Gens
  BY DEF IInv, TypeOK
<1>1. /\ \A h \in Gens \ {g} : segs'[h] = segs[h] /\ synced'[h] = synced[h] /\ shadow'[h] = shadow[h]
      /\ segs'[g] = {} /\ synced'[g] = {} /\ shadow'[g] = {}
  BY <1>d DEF Trim
<1>2. Replayed' = Replayed /\ g \notin Replayed /\ Replayed \subseteq Gens
  <2>1. ~(snap.base <= g)
    BY SMT, <1>a, <1>t
  <2>2. snap' = snap
    BY <1>a
  <2> QED BY <1>a, <1>t, <2>1, <2>2 DEF Replayed
<1>3. DiskInv'
  BY <1>a, <1>1 DEF IInv, DiskInv
<1>4. RunInv'
  BY SMT, <1>a, <1>t DEF RunInv
<1>5. OrderInv'
  BY <1>a, <1>1, <1>2 DEF IInv, OrderInv, ReplayInOrder
<1>6. MemoryOnDisk'
  <2>1. Recoverable' = Recoverable /\ Shadowed' = Shadowed
    BY <1>a, <1>1, <1>2 DEF Recoverable, Shadowed, InSegments
  <2> QED BY <1>a, <2>1 DEF IInv, MemoryOnDisk
<1> QED BY <1>3, <1>4, <1>5, <1>6

-----------------------------------------------------------------------------
(* ... the end of a process, and the next one. *)

\* A crash keeps the disk and the order of replay; nothing is in memory.
LEMMA CrashStep ==
  ASSUME IInv, TypeOK', Crash
  PROVE  DiskInv' /\ RunInv' /\ OrderInv' /\ MemoryOnDisk'
<1>1. status' = "down" /\ UNCHANGED <<files, segs, synced, shadow, snap, next>>
  BY DEF Crash, Gone
<1>2. Replayed' = Replayed
  BY <1>1 DEF Replayed
<1> QED BY <1>1, <1>2
        DEF IInv, DiskInv, RunInv, OrderInv, ReplayInOrder, MemoryOnDisk, Running

\* A power failure leaves each segment between its synced part and all of it.
LEMMA PowerLossEffect ==
  ASSUME IInv, PowerLoss
  PROVE  /\ \A g \in Gens : synced[g] \subseteq segs'[g] /\ segs'[g] \subseteq segs[g]
         /\ synced' = segs' /\ files' \subseteq files
         /\ \A g \in files \ files' : segs'[g] = {} /\ shadow[g] = {}
         /\ status' = "down" /\ UNCHANGED <<shadow, snap, next, promised, lost>>
<1>1. PICK keep \in [Gens -> 0 .. MaxWrites] :
        segs' = [g \in Gens |-> synced[g] \cup {w \in segs[g] : w <= keep[g]}]
  BY DEF PowerLoss
<1>2. \A g \in Gens : synced[g] \subseteq segs'[g] /\ segs'[g] \subseteq segs[g]
  BY <1>1 DEF IInv, DiskInv
<1>3. files' \subseteq files /\ \A g \in files \ files' : segs'[g] = {} /\ shadow[g] = {}
  <2>1. PICK gone \in SUBSET {g \in files : segs'[g] = {} /\ shadow[g] = {}} : files' = files \ gone
    BY DEF PowerLoss
  <2> QED BY <2>1
<1>4. synced' = segs' /\ status' = "down" /\ UNCHANGED <<shadow, snap, next, promised, lost>>
  BY DEF PowerLoss, Gone
<1> QED BY <1>2, <1>3, <1>4

\* So does a power failure, which leaves a prefix of each segment.
LEMMA PowerLossStep ==
  ASSUME IInv, TypeOK', PowerLoss
  PROVE  DiskInv' /\ RunInv' /\ OrderInv' /\ MemoryOnDisk'
<1>1. Replayed' \subseteq Replayed /\ Replayed \subseteq Gens
  BY PowerLossEffect DEF Replayed, IInv, TypeOK
<1>2. DiskInv'
  BY PowerLossEffect DEF IInv, DiskInv
<1> QED BY <1>1, <1>2, PowerLossEffect
        DEF IInv, RunInv, OrderInv, ReplayInOrder, MemoryOnDisk, Running

\* Recovery rebuilds what the disk holds and reopens the highest segment.
LEMMA BootStep ==
  ASSUME IInv, TypeOK', Boot
  PROVE  DiskInv' /\ RunInv' /\ OrderInv' /\ MemoryOnDisk'
<1>a. /\ gen' = OpenGen /\ files' = files \cup {OpenGen} /\ buf' = {}
      /\ UNCHANGED <<segs, synced, shadow, snap, next, failed>>
      /\ Recoverable \subseteq mem' /\ mem' \subseteq Recoverable \cup Shadowed
  BY DEF Boot
<1>t. /\ OpenGen \in Gens /\ snap.base <= OpenGen /\ \A g \in files : g <= OpenGen
      /\ Gens \subseteq Int /\ files \subseteq Gens
  BY OpenGenHighest, Numbers DEF IInv, TypeOK
<1>1. Replayed' = Replayed \cup {OpenGen} /\ Replayed \subseteq Gens
  <2>1. snap' = snap
    BY <1>a
  <2> HIDE DEF OpenGen
  <2> QED BY <1>a, <1>t, <2>1 DEF Replayed
<1>2. OpenGen \in Replayed \/ (segs[OpenGen] = {} /\ shadow[OpenGen] = {})
  <2>1. CASE OpenGen \in files
    BY <1>t, <2>1 DEF Replayed
  <2>2. CASE OpenGen \in Gens \ files
    BY <2>2 DEF IInv, DiskInv
  <2> QED BY <1>t, <2>1, <2>2
<1>3. DiskInv'
  BY <1>a DEF IInv, DiskInv
<1>4. RunInv'
  <2>1. \A w \in Recoverable \cup Shadowed : w < next
    BY <1>1 DEF Recoverable, Shadowed, InSegments, IInv, DiskInv
  <2> QED BY SMT, <1>a, <1>t, <2>1 DEF RunInv
<1>5. OrderInv'
  BY SMT, <1>a, <1>1, <1>2 DEF IInv, OrderInv, ReplayInOrder
<1>6. MemoryOnDisk'
  <2>1. Recoverable' = Recoverable /\ Shadowed' = Shadowed
    BY <1>a, <1>1, <1>2 DEF Recoverable, Shadowed, InSegments
  <2> QED BY <1>a, <2>1 DEF MemoryOnDisk
<1> QED BY <1>3, <1>4, <1>5, <1>6

-----------------------------------------------------------------------------
(* The captured state. *)

\* The captured snapshot stays what memory was at Rotate until it is installed.
LEMMA CaptureStep ==
  ASSUME IInv, TypeOK', Next
  PROVE  CaptureInv'
<1>c. CaptureInv /\ StageInv
  BY DEF IInv
<1>1. CASE Append \/ AppendFails
  <2>a. /\ status = "up" /\ comp.pc # "locked" /\ comp.pc # "rotating"
        /\ mem' = mem \cup {next} /\ UNCHANGED <<status, gen, comp, snap>>
    BY <1>1 DEF Append, AppendFails, CanWrite, MuFree, WriterFlushFails, WriteFails, disk
  <2>t. gen \in Gens /\ \A w \in mem : w < next
    BY <2>a DEF IInv, TypeOK, RunInv, Running
  <2>1. PICK ws \in SUBSET buf :
          /\ Moved(ws)
          /\ \/ buf' = (buf \ ws) \cup {next} /\ failed' = failed
             \/ buf' = buf \ ws /\ failed' = failed \cup {next}
    BY <1>1, AppendMoves
  <2>2. /\ comp.pc \notin {"locked", "rotating"} /\ status \notin {"finalCompact", "finalClose", "closed"}
        /\ UNCHANGED <<comp, status>>
    BY <2>a
  <2>3. ASSUME comp.pc \in {"install", "rename"}
        PROVE  /\ comp.ids \subseteq mem'
               /\ mem' \subseteq comp.ids \cup segs'[gen] \cup shadow'[gen] \cup buf' \cup failed'
               /\ \A v \in comp.ids, w \in segs'[gen] \cup buf' : v < w
    BY <2>a, <2>t, <2>1, <2>3, <1>c DEF CaptureInv, Moved
  <2> QED BY <2>a, <2>2, <2>3 DEF CaptureInv
<1>2. CASE \/ AppendFlush \/ AppendSync \/ AppendFlushFails \/ FlushWrite \/ FlushSync
           \/ FlushFails \/ BeginFinal \/ Close \/ CloseFails
  <2>1. Local
    BY <1>2, LocalSteps
  <2>2. PICK ws \in SUBSET buf : Moved(ws) /\ buf' = buf \ ws
    BY <2>1 DEF Local
  <2>3. gen \in Gens /\ failed \subseteq failed' /\ UNCHANGED <<mem, gen, snap>>
    BY <2>1 DEF Local, IInv, TypeOK
  <2>4. comp' = comp
    BY <1>2 DEF AppendFlush, AppendSync, AppendFlushFails, FlushWrite, FlushSync, FlushFails,
                BeginFinal, Close, CloseFails
  <2>5. \/ status' = status
        \/ status' = "finalCompact" /\ comp.pc = "idle"
        \/ status' \in {"exiting", "finalFlush"}
        \/ status' = "closed" /\ status = "finalClose"
    BY <1>2, <1>c DEF AppendFlush, AppendSync, AppendFlushFails, FlushWrite, FlushSync,
                      FlushFails, BeginFinal, Close, CloseFails, StageInv
  <2> QED BY <2>2, <2>3, <2>4, <2>5, <1>c DEF CaptureInv, Moved
<1>3. CASE NextGen \/ LockAndCapture
  <2>0. comp = [pc |-> comp.pc, base |-> comp.base, ids |-> comp.ids]
    BY DEF IInv, TypeOK
  <2>1. \/ comp'.pc = "nextGen"
        \/ comp'.pc = "locked" /\ comp'.ids = mem
    <3>1. CASE NextGen
      BY <3>1 DEF NextGen
    <3>2. CASE LockAndCapture
      <4>1. comp' = [pc |-> "locked", base |-> comp.base, ids |-> mem]
        BY <2>0, <3>2 DEF LockAndCapture
      <4> QED BY <4>1
    <3> QED BY <1>3, <3>1, <3>2
  <2>2. UNCHANGED <<status, mem, snap>>
    BY <1>3 DEF NextGen, LockAndCapture, disk
  <2> QED BY <2>1, <2>2, <1>c DEF CaptureInv
<1>4. CASE RotateFlush
  BY SMT, <1>4, <1>c DEF RotateFlush, WriterFlush, CaptureInv, history
<1>5. CASE RotateOpen
  <2>1. buf = {} /\ gen + 1 \in Gens \ files
    BY SMT, <1>5 DEF RotateOpen, IInv, StageInv, RunInv, Running, TypeOK, Gens
  <2>2. segs[gen + 1] = {}
    BY <2>1 DEF IInv, DiskInv
  <2> QED BY SMT, <1>5, <2>1, <2>2, <1>c DEF RotateOpen, CaptureInv, history
<1>6. CASE RotateFails \/ InstallFails
  <2>1. /\ comp'.pc = "idle" /\ UNCHANGED <<mem, snap>>
        /\ status' = IF status = "finalCompact" THEN "exiting" ELSE status
    BY SMT, <1>6 DEF RotateFails, InstallFails, GiveUp, NoComp, WriterFlushFails, WriteFails, disk
  <2> QED BY <2>1, <1>c DEF CaptureInv
<1>7. CASE InstallWrite
  BY SMT, <1>7, <1>c DEF InstallWrite, CaptureInv, disk, history
<1>8. CASE InstallRename
  BY SMT, <1>8, <1>c DEF InstallRename, CaptureInv, StageInv
<1>9. CASE TrimLock
  BY SMT, <1>9, <1>c DEF TrimLock, CaptureInv, disk
<1>10. ASSUME NEW g \in Gens, Trim(g) PROVE CaptureInv'
  BY <1>10, <1>c DEF Trim, CaptureInv, StageInv
<1>11. CASE TrimDone
  BY <1>11, <1>c DEF TrimDone, NoComp, CaptureInv, disk
<1>12. CASE Crash \/ PowerLoss \/ Boot
  BY SMT, <1>12 DEF Crash, PowerLoss, Boot, Gone, NoComp, CaptureInv
<1> QED BY <1>1, <1>2, <1>3, <1>4, <1>5, <1>6, <1>7, <1>8, <1>9, <1>10, <1>11, <1>12 DEF Next

-----------------------------------------------------------------------------
(* The promise of the "always" policy. *)

\* What is durable stays so as long as the replayed segments stay and what is
\* synced and shadowed in them grows.
LEMMA DurableGrows ==
  ASSUME Replayed \subseteq Replayed', snap' = snap,
         \A g \in Replayed : synced[g] \subseteq synced'[g] /\ shadow[g] \subseteq shadow'[g]
  PROVE  Durable \subseteq Durable' /\ Shadowed \subseteq Shadowed'
BY DEF Durable, Shadowed, InSegments

\* A local step breaks no promise: what was durable or shadowed stays so.
LEMMA PromiseLocal ==
  ASSUME IInv, TypeOK', Next, Local, FSync = "always"
  PROVE  /\ Durable \subseteq Durable' /\ Shadowed \subseteq Shadowed'
         /\ synced[gen] \subseteq synced'[gen] /\ shadow[gen] \subseteq shadow'[gen]
         /\ UNCHANGED <<mem, gen, next, lost>>
<1>1. PICK ws \in SUBSET buf : Moved(ws)
  BY DEF Local
<1>2. Replayed' = Replayed /\ Replayed \subseteq Gens /\ gen \in Gens /\ snap' = snap
  BY DEF Local, Replayed, IInv, TypeOK
<1>3. \A g \in Gens : synced[g] \subseteq synced'[g] /\ shadow[g] \subseteq shadow'[g]
  BY <1>1, <1>2 DEF Local, Moved
<1> QED BY <1>2, <1>3, DurableGrows DEF Local

\* No step breaks a promise made under "always".
LEMMA PromiseStep ==
  ASSUME IInv, TypeOK', Next
  PROVE  PromiseInv'
<1> SUFFICES ASSUME FSync = "always" PROVE PromiseInv'
  BY DEF PromiseInv
<1>p. /\ promised \subseteq Durable \cup Shadowed \cup lost
      /\ status \in Running => promised \subseteq mem \cup lost
      /\ io \in {"appending", "appended"} => next - 1 \in mem
      /\ io = "appending" => next - 1 \in buf
      /\ io = "appended" => next - 1 \in segs[gen] \cup shadow[gen]
      /\ comp.pc \in {"install", "rename"} =>
           promised \subseteq comp.ids \cup synced[gen] \cup shadow[gen] \cup lost
      /\ StageInv
  BY DEF IInv, PromiseInv
<1>t. /\ comp = [pc |-> comp.pc, base |-> comp.base, ids |-> comp.ids]
      /\ io \in {"idle", "appending", "appended", "flushed"} /\ next \in Int
      /\ gen \in Gens /\ files \subseteq Gens /\ DOMAIN synced = Gens
      /\ \A g \in Gens : segs[g] \subseteq Writes /\ shadow[g] \subseteq Writes
      /\ \A g \in Gens : synced[g] \subseteq Writes
      /\ "idle" \notin {"appending", "appended"}
  <2>1. next \in Int
    BY SMT DEF IInv, TypeOK
  <2> QED BY <2>1 DEF IInv, TypeOK
<1>r. status \in Running => gen \in Replayed
  BY DEF IInv, RunInv, Replayed
<1>1. CASE Append \/ AppendFails
  <2>a. /\ mem' = mem \cup {next} /\ next' = next + 1 /\ status = "up"
        /\ UNCHANGED <<status, gen, comp, files, synced, snap, promised, lost>>
    BY <1>1 DEF Append, AppendFails, CanWrite, WriterFlushFails, WriteFails, disk
  <2>1. PICK ws \in SUBSET buf : Moved(ws)
    BY <1>1, AppendMoves
  <2>2. Replayed' = Replayed /\ Replayed \subseteq Gens
    BY <2>a, <1>t DEF Replayed
  <2>3. \A g \in Gens : shadow[g] \subseteq shadow'[g]
    BY <2>1, <1>t DEF Moved
  <2>4. Durable \subseteq Durable' /\ Shadowed \subseteq Shadowed'
    BY <2>a, <2>2, <2>3, DurableGrows
  <2>5. \/ io' = "idle"
        \/ io' = "appending" /\ next \in buf'
    BY <1>1 DEF Append, AppendFails, CanWrite, MuFree
  <2>6. next' - 1 = next
    BY SMT, <2>a, <1>t
  <2> QED BY <1>p, <1>t, <2>a, <2>3, <2>4, <2>5, <2>6 DEF PromiseInv, Running
<1>2. CASE AppendFlush
  <2>1. Local /\ io = "appending" /\ io' = "appended" /\ UNCHANGED <<status, comp, promised>>
    BY <1>2, LocalSteps DEF AppendFlush, history
  <2>2. buf \subseteq segs'[gen] \cup shadow'[gen]
    BY <1>2, FlushMoves DEF AppendFlush, IInv, Moved
  <2> QED BY SMT, <1>p, <2>1, <2>2, PromiseLocal DEF PromiseInv
<1>3. CASE AppendSync
  <2>1. Local /\ io = "appended" /\ io' = "idle" /\ UNCHANGED <<status, comp, snap, segs, shadow>>
        /\ promised' = promised \cup {next - 1} /\ synced'[gen] = segs[gen]
    BY <1>3, <1>t, LocalSteps DEF AppendSync, Sync
  <2>2. next - 1 \in Durable' \cup Shadowed'
    <3>1. gen' \in Replayed' /\ gen' = gen /\ next - 1 \in Writes
      BY <1>p, <1>r, <2>1 DEF Local, Replayed, StageInv
    <3> QED BY <1>p, <2>1, <3>1 DEF Durable, Shadowed, InSegments
  <2>3. next - 1 \in synced'[gen] \cup shadow'[gen]
    BY <1>p, <2>1
  <2> QED BY <1>p, <2>1, <2>2, <2>3, PromiseLocal DEF PromiseInv
<1>4. CASE \/ AppendFlushFails \/ FlushWrite \/ FlushSync \/ FlushFails \/ RotateFlush
           \/ RotateFails \/ BeginFinal \/ Close \/ CloseFails \/ TrimDone
  <2>1. Local
    BY <1>4, LocalSteps
  <2>2. io' \notin {"appending", "appended"}
    BY <1>4, <1>p DEF AppendFlushFails, FlushWrite, FlushSync, FlushFails, RotateFlush,
                RotateFails, BeginFinal, Close, CloseFails, TrimDone, StageInv, MuFree
  <2>3. promised' = promised
    BY <1>4 DEF AppendFlushFails, FlushWrite, FlushSync, FlushFails, RotateFlush,
                RotateFails, BeginFinal, Close, CloseFails, TrimDone, history
  <2>4. comp' = comp \/ comp'.pc \in {"idle", "rotating"}
    BY SMT, <1>4, <1>t DEF AppendFlushFails, FlushWrite, FlushSync, FlushFails, RotateFlush,
                RotateFails, GiveUp, NoComp, BeginFinal, Close, CloseFails, TrimDone
  <2>5. status \in Running
    BY <2>1 DEF Local
  <2> QED BY <1>p, <2>1, <2>2, <2>3, <2>4, <2>5, PromiseLocal DEF PromiseInv
<1>5. CASE NextGen \/ LockAndCapture \/ InstallWrite \/ InstallFails \/ TrimLock
  <2>1. Local
    BY <1>5, LocalSteps
  <2>2. UNCHANGED <<io, buf, segs, shadow, promised>>
    BY <1>5 DEF NextGen, LockAndCapture, InstallWrite, InstallFails, TrimLock, disk, history
  <2>3. \/ comp'.pc \in {"nextGen", "locked", "idle", "trim"}
        \/ /\ comp.pc = "install" /\ comp'.pc = "rename" /\ comp'.ids = comp.ids
    <3>1. CASE NextGen \/ InstallFails
      BY SMT, <3>1 DEF NextGen, InstallFails, GiveUp, NoComp
    <3>2. CASE LockAndCapture \/ TrimLock
      BY <3>2, <1>t DEF LockAndCapture, TrimLock
    <3>3. CASE InstallWrite
      BY <3>3, <1>t DEF InstallWrite
    <3> QED BY <1>5, <3>1, <3>2, <3>3
  <2>4. status \in Running
    BY <2>1 DEF Local
  <2> QED BY SMT, <1>p, <2>1, <2>2, <2>3, <2>4, PromiseLocal DEF PromiseInv
<1>6. CASE RotateOpen
  <2>1. /\ io = "idle" /\ io' = "idle" /\ comp'.ids = mem /\ status \in Running
        /\ files \subseteq files' /\ UNCHANGED <<status, mem, synced, shadow, snap, promised, lost>>
    BY <1>6, <1>p, <1>t DEF RotateOpen, StageInv, Running, IInv, CaptureInv, history
  <2>2. Durable \subseteq Durable' /\ Shadowed \subseteq Shadowed'
    BY <2>1, DurableGrows DEF Replayed
  <2> QED BY <1>p, <2>1, <2>2 DEF PromiseInv
<1>7. CASE InstallRename
  <2>1. /\ comp.pc = "rename" /\ comp'.pc = "renamed" /\ snap' = [base |-> gen, ids |-> comp.ids]
        /\ UNCHANGED <<status, mem, gen, io, buf, files, segs, synced, shadow, next, promised, lost>>
    BY <1>7, <1>p, <1>t DEF InstallRename, StageInv, history
  <2>2. gen \in Replayed'
    BY SMT, <2>1, <1>p, <1>r, <1>t DEF Replayed, StageInv, Running, Gens
  <2>3. comp.ids \cup synced[gen] \cup shadow[gen] \subseteq Durable' \cup Shadowed'
    BY <2>1, <2>2, <1>t DEF Durable, Shadowed, InSegments
  <2> QED BY <1>p, <2>1, <2>3 DEF PromiseInv
<1>8. ASSUME NEW g \in Gens, Trim(g) PROVE PromiseInv'
  <2>1. /\ comp.pc = "trim" /\ io = "idle" /\ io' = "idle" /\ snap.base = gen /\ g < gen
        /\ files' = files \ {g} /\ UNCHANGED <<status, mem, comp, snap, promised, lost>>
    BY <1>8, <1>p DEF Trim, Covered, StageInv, history
  <2>2. \A h \in Gens \ {g} : synced'[h] = synced[h] /\ shadow'[h] = shadow[h]
    BY <1>8 DEF Trim, IInv, TypeOK
  <2>3. g \notin Replayed /\ Replayed \subseteq Gens
    BY SMT, <2>1, <1>t DEF Replayed, Gens
  <2>4. Replayed \subseteq Replayed'
    BY <2>1, <2>3 DEF Replayed
  <2>5. Durable \subseteq Durable' /\ Shadowed \subseteq Shadowed'
    BY <2>1, <2>2, <2>3, <2>4, DurableGrows
  <2> QED BY <1>p, <2>1, <2>5 DEF PromiseInv
<1>9. CASE Crash
  <2>1. /\ status' = "down" /\ io' = "idle" /\ comp'.pc = "idle"
        /\ UNCHANGED <<files, synced, shadow, snap, promised, lost>>
    BY <1>9 DEF Crash, Gone, NoComp
  <2>2. Durable \subseteq Durable' /\ Shadowed \subseteq Shadowed'
    BY <2>1, DurableGrows DEF Replayed
  <2> QED BY <1>p, <2>1, <2>2 DEF PromiseInv, Running
<1>10. CASE PowerLoss
  <2>1. status' = "down" /\ io' = "idle" /\ comp'.pc = "idle"
    BY <1>10 DEF PowerLoss, Gone, NoComp
  <2>2. Durable \subseteq Durable'
    <3>1. ASSUME NEW g \in Replayed, NEW w \in synced[g]
          PROVE  g \in Replayed' /\ w \in synced'[g]
      BY <1>10, <1>t, PowerLossEffect DEF Replayed
    <3> QED BY <1>10, <3>1, PowerLossEffect DEF Durable, InSegments
  <2>3. Shadowed \subseteq Shadowed'
    <3>1. ASSUME NEW g \in Replayed, NEW w \in shadow[g]
          PROVE  g \in Replayed' /\ w \in shadow'[g]
      BY <1>10, <1>t, PowerLossEffect DEF Replayed
    <3> QED BY <3>1 DEF Shadowed, InSegments
  <2> QED BY <1>10, <1>p, <2>1, <2>2, <2>3, PowerLossEffect DEF PromiseInv, Running
<1>11. CASE Boot
  <2>1. /\ io' = "idle" /\ comp'.pc = "idle" /\ files \subseteq files'
        /\ UNCHANGED <<synced, shadow, snap, promised>>
        /\ lost \subseteq lost' /\ Recoverable \subseteq mem'
        /\ Shadowed \subseteq mem' \cup lost'
    BY <1>11 DEF Boot, NoComp
  <2>2. Durable \subseteq Durable' /\ Shadowed \subseteq Shadowed'
    BY <2>1, DurableGrows DEF Replayed
  <2>3. Durable \subseteq Recoverable
    BY <1>t DEF Durable, Recoverable, InSegments, Replayed, IInv, DiskInv
  <2> QED BY <1>p, <2>1, <2>2, <2>3 DEF PromiseInv
<1> QED BY <1>1, <1>2, <1>3, <1>4, <1>5, <1>6, <1>7, <1>8, <1>9, <1>10, <1>11 DEF Next

-----------------------------------------------------------------------------
(* The theorems. *)

\* A server that has never been started satisfies the invariant.
LEMMA InitInv == Init => IInv
<1> USE AppendLogAssumption
<1> SUFFICES ASSUME Init PROVE IInv
  OBVIOUS
<1>1. TypeOK
  <2>1. 0 \in Gens /\ 1 \in 1..(MaxWrites + 1) /\ 0 \in 0..MaxCrashes
    BY SMT DEF Gens
  <2>2. [g \in Gens |-> {}] \in [Gens -> SUBSET Writes]
    OBVIOUS
  <2>3. snap \in [base : Gens, ids : SUBSET Writes]
    BY <2>1 DEF Init
  <2>4. comp \in [pc : {"idle", "nextGen", "locked", "rotating", "install",
                        "rename", "renamed", "trim"},
                  base : 0 .. MaxGen + 1, ids : SUBSET Writes]
    BY SMT DEF Init, NoComp
  <2>5. /\ status \in Running \cup {"down", "closed"} /\ partial \in BOOLEAN
        /\ werr \in {"none", "sticky", "closed"}
        /\ io \in {"idle", "appending", "appended", "flushed"}
    BY DEF Init
  <2> QED BY <2>1, <2>2, <2>3, <2>4, <2>5 DEF Init, TypeOK
<1>2. DiskInv /\ RunInv /\ StageInv /\ CaptureInv
  BY DEF Init, DiskInv, RunInv, StageInv, CaptureInv, NoComp, Running
<1>3. OrderInv /\ MemoryOnDisk /\ PromiseInv
  BY DEF Init, OrderInv, ReplayInOrder, Replayed, MemoryOnDisk, PromiseInv, NoComp, Running
<1> QED BY <1>1, <1>2, <1>3 DEF IInv

\* Every step preserves the invariant.
LEMMA StepInv == IInv /\ [Next]_vars => IInv'
<1> SUFFICES ASSUME IInv, [Next]_vars PROVE IInv'
  OBVIOUS
<1>1. CASE Next
  <2>1. TypeOK' /\ StageInv' /\ CaptureInv' /\ PromiseInv'
    BY <1>1, TypeStep, StageStep, CaptureStep, PromiseStep
  <2>2. DiskInv' /\ RunInv' /\ OrderInv' /\ MemoryOnDisk'
    <3>1. CASE Local
      BY <2>1, <3>1, LocalStep
    <3>2. CASE \/ Append \/ AppendFails \/ RotateOpen \/ InstallRename \/ Crash \/ PowerLoss
               \/ Boot \/ \E g \in Gens : Trim(g)
      BY <2>1, <3>2, AppendStep, RotateOpenStep, InstallRenameStep, TrimStep, CrashStep,
         PowerLossStep, BootStep
    <3> QED BY <1>1, <3>1, <3>2, LocalSteps DEF Next
  <2> QED BY <2>1, <2>2 DEF IInv
<1>2. CASE UNCHANGED vars
  <2> USE <1>2 DEF vars, process, disk, history, IInv
  <2>1. TypeOK'
    BY SMT DEF TypeOK
  <2>2. DiskInv' /\ RunInv' /\ StageInv' /\ CaptureInv'
    BY DEF DiskInv, RunInv, StageInv, CaptureInv
  <2>3. /\ Replayed' = Replayed /\ Recoverable' = Recoverable
        /\ Durable' = Durable /\ Shadowed' = Shadowed
    BY DEF Replayed, Recoverable, Durable, Shadowed, InSegments
  <2>4. OrderInv' /\ MemoryOnDisk' /\ PromiseInv'
    BY SMT, <2>3 DEF OrderInv, ReplayInOrder, MemoryOnDisk, PromiseInv
  <2> QED BY <2>1, <2>2, <2>4
<1> QED BY <1>1, <1>2

\* The inductive invariant holds in every state of every execution.
THEOREM Invariance == Spec => []IInv
BY InitInv, StepInv, PTL DEF Spec

\* The process, the disk and the histories have the types of TypeOK.
THEOREM TypeCorrect == Spec => []TypeOK
BY Invariance, PTL DEF IInv

\* Under every fsync policy and fault, the databases in memory are what the
\* snapshot, the replayed segments and the write buffer hold together, but for
\* writes whose Append failed or that lie behind a torn record.
THEOREM MemoryOnDiskHolds == Spec => []MemoryOnDisk
BY Invariance, PTL DEF IInv

\* Recovery applies no write twice and none out of order, at whatever point of
\* a compaction the process stopped.
THEOREM ReplayInOrderHolds == Spec => []ReplayInOrder
<1>1. IInv => ReplayInOrder
  BY DEF IInv, OrderInv
<1> QED BY <1>1, Invariance, PTL

\* Under "always" a write is durable, or behind a torn record, from the return
\* of its Append on.
THEOREM PromisedDurableHolds == Spec => []PromisedDurable
<1>1. IInv => PromisedDurable
  BY DEF IInv, PromiseInv, PromisedDurable
<1> QED BY <1>1, Invariance, PTL

\* finalizePersistence, when it succeeds, leaves the whole state in the snapshot.
THEOREM CleanShutdownHolds == Spec => []CleanShutdown
<1>1. IInv => CleanShutdown
  BY DEF IInv, CaptureInv, CleanShutdown
<1> QED BY <1>1, Invariance, PTL

-----------------------------------------------------------------------------
(* AppendLog implements DurableLog. *)

\* The file system and the power supply do what they should.
Calm == ~PowerFails /\ ~Tears /\ ~Faults

\* Then no append fails and no record is torn.
CalmInv ==
  /\ partial = FALSE /\ werr = "none" /\ torn = {} /\ failed = {}
  /\ \A g \in Gens : shadow[g] = {}

\* After the write of a flush, and before its fsync, nothing is buffered; only
\* "always" flushes in Append.
FlushInv ==
  /\ io \in {"appended", "flushed"} => buf = {}
  /\ io \in {"appending", "appended"} => FSync = "always"

\* What is promised has left the buffer.
KeptInv ==
  /\ status \in Running => promised \subseteq mem \ buf
  /\ status \notin Running => promised \subseteq Recoverable

LogInv == CalmInv /\ FlushInv /\ KeptInv /\ (status = "closed" => buf = {} /\ mem = Recoverable)

-----------------------------------------------------------------------------
(* What is on disk is what is in memory and not in the buffer. *)

\* The strengthening of MemoryOnDisk to an equation.
LEMMA OnDisk ==
  ASSUME IInv, CalmInv, status \in Running
  PROVE  Recoverable = mem \ buf /\ buf \subseteq mem
<1>1. Shadowed = {}
  BY DEF CalmInv, Shadowed, InSegments, Replayed, IInv, TypeOK
<1>2. mem \subseteq Recoverable \cup buf /\ Recoverable \cup buf \subseteq mem
  BY <1>1 DEF IInv, MemoryOnDisk, CalmInv
<1>3. ASSUME NEW w \in buf, w \in Recoverable PROVE FALSE
  <2>1. w < w
    BY <1>3 DEF Recoverable, InSegments, IInv, OrderInv
  <2>2. w \in Int
    BY Numbers DEF IInv, TypeOK
  <2> QED BY SMT, <2>1, <2>2
<1> QED BY <1>2, <1>3

\* What is buffered came after what is on disk.
LEMMA BufferLast ==
  ASSUME IInv, CalmInv, status \in Running
  PROVE  \A v \in Recoverable, w \in mem \ Recoverable : v < w
BY OnDisk DEF Recoverable, InSegments, IInv, OrderInv

-----------------------------------------------------------------------------
(* Every step. *)

\* Nothing is torn and no writer error appears unless something fails.
LEMMA CalmStep ==
  ASSUME Calm, IInv, CalmInv, Next
  PROVE  CalmInv'
<1> USE DEF Calm
<1>t. gen \in Gens /\ DOMAIN shadow = Gens
  BY DEF IInv, TypeOK
<1>w. ASSUME NEW ws, WriteOut(ws) PROVE \A g \in Gens : shadow'[g] = {}
  BY <1>w DEF WriteOut, CalmInv
<1>f. ASSUME WriterFlush PROVE CalmInv' \/ failed' # failed
  BY <1>f, <1>w DEF WriterFlush, CalmInv
<1>1. CASE Append
  <2>1. \A g \in Gens : shadow'[g] = {}
    BY <1>1, <1>w DEF Append, CalmInv
  <2>2. partial' = FALSE
    BY <1>1, AppendLogAssumption DEF Append, CalmInv
  <2> QED BY <1>1, <2>1, <2>2 DEF Append, CalmInv
<1>2. CASE AppendFails \/ AppendFlushFails \/ FlushFails \/ RotateFails \/ InstallFails \/ CloseFails
  BY <1>2 DEF AppendFails, AppendFlushFails, FlushFails, RotateFails, InstallFails, CloseFails,
              WriterFlushFails, WriteFails, CalmInv
<1>3. CASE AppendFlush \/ FlushWrite \/ RotateFlush \/ Close
  BY <1>3, <1>f DEF AppendFlush, FlushWrite, RotateFlush, Close, history, CalmInv
<1>4. CASE AppendSync \/ FlushSync
  BY <1>4 DEF AppendSync, FlushSync, CalmInv
<1>5. CASE NextGen \/ LockAndCapture \/ RotateOpen \/ InstallWrite \/ InstallRename \/ TrimLock
  BY <1>5 DEF NextGen, LockAndCapture, RotateOpen, InstallWrite, InstallRename, TrimLock,
              CalmInv, disk, history
<1>6. CASE TrimDone \/ BeginFinal
  BY <1>6 DEF TrimDone, BeginFinal, CalmInv, disk, history
<1>7. ASSUME NEW g \in Gens, Trim(g) PROVE CalmInv'
  BY <1>7, <1>t DEF Trim, CalmInv, history
<1>8. CASE Crash
  BY <1>8 DEF Crash, Gone, CalmInv
<1>9. CASE PowerLoss
  BY <1>9 DEF PowerLoss
<1>10. CASE Boot
  BY <1>10 DEF Boot, CalmInv
<1> QED BY <1>1, <1>2, <1>3, <1>4, <1>5, <1>6, <1>7, <1>8, <1>9, <1>10 DEF Next

\* What a step does to memory, to the buffer and to what is promised, by the step
\* of DurableLog that it is.
Quiet ==
  /\ status \in Running /\ status' \in Running
  /\ mem' = mem /\ buf' \subseteq buf /\ promised' = promised /\ next' = next

Appends ==
  /\ status \in Running /\ status' \in Running
  /\ mem' = mem \cup {next} /\ buf' \subseteq buf \cup {next}
  /\ promised' = promised /\ next' = next + 1

Promises ==
  /\ status \in Running /\ status' \in Running
  /\ mem' = mem /\ buf' = {} /\ next' = next
  /\ promised \subseteq promised' /\ promised' \subseteq mem

Dies ==
  /\ status \in Running /\ status' = "down"
  /\ UNCHANGED <<files, segs, snap, promised, next>>

Closes ==
  /\ status \in Running /\ status' = "closed"
  /\ mem' = mem /\ buf' = {} /\ promised' = promised /\ next' = next
  /\ snap.ids \subseteq Recoverable' /\ Recoverable' \subseteq Recoverable \cup buf /\ snap' = snap

Boots ==
  /\ status \notin Running /\ status' \in Running
  /\ mem' = Recoverable /\ buf' = {} /\ promised' = promised /\ next' = next

\* Every step of AppendLog is of one of these kinds.
LEMMA StepKinds ==
  ASSUME Calm, IInv, LogInv, Next
  PROVE  (Quiet \/ Appends \/ Promises \/ Dies \/ Closes \/ Boots) /\ FlushInv'
<1>s. /\ CalmInv /\ FlushInv /\ StageInv /\ TypeOK /\ PromiseInv
      /\ status \in Running => promised \subseteq mem
  BY DEF LogInv, IInv, KeptInv
<1> USE <1>s
<1>1. CASE Append
  <2>1. Appends
    BY <1>1 DEF Append, CanWrite, Appends, Running
  <2> QED BY <1>1, <2>1 DEF Append, FlushInv
<1>2. CASE AppendFails \/ AppendFlushFails \/ FlushFails \/ RotateFails \/ InstallFails \/ CloseFails
  BY <1>2 DEF AppendFails, AppendFlushFails, FlushFails, RotateFails, InstallFails, CloseFails,
              WriterFlushFails, WriteFails, CalmInv, Calm
<1>3. CASE AppendFlush \/ FlushWrite \/ RotateFlush
  <2>1. status \in Running /\ status' = status
    BY <1>3 DEF AppendFlush, FlushWrite, RotateFlush, StageInv, Running
  <2> QED BY <1>3, <2>1 DEF AppendFlush, FlushWrite, RotateFlush, WriterFlush, Quiet, FlushInv, history
<1>4. CASE Close
  <2>1. /\ \A g \in Gens : segs'[g] \subseteq segs[g] \cup buf
        /\ files' = files /\ snap' = snap
    BY <1>4 DEF Close, WriterFlush, WriteOut, TypeOK
  <2>2. files \subseteq Gens
    BY DEF TypeOK
  <2>3. snap.ids \subseteq Recoverable' /\ Recoverable' \subseteq Recoverable \cup buf
    BY <2>1, <2>2 DEF Recoverable, InSegments, Replayed
  <2> QED BY <1>4, <2>1, <2>3 DEF Close, WriterFlush, Closes, FlushInv, Running, history
<1>5. CASE AppendSync
  <2>1. status = "up" /\ buf = {}
    BY <1>5 DEF AppendSync, StageInv, FlushInv
  <2>2. next - 1 \in mem
    BY <1>5 DEF AppendSync, PromiseInv, FlushInv
  <2> QED
    BY <1>5, <2>1, <2>2 DEF AppendSync, Promises, FlushInv, Running
<1>6. CASE FlushSync
  <2>1. status \in {"up", "finalFlush"} /\ buf = {} /\ status' \in Running
    BY <1>6 DEF FlushSync, StageInv, FlushInv, Running
  <2>2. promised \subseteq mem
    BY <2>1 DEF Running
  <2> QED BY <1>6, <2>1, <2>2 DEF FlushSync, Promises, FlushInv, Running
<1>7. CASE NextGen \/ LockAndCapture \/ RotateOpen \/ InstallWrite \/ InstallRename \/ TrimLock
  <2>1. status \in Running /\ status' = status
    BY <1>7 DEF NextGen, LockAndCapture, RotateOpen, InstallWrite, InstallRename, TrimLock,
                StageInv, Running
  <2> QED BY <1>7, <2>1 DEF NextGen, LockAndCapture, RotateOpen, InstallWrite, InstallRename,
                            TrimLock, Quiet, FlushInv, history
<1>8. CASE TrimDone \/ BeginFinal
  <2>1. status \in Running /\ status' \in Running
    BY <1>8 DEF TrimDone, BeginFinal, StageInv, Running
  <2> QED BY <1>8, <2>1 DEF TrimDone, BeginFinal, Quiet, FlushInv, history
<1>9. ASSUME NEW g \in Gens, Trim(g) PROVE Quiet /\ FlushInv'
  <2>1. status \in Running /\ status' = status
    BY <1>9 DEF Trim, StageInv, Running
  <2> QED BY <1>9, <2>1 DEF Trim, Quiet, FlushInv, history
<1>10. CASE Crash
  BY <1>10 DEF Crash, Gone, Dies, FlushInv
<1>11. CASE PowerLoss
  BY <1>11 DEF PowerLoss, Calm
<1>12. CASE Boot
  <2>1. Shadowed = {}
    BY DEF CalmInv, Shadowed, InSegments, Replayed, TypeOK
  <2> QED BY <1>12, <2>1 DEF Boot, Boots, FlushInv, Running
<1> QED BY <1>1, <1>2, <1>3, <1>4, <1>5, <1>6, <1>7, <1>8, <1>9, <1>10, <1>11, <1>12 DEF Next

\* Every step preserves LogInv, given the invariant of AppendLogProofs.
LEMMA LogStep ==
  ASSUME Calm, IInv, LogInv, IInv', Next
  PROVE  LogInv'
<1>c. CalmInv'
  BY CalmStep DEF LogInv
<1>f. FlushInv' /\ (Quiet \/ Appends \/ Promises \/ Dies \/ Closes \/ Boots)
  BY StepKinds
<1>k. KeptInv /\ (status \in Running => promised \subseteq mem \ buf)
  BY DEF LogInv, KeptInv
<1>n. status \in Running => next \notin mem
  BY SMT, Numbers DEF IInv, RunInv, TypeOK
<1>d. status \in Running => Recoverable = mem \ buf
  BY OnDisk DEF LogInv
<1>1. CASE Quiet \/ Appends \/ Promises
  <2>1. status' \in Running /\ status' # "closed" /\ promised' \subseteq mem' \ buf'
    BY <1>1, <1>k, <1>n DEF Quiet, Appends, Promises, Running
  <2> QED BY <1>c, <1>f, <2>1 DEF LogInv, KeptInv
<1>2. CASE Dies
  <2>1. Recoverable' = Recoverable /\ status' \notin Running /\ status' # "closed"
    BY <1>2 DEF Dies, Recoverable, InSegments, Replayed, Running
  <2> QED BY <1>2, <1>c, <1>f, <1>k, <1>d, <2>1 DEF Dies, LogInv, KeptInv
<1>3. CASE Closes
  <2>1. mem \subseteq snap.ids
    BY <1>3 DEF Closes, IInv, CaptureInv
  <2>2. buf \subseteq mem
    BY <1>3, OnDisk DEF LogInv, Closes
  <2>3. Recoverable' = mem
    BY <1>3, <1>d, <2>1, <2>2 DEF Closes
  <2> QED BY <1>3, <1>c, <1>f, <1>k, <2>3 DEF Closes, LogInv, KeptInv, Running
<1>4. CASE Boots
  <2>1. promised' \subseteq mem' \ buf' /\ status' \in Running /\ status' # "closed"
    BY <1>4, <1>k DEF Boots, KeptInv, Running
  <2> QED BY <1>c, <1>f, <2>1 DEF LogInv, KeptInv
<1> QED BY <1>f, <1>1, <1>2, <1>3, <1>4

-----------------------------------------------------------------------------
(* The refinement. *)

\* A step of AppendLog is a step of DurableLog, or changes nothing it sees.
LEMMA StepSimulation ==
  ASSUME Calm, IInv, LogInv, IInv', LogInv', Next
  PROVE  [DL!Next]_(DL!vars)
<1> DEFINE state == IF status \in Running THEN mem ELSE Recoverable
<1>k. Quiet \/ Appends \/ Promises \/ Dies \/ Closes \/ Boots
  BY StepKinds
<1>1. CASE Quiet
  BY <1>1 DEF Quiet, DL!vars
<1>2. CASE Appends
  BY <1>2 DEF Appends, DL!Next, DL!Write
<1>3. CASE Promises
  BY <1>3 DEF Promises, DL!Next, DL!Promise
<1>4. CASE Dies
  <2>1. Recoverable' = Recoverable /\ status' \notin Running
    BY <1>4 DEF Dies, Recoverable, InSegments, Replayed, Running
  <2>2. state = mem /\ state' = Recoverable
    BY <1>4, <2>1 DEF Dies
  <2>3. Recoverable \subseteq mem /\ \A v \in Recoverable, w \in mem \ Recoverable : v < w
    BY <1>4, OnDisk, BufferLast DEF Dies, LogInv
  <2>4. promised \subseteq Recoverable
    BY <1>4, OnDisk DEF Dies, LogInv, KeptInv
  <2> QED BY <1>4, <2>1, <2>2, <2>3, <2>4 DEF Dies, DL!Next, DL!Crash
<1>5. CASE Closes
  <2>1. Recoverable' = mem /\ status' \notin Running
    BY <1>5 DEF Closes, LogInv, Running
  <2> QED BY <1>5, <2>1 DEF Closes, DL!Next, DL!Stop
<1>6. CASE Boots
  BY <1>6 DEF Boots, DL!Next, DL!Boot
<1> QED BY <1>k, <1>1, <1>2, <1>3, <1>4, <1>5, <1>6

\* LogInv holds in every state as long as files and power obey.
THEOREM LogInvariance == Calm => (Spec => []LogInv)
<1> SUFFICES ASSUME Calm PROVE Spec => []LogInv
  OBVIOUS
<1>1. Init => LogInv
  BY DEF Init, LogInv, CalmInv, FlushInv, KeptInv, Running
<1>2. LogInv /\ IInv /\ IInv' /\ [Next]_vars => LogInv'
  <2>1. CASE Next
    BY <2>1, LogStep
  <2>2. CASE UNCHANGED vars
    BY <2>2 DEF vars, process, disk, history, LogInv, CalmInv, FlushInv, KeptInv, Recoverable,
                InSegments, Replayed
  <2> QED BY <2>1, <2>2
<1> QED BY <1>1, <1>2, Invariance, PTL DEF Spec

\* What a Flush, or under "always" an Append, has declared durable is served by
\* every later incarnation of the server, under every policy.
THEOREM PromisedServedHolds == Calm => (Spec => []PromisedServed)
<1> SUFFICES ASSUME Calm PROVE Spec => []PromisedServed
  OBVIOUS
<1>1. LogInv => PromisedServed
  BY DEF LogInv, KeptInv, PromisedServed
<1>2. Spec => []LogInv
  BY LogInvariance
<1> QED BY <1>1, <1>2, PTL

\* As long as files and power obey, the whole of persistence (buffer, segments,
\* rotation, snapshots, removal of covered segments, Recover) is one log that a
\* crash cuts at its end, after everything that was promised.
THEOREM Refinement == Calm => (Spec => ImplementsDurableLog)
<1> SUFFICES ASSUME Calm PROVE Spec => ImplementsDurableLog
  OBVIOUS
<1>1. Init => DL!Init
  BY DEF Init, DL!Init, Running, Recoverable, InSegments, Replayed
<1>2. LogInv /\ LogInv' /\ IInv /\ IInv' /\ [Next]_vars => [DL!Next]_(DL!vars)
  <2>1. CASE Next
    BY <2>1, StepSimulation
  <2>2. CASE UNCHANGED vars
    BY <2>2 DEF vars, process, disk, history, DL!vars, Recoverable, InSegments, Replayed
  <2> QED BY <2>1, <2>2
<1>3. Spec => []LogInv
  BY LogInvariance
<1> QED BY <1>1, <1>2, <1>3, Invariance, PTL DEF Spec, ImplementsDurableLog, DL!Spec
=============================================================================
