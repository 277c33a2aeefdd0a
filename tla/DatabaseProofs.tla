--------------------------- MODULE DatabaseProofs ---------------------------
(***************************************************************************)
(* Proofs about Database, for any keys, commands and sample limit: types,  *)
(* the completeness of the TTL index, what is stored, and that active      *)
(* expiry is invisible to clients.                                         *)
(***************************************************************************)
EXTENDS Database, CommandsProofs

USE Zenon, SMT

\* The inductive invariant: a sound keyspace, and a cycle that never reads ahead
\* of the clock.
IInv ==
  /\ Sound(ks) /\ DOMAIN ks.entries \subseteq Keys
  /\ now \in StartTime .. MaxTime
  /\ cycle \in {ZeroTime} \cup (StartTime .. now)

-----------------------------------------------------------------------------
(* The theorems. *)

\* The empty database satisfies the invariant.
LEMMA InitInv == Init => IInv
BY DatabaseAssumption DEF Init, IInv, Sound, EmptyKeyspace, ZeroTime

\* Every command, tick and expiry step preserves it.
LEMMA StepInv == IInv /\ [Next]_vars => IInv'
<1> SUFFICES ASSUME IInv, [Next]_vars PROVE IInv'
  OBVIOUS
<1> USE DatabaseAssumption
<1>1. ASSUME NEW c \in Cmds, Command(c) PROVE IInv'
  BY <1>1, DispatchSound, DispatchWithin DEF Command, IInv
<1>2. CASE Tick
  BY <1>2 DEF Tick, IInv, ZeroTime
<1>3. CASE CycleBegin
  BY <1>3 DEF CycleBegin, IInv
<1>4. ASSUME NEW S \in SUBSET Keys, CycleVisit(S) PROVE IInv'
  <2>1. Sound(ks)' /\ now' = now /\ cycle' = ZeroTime
    BY <1>4, SampleSound DEF CycleVisit, IInv
  <2>2. DOMAIN ks'.entries \subseteq DOMAIN ks.entries
    BY <1>4 DEF CycleVisit, SampleExpired, Without
  <2> QED BY <2>1, <2>2 DEF IInv
<1>5. CASE UNCHANGED vars
  BY <1>5 DEF vars, IInv
<1> QED BY <1>1, <1>2, <1>3, <1>4, <1>5 DEF Next, Background

\* The inductive invariant holds in every state of every execution.
THEOREM Invariance == Spec => []IInv
BY InitInv, StepInv, PTL DEF Spec

\* Entries have a value of a known kind and an integer deadline, and the expiry
\* cycle's reading of the clock is never ahead of it.
THEOREM TypeCorrect == Spec => []TypeOK
<1>1. IInv => TypeOK
  BY DEF IInv, Sound, TypeOK, ValueKinds
<1> QED BY <1>1, Invariance, PTL

\* The TTL index of keyspace.Keyspace is complete and holds stored keys only,
\* after any sequence of commands and expiry cycles.
THEOREM IndexComplete == Spec => []Indexed
<1>1. IInv => Indexed
  BY DEF IInv, Sound, Indexed
<1> QED BY <1>1, Invariance, PTL

\* Commands that fail and commands that the table calls read-only leave the
\* keyspace as it is.
THEOREM NoSilentChangeHolds == Spec => []NoSilentChange
<1>1. NoSilentChange
  BY ErrorsUnchanged, ReadsUnchanged DEF NoSilentChange
<1> QED BY <1>1, PTL

\* SampleExpired, with a clock reading that may be old, leaves visible exactly
\* the keys that were visible.
THEOREM ExpiryInvisible == Spec => EvictsOnlyExpired
<1>1. IInv /\ [Next]_vars =>
        [\A k \in Keys : (\E S \in SUBSET Keys : CycleVisit(S)) =>
           (Live(ks', k, now) <=> Live(ks, k, now))]_vars
  <2> SUFFICES ASSUME IInv, NEW k \in Keys, NEW S \in SUBSET Keys, CycleVisit(S)
               PROVE  Live(ks', k, now) <=> Live(ks, k, now)
    OBVIOUS
  <2>1. ks'.entries = Without(ks.entries, Evicted(ks, S, cycle))
    BY DEF CycleVisit, SampleExpired
  <2>2. ASSUME k \in Evicted(ks, S, cycle) PROVE ~Live(ks, k, now)
    <3>1. ks.entries[k].expireAt \in Int /\ cycle <= now /\ cycle \in Int /\ now \in Int
      BY <2>2, DatabaseAssumption DEF IInv, Sound, Evicted, CycleVisit
    <3> QED BY <2>2, <3>1 DEF Evicted, Expired, Live
  <2> QED BY <2>1, <2>2 DEF Without, Live
<1> QED BY <1>1, Invariance, PTL DEF Spec, EvictsOnlyExpired

\* A key that is absent or expired becomes visible only through a write command
\* that names it.
THEOREM NoRevivalHolds == Spec => NoRevival
<1>1. IInv /\ [Next]_vars =>
        [\A k \in Keys : ~Live(ks, k, now) /\ Live(ks', k, now') =>
           \E c \in Cmds : Command(c) /\ ~ReadOnly(c) /\ k \in Elems(c.keys)]_vars
  <2> SUFFICES ASSUME IInv, Next, NEW k \in Keys, ~Live(ks, k, now), Live(ks', k, now')
               PROVE  \E c \in Cmds : Command(c) /\ ~ReadOnly(c) /\ k \in Elems(c.keys)
    OBVIOUS
  <2>1. ASSUME NEW c \in Cmds, Command(c) PROVE ~ReadOnly(c) /\ k \in Elems(c.keys)
    <3>1. ks' = Dispatch(c, ks, now).ks /\ now' = now
      BY <2>1 DEF Command
    <3>2. ~ReadOnly(c)
      BY <3>1, ReadsUnchanged
    <3>3. k \in Elems(c.keys)
      <4>1. Frame(ks, ks', Elems(c.keys))
        BY <3>1, DatabaseAssumption, DispatchFrame
      <4> QED BY <3>1, <4>1 DEF Frame, Live
    <3> QED BY <3>2, <3>3
  <2>2. ASSUME Tick PROVE FALSE
    <3>1. ks' = ks /\ now \in Int /\ now' = now + 1
      BY <2>2, DatabaseAssumption DEF Tick, IInv
    <3>2. k \in DOMAIN ks.entries /\ ks.entries[k].expireAt \in Int
      BY <3>1 DEF Live, IInv, Sound
    <3> QED BY <3>1, <3>2 DEF Live, Expired
  <2>3. ASSUME CycleBegin PROVE FALSE
    BY <2>3 DEF CycleBegin
  <2>4. ASSUME NEW S \in SUBSET Keys, CycleVisit(S) PROVE FALSE
    BY <2>4 DEF CycleVisit, SampleExpired, Without, Live
  <2> QED BY <2>1, <2>2, <2>3, <2>4 DEF Next, Background
<1> QED BY <1>1, Invariance, PTL DEF Spec, NoRevival

\* Every value that is ever stored, visible or expired, may be.
THEOREM ContentsFit == Spec => []AllFit(ks)
<1>1. Init => AllFit(ks)
  BY DEF Init, EmptyKeyspace, AllFit
<1>2. AllFit(ks) /\ [Next]_vars => AllFit(ks)'
  <2> SUFFICES ASSUME AllFit(ks), [Next]_vars PROVE AllFit(ks')
    BY DEF AllFit
  <2>1. ASSUME NEW c \in Cmds, Command(c) PROVE AllFit(ks')
    BY <2>1, DatabaseAssumption, DispatchFit DEF Command
  <2>2. ASSUME NEW S \in SUBSET Keys, CycleVisit(S) PROVE AllFit(ks')
    BY <2>2, RemovesFit DEF CycleVisit
  <2>3. CASE UNCHANGED ks
    BY <2>3
  <2> QED BY <2>1, <2>2, <2>3 DEF Next, Background, Tick, CycleBegin, vars
<1> QED BY <1>1, <1>2, PTL DEF Spec

\* Pops and removals delete the key with the last element, and nothing stores an
\* empty collection.
THEOREM NoEmptyCollectionHolds == Spec => []NoEmptyCollection
<1>1. AllFit(ks) => NoEmptyCollection
  BY DEF AllFit, Fit, NoEmptyCollection
<1> QED BY <1>1, ContentsFit, PTL

\* INCR and DECR never store a number that wraps around.
THEOREM IntegersFitHolds == Spec => []IntegersFit
<1>1. AllFit(ks) => IntegersFit
  BY DEF AllFit, Fit, IntegersFit
<1> QED BY <1>1, ContentsFit, PTL

\* SINTER replies with the intersection, whichever set it starts from.
THEOREM SInterIsIntersectionHolds == Spec => []SInterIsIntersection
<1>1. AllFit(ks) => SInterIsIntersection
  <2> SUFFICES ASSUME AllFit(ks), NEW c \in Cmds, c.op = "sinter",
                      \A k \in Elems(c.keys) : Live(ks, k, now) /\ ks.entries[k].value.kind = "set"
               PROVE  Dispatch(c, ks, now).is = <<Shared(ks, c.keys)>>
    BY DEF SInterIsIntersection, Shared
  <2>1. c.keys \in Seq(Keys) /\ c.keys # <<>>
    BY DatabaseAssumption DEF Resolved
  <2>2. Dispatch(c, ks, now) = cmdSInter(ks, now, c.keys)
    BY DEF Dispatch
  <2> QED BY <2>1, <2>2, SInterExact
<1> QED BY <1>1, ContentsFit, PTL
=============================================================================
