------------------------------ MODULE Database ------------------------------
(***************************************************************************)
(* One shard as its clients see it: commands execute one at a time (module *)
(* Execute shows why that is sound), the clock advances, and the active    *)
(* expiry loop visits the shard with a reading of the clock that it took   *)
(* when its cycle began.                                                   *)
(***************************************************************************)
EXTENDS Commands

CONSTANTS Cmds,        \* the commands that clients send
          Keys,        \* the keys they name
          Limit,       \* SamplePerShard: keys examined in a cycle
          StartTime,   \* reading of the clock at the beginning
          MaxTime,     \* bound: last reading of the clock
          MaxLen       \* bound: length of a list

ASSUME DatabaseAssumption ==
  /\ \A c \in Cmds : Resolved(c) /\ c.keys \in Seq(Keys)
  /\ Limit \in Nat /\ MaxLen \in Nat /\ StartTime \in Nat /\ MaxTime \in Nat
  /\ Epoch < StartTime /\ StartTime <= MaxTime

VARIABLES ks,     \* the keyspace
          now,    \* the clock
          cycle   \* the expiry cycle's reading of the clock; ZeroTime outside

vars == <<ks, now, cycle>>

Init ==
  /\ ks = EmptyKeyspace
  /\ now = StartTime
  /\ cycle = ZeroTime

ShortLists(entries) ==
  \A k \in DOMAIN entries :
    entries[k].value.kind = "list" => Len(entries[k].value.list) <= MaxLen

Command(c) ==
  /\ ks' = Dispatch(c, ks, now).ks
  /\ ShortLists(ks'.entries)
  /\ UNCHANGED <<now, cycle>>

Tick ==
  /\ now < MaxTime
  /\ now' = now + 1
  /\ UNCHANGED <<ks, cycle>>

\* Mutant: the cycle runs ahead of the clock.
CycleBeginAhead ==
  /\ cycle = ZeroTime /\ Limit > 0
  /\ cycle' = now + 1
  /\ UNCHANGED <<ks, now>>

\* Runner.cycle reads the clock once, for all the shards of all databases; a
\* limit that is not positive disables the cycle.
CycleBegin ==
  /\ cycle = ZeroTime /\ Limit > 0
  /\ cycle' = now
  /\ UNCHANGED <<ks, now>>

\* ExpireCycle reaches this shard and locks it.
CycleVisit(S) ==
  /\ cycle # ZeroTime
  /\ S \in Samples(ks, Limit)
  /\ ks' = SampleExpired(ks, S, cycle)
  /\ cycle' = ZeroTime
  /\ UNCHANGED now

Background ==
  \/ Tick
  \/ CycleBegin
  \/ \E S \in SUBSET Keys : CycleVisit(S)

Next == (\E c \in Cmds : Command(c)) \/ Background

Spec == Init /\ [][Next]_vars

\* The clock runs and the expiry ticker fires.  Go starts ranging over a map at
\* a random place, so no indexed key is passed over for ever.
Fairness ==
  /\ WF_vars(Tick) /\ WF_vars(CycleBegin)
  /\ \A k \in Keys : SF_vars(\E S \in SUBSET Keys : k \in S /\ CycleVisit(S))

FairSpec == Spec /\ Fairness

-----------------------------------------------------------------------------
(* Correctness. *)

\* Everything stored has a value of a known kind and an integer deadline.
TypeOK ==
  /\ DOMAIN ks.entries \subseteq Keys /\ ks.withTTL \subseteq Keys
  /\ \A k \in DOMAIN ks.entries :
       /\ ks.entries[k].value.kind \in {"string", "list", "set", "hash", "zset"}
       /\ ks.entries[k].expireAt \in Int
  /\ now \in StartTime .. MaxTime /\ cycle \in {ZeroTime} \cup (StartTime .. now)

\* The TTL index (keyspace.go:24-26): every key with a deadline is indexed, so
\* that active expiry can find it, and only stored keys are.
Indexed ==
  /\ ks.withTTL \subseteq DOMAIN ks.entries
  /\ \A k \in DOMAIN ks.entries : HasExpiry(ks.entries[k]) => k \in ks.withTTL

\* A command that replies with an error, and one that the table calls read-only,
\* changes nothing: neither is written to the append log, and the second runs
\* under a shared lock.
NoSilentChange ==
  \A c \in Cmds :
    LET r == Dispatch(c, ks, now) IN r.error \/ ReadOnly(c) => r.ks = ks

\* No collection stays behind empty: the pops and removals delete the key.
NoEmptyCollection ==
  \A k \in DOMAIN ks.entries : ~Empty(ks.entries[k].value)

\* A stored integer is one that int64 holds: INCR and DECR refuse to wrap.
IntegersFit ==
  \A k \in DOMAIN ks.entries :
    LET v == ks.entries[k].value
    IN  v.kind = "string" => v.str = Text \/ v.str \in MinInt .. MaxInt

\* The order of SINTER's lookups and its choice of the smallest set do not show:
\* when every key holds a live set, the reply is their intersection.
SInterIsIntersection ==
  \A c \in Cmds :
    /\ c.op = "sinter"
    /\ \A k \in Elems(c.keys) : Live(ks, k, now) /\ ks.entries[k].value.kind = "set"
    => Dispatch(c, ks, now).is =
         <<{m \in UNION {ks.entries[k].value.set : k \in Elems(c.keys)} :
              \A k \in Elems(c.keys) : m \in ks.entries[k].value.set}>>

\* Active expiry removes no key that a client could still see, although it may
\* use an old reading of the clock and the key may have been rewritten since.
EvictsOnlyExpired ==
  [][\A k \in Keys : (\E S \in SUBSET Keys : CycleVisit(S)) =>
       (Live(ks', k, now) <=> Live(ks, k, now))]_vars

\* A key becomes visible only through a write command that names it: the clock,
\* active expiry and every other command leave a dead key dead.
NoRevival ==
  [][\A k \in Keys : ~Live(ks, k, now) /\ Live(ks', k, now') =>
       \E c \in Cmds : Command(c) /\ ~ReadOnly(c) /\ k \in Elems(c.keys)]_vars

\* A key that has expired is reclaimed, or written again.
Reclaimed ==
  \A k \in Keys :
    (k \in DOMAIN ks.entries /\ Expired(ks.entries[k], now))
      ~> ~(k \in DOMAIN ks.entries /\ Expired(ks.entries[k], now))
=============================================================================
