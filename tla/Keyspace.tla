------------------------------ MODULE Keyspace ------------------------------
(***************************************************************************)
(* keyspace.Keyspace: the entries of one shard and the index of the keys   *)
(* that carry a deadline.  A keyspace is a record ks of two maps:          *)
(*   ks.entries   key -> [value, expireAt]                                 *)
(*   ks.withTTL   the set of indexed keys                                  *)
(* Each method is an operator that returns the new keyspace; the clock's   *)
(* reading is the argument now.                                            *)
(***************************************************************************)
EXTENDS Integers, FiniteSets

\* The zero time.Time, which stands for "no deadline".
ZeroTime == 0

Entry(v, at) == [value |-> v, expireAt |-> at]

HasExpiry(e) == e.expireAt # ZeroTime

\* Mutant: the deadline matters only at its very instant.
ExpiredAtInstant(e, now) == HasExpiry(e) /\ e.expireAt = now

\* A deadline is reached at the very instant it names.
Expired(e, now) == HasExpiry(e) /\ e.expireAt <= now

EmptyKeyspace == [entries |-> [k \in {} |-> Entry(0, ZeroTime)], withTTL |-> {}]

\* peek, and the read methods built on it: an expired entry is hidden, not
\* removed.
Live(ks, k, now) == k \in DOMAIN ks.entries /\ ~Expired(ks.entries[k], now)

\* The Go map assignment m[k] = e and deletion delete(m, k).
Assign(m, k, e) == [x \in DOMAIN m \cup {k} |-> IF x = k THEN e ELSE m[x]]
Without(m, ks)  == [x \in DOMAIN m \ ks |-> m[x]]

Set(ks, k, v) ==
  [entries |-> Assign(ks.entries, k, Entry(v, ZeroTime)),
   withTTL |-> ks.withTTL \ {k}]

SetEntry(ks, k, e) ==
  [entries |-> Assign(ks.entries, k, e),
   withTTL |-> IF HasExpiry(e) THEN ks.withTTL \cup {k} ELSE ks.withTTL \ {k}]

\* A collection is mutated in place, through the pointer its entry holds.
Update(ks, k, v) ==
  [entries |-> Assign(ks.entries, k, Entry(v, ks.entries[k].expireAt)),
   withTTL |-> ks.withTTL]

\* Mutant: SetExpire does not index the key.
SetExpireUnindexed(ks, k, at) ==
  [entries |-> Assign(ks.entries, k, Entry(ks.entries[k].value, at)),
   withTTL |-> ks.withTTL]

\* SetExpire on a live key: the key is indexed whatever the deadline is.
SetExpire(ks, k, at) ==
  [entries |-> Assign(ks.entries, k, Entry(ks.entries[k].value, at)),
   withTTL |-> ks.withTTL \cup {k}]

\* Persist on a live key that has a deadline.
Persist(ks, k) == Set(ks, k, ks.entries[k].value)

\* Mutant: Delete leaves the key in the index.
DeleteKeepsIndex(ks, keys) ==
  [entries |-> Without(ks.entries, keys), withTTL |-> ks.withTTL]

\* Delete and Take, for every key of a command.
Delete(ks, keys) ==
  [entries |-> Without(ks.entries, keys), withTTL |-> ks.withTTL \ keys]

Flush(ks) == EmptyKeyspace

\* Mutant: sampling stops one key short of the limit.
SamplesShort(ks, limit) == {S \in SUBSET ks.withTTL : Cardinality(S) = limit - 1}

\* The keys that one SampleExpired call may examine: Go ranges over the index
\* in no particular order and stops after limit keys.
Samples(ks, limit) ==
  {S \in SUBSET ks.withTTL :
     \/ S = ks.withTTL /\ Cardinality(S) <= limit
     \/ Cardinality(S) = limit}

\* Mutant: an indexed key is evicted without a look at its deadline.
EvictedAll(ks, S, now) == S \cap DOMAIN ks.entries

\* SampleExpired on the examined keys: stale index entries are dropped, and
\* keys past their deadline evicted.
Evicted(ks, S, now) == {k \in S : k \in DOMAIN ks.entries /\ Expired(ks.entries[k], now)}

SampleExpired(ks, S, now) ==
  LET stale == {k \in S : k \notin DOMAIN ks.entries \/ ~HasExpiry(ks.entries[k])}
      dead  == Evicted(ks, S, now)
  IN  [entries |-> Without(ks.entries, dead), withTTL |-> ks.withTTL \ (stale \cup dead)]
=============================================================================
