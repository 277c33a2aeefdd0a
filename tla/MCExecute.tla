------------------------------ MODULE MCExecute ------------------------------
(* An instance of Execute: two shards, with a key on each. *)
EXTENDS Execute, TLC

CONSTANTS a, b

\* a and b live on different shards of a database.
MCRoute == (a :> 0) @@ (b :> 1)

\* A writer of the later shard, and a reader of both.
MCRequests ==
  {[db |-> 0, keys |-> {b},    kind |-> "write"],
   [db |-> 0, keys |-> {a, b}, kind |-> "read"]}
=============================================================================
