----------------------------- MODULE MCDatabase -----------------------------
(* An instance of Database.  In one behaviour the clients send either the   *)
(* string and expiry commands, on two keys, or the collection commands, on  *)
(* one or two keys.                                                         *)
EXTENDS Database

CONSTANTS ka, kb

\* The least integer; the greatest is 1.
MCMinInt == -1

Cmd(op, keys, xs) == [op |-> op, keys |-> keys, xs |-> xs]

\* A deadline in the past, at the zero time and in the future, and an EXPIRE so
\* long that it wraps around.
StringCmds ==
  {Cmd(op, <<k>>, <<>>) : op \in {"get", "incr", "decr", "ttl", "persist", "type"}, k \in {ka, kb}}
  \cup {Cmd("set", <<k>>, <<x>>) : k \in {ka, kb}, x \in {0, Text}}
  \cup {Cmd("expire", <<ka>>, <<x>>) : x \in {1, 2, Text}}
  \cup {Cmd("expire", <<kb>>, <<-1>>)}
  \cup {Cmd("pexpireat", <<ka>>, <<MilliOf(ZeroTime)>>), Cmd("pexpireat", <<kb>>, <<MilliOf(MaxTime)>>)}
  \cup {Cmd("del", <<ka, kb, ka>>, <<>>), Cmd("exists", <<ka, kb, ka>>, <<>>)}
  \cup {Cmd("flushdb", <<>>, <<>>)}

\* No count, one of nothing, one that is granted and one that is not, and what is
\* refused before the key is looked up.
PopArgs == {<<>>, <<0>>, <<2>>, <<3>>, <<-1>>, <<Text>>, <<1, 1>>}

ListCmds ==
  {Cmd(op, <<ka>>, xs) : op \in {"lpush", "rpush"}, xs \in {<<1>>, <<1, 2>>}}
  \cup {Cmd(op, <<ka>>, xs) : op \in {"lpop", "rpop"}, xs \in PopArgs}
  \cup {Cmd("llen", <<ka>>, <<>>), Cmd("lrange", <<ka>>, <<-2, 0>>)}

SetCmds ==
  {Cmd("sadd", <<k>>, <<1, 2>>) : k \in {ka, kb}}
  \cup {Cmd("sadd", <<ka>>, <<3>>)}
  \cup {Cmd("srem", <<k>>, <<x>>) : k \in {ka, kb}, x \in {1, 2, 3}}
  \cup {Cmd("sinter", <<ka, kb>>, <<>>), Cmd("sinter", <<kb, kb, ka>>, <<>>),
        Cmd("smembers", <<ka>>, <<>>)}

HashCmds ==
  {Cmd(op, <<ka>>, <<f>>) : op \in {"hget", "hdel"}, f \in {1, 2}}
  \cup {Cmd("hset", <<ka>>, xs) : xs \in {<<1, 1>>, <<1, 1, 2, 1>>, <<2, 1, 2, 2>>, <<1, 1, 2>>}}
  \cup {Cmd("hgetall", <<ka>>, <<>>)}

ZSetCmds ==
  {Cmd("zscore", <<kb>>, <<1>>), Cmd("zrange", <<kb>>, <<0, -1>>), Cmd("zrange", <<kb>>, <<0, Text>>)}
  \cup {Cmd("zadd", <<kb>>, xs) : xs \in {<<1, 1>>, <<1, 2, 2, 1>>, <<1, 1, 2, Text>>}}

CollectionCmds ==
  ListCmds \cup SetCmds \cup HashCmds \cup ZSetCmds
  \cup {Cmd("set", <<ka>>, <<0>>), Cmd("expire", <<ka>>, <<1>>), Cmd("del", <<ka>>, <<>>)}

MCCmds == StringCmds \cup CollectionCmds

VARIABLE menu  \* which commands the clients send

Menu == IF menu = "strings" THEN StringCmds ELSE CollectionCmds

MCInit == Init /\ menu \in {"strings", "collections"}
MCNext == UNCHANGED menu /\ ((\E c \in Menu : Command(c)) \/ Background)
MCSpec == MCInit /\ [][MCNext]_<<vars, menu>> /\ Fairness
=============================================================================
