------------------------------ MODULE MCReplay ------------------------------
(* Instances of Replay.  In one behaviour either one session sends all      *)
(* commands about a string key and a set, or about a key with a deadline    *)
(* centuries away, or two sessions select databases and write a counter.    *)
EXTENDS Replay

CONSTANTS ka, kb, ca, cb,
          Menus  \* which of the menus below the clients choose from

MCMinInt == -1

Cmd(op, keys, xs) == [op |-> op, keys |-> keys, xs |-> xs]

\* All that a log can hold about a string key and a set.
KeyCmds ==
  {Cmd("set", <<ka>>, <<0>>), Cmd("incr", <<ka>>, <<>>), Cmd("persist", <<ka>>, <<>>),
   Cmd("expire", <<ka>>, <<1>>), Cmd("pexpireat", <<ka>>, <<MilliOf(MaxTime)>>),
   Cmd("expire", <<kb>>, <<2>>), Cmd("sadd", <<kb>>, <<1>>), Cmd("srem", <<kb>>, <<1>>),
   Cmd("del", <<ka, kb>>, <<>>), Cmd("flushdb", <<>>, <<>>)}

\* The last SELECT is out of range.
SessionCmds ==
  {Cmd("select", <<>>, <<i>>) : i \in 0 .. Databases}
  \cup {Cmd("plain", <<>>, <<>>), Cmd("incr", <<ka>>, <<>>), Cmd("flushdb", <<>>, <<>>)}

\* A key whose deadline is moved before it is reached.
ExtendCmds == {Cmd("set", <<ka>>, <<0>>), Cmd("expire", <<ka>>, <<1>>), Cmd("expire", <<ka>>, <<2>>)}

\* Deadlines at the last time that a snapshot can hold and at the first that it
\* cannot, and the ways to get rid of them.
FarCmds ==
  {Cmd("set", <<ka>>, <<0>>), Cmd("incr", <<ka>>, <<>>), Cmd("persist", <<ka>>, <<>>),
   Cmd("pexpireat", <<ka>>, <<MilliOf(Epoch + MaxDuration - 1)>>),
   Cmd("pexpireat", <<ka>>, <<MilliOf(Epoch + MaxDuration)>>), Cmd("del", <<ka>>, <<>>)}

MCCmds == KeyCmds \cup SessionCmds \cup ExtendCmds \cup FarCmds

VARIABLE menu  \* which commands the clients send

Menu ==
  CASE menu = "keys" -> KeyCmds [] menu = "extend" -> ExtendCmds
    [] menu = "sessions" -> SessionCmds [] menu = "far" -> FarCmds

Clients == IF menu = "sessions" THEN Conns ELSE {ca}

MCInit == Init /\ menu \in Menus
MCNext == UNCHANGED menu /\ ((\E conn \in Clients, c \in Menu : Command(conn, c)) \/ Background)
MCSpec == MCInit /\ [][MCNext]_<<vars, menu>>
=============================================================================
