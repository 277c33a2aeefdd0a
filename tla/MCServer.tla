------------------------------ MODULE MCServer ------------------------------
EXTENDS Server, TLC

CONSTANTS Conn1, Conn2

Cmd(form, args) == [form |-> form, args |-> args]
Raw(tokens)     == [form |-> "raw", tokens |-> tokens]

Echo  == Cmd("bulk", <<<<"PING">>, <<"crlf">>>>)
Typed == Cmd("inline", <<<<"PING">>>>)
Blank == Raw(<<"crlf">>)
Null  == Raw(<<"*", "0", "crlf">>)
Wrong == Raw(<<"*", "1", "crlf", "PING">>)
Half  == Raw(<<"*", "1", "crlf", "$">>)

Two(p, q) == (Conn1 :> p) @@ (Conn2 :> q)

\* Pipelines; what holds no command; and what is not, or not yet, a request.
MCPrograms ==
  {Two(<<Echo, Typed>>, <<>>), Two(<<Typed, Blank, Typed>>, <<>>), Two(<<Null, Typed, Wrong>>, <<>>),
   Two(<<Typed, Half>>, <<>>), Two(<<Blank>>, <<Typed>>)}

MCReplies == {Simple("OK"), Array(<<Bulk(<<"crlf">>)>>)}

MCToken   == STRING
MCNumeral == [n \in -1 .. 9 |-> ToString(n)]
=============================================================================
