---------------------------- MODULE ServerProofs ----------------------------
(***************************************************************************)
(* The server, for any finite number of connections and whatever they      *)
(* send.                                                                   *)
(*                                                                         *)
(* The life of connections: none slips past shutdown, and                  *)
(* finalizePersistence runs alone, with the gauge of open connections back *)
(* at zero.                                                                *)
(*                                                                         *)
(* The streams: the commands that are run are those that the clients sent, *)
(* and the clients read the replies that were written for them, wherever   *)
(* the streams are cut.  The position of the server in a client's stream   *)
(* is always the end of a request.                                         *)
(***************************************************************************)
EXTENDS Server, RespProofs, FiniteSetTheorems

USE Zenon, SMT

-----------------------------------------------------------------------------
(* The life of connections. *)

Stages == {"started", "reading", "running", "writing", "complaining", "ending", "closing"}

\* The goroutines that ConnectionOpened has counted.
Counted == {c \in Conns : pc[c] \in Stages \ {"started", "closing"}}

\* Type correctness of the part of the state that the life of a connection is.
LifeTypes ==
  /\ serving \in {"booting", "failed", "accepting", "waiting", "finalizing", "stopped"}
  /\ closing \in BOOLEAN /\ canceled \in BOOLEAN /\ tracked \subseteq Conns
  /\ sock \in [Conns -> {"none", "backlog", "held", "open", "closed"}]
  /\ pc \in [Conns -> Stages \cup {"none", "done"}]
  /\ deadline \in [Conns -> BOOLEAN]

\* A connection: the socket, the goroutine and Server.conns agree, and the
\* listener hands out connections only while Serve accepts.
ConnInv(c) ==
  /\ c \in tracked <=> pc[c] \in Stages
  /\ sock[c] = "open" <=> pc[c] \in Stages
  /\ pc[c] = "done" => sock[c] = "closed"
  /\ closing /\ c \in tracked => deadline[c]
  /\ closing => sock[c] # "backlog"
  /\ sock[c] \in {"backlog", "held"} => serving = "accepting"
  /\ serving \in {"booting", "failed"} => sock[c] = "none"
  /\ serving \in {"finalizing", "stopped"} => pc[c] \notin Stages

ServeInv ==
  /\ serving \in {"waiting", "finalizing", "stopped"} => closing
  /\ serving \in {"booting", "failed", "finalizing", "stopped"} => loops = {}
  /\ gauge = Cardinality(Counted)

\* The inductive invariant.
IInv == LifeTypes /\ (\A c \in Conns : ConnInv(c)) /\ ServeInv

-----------------------------------------------------------------------------
(* The gauge. *)

\* There are finitely many of them.
LEMMA CountedFinite == IsFiniteSet(Counted)
<1>1. Counted \subseteq Conns
  BY DEF Counted
<1> QED BY <1>1, ServerAssumption, FS_Subset

\* The gauge stays right if the same goroutines are counted.
LEMMA GaugeKept ==
  ASSUME ServeInv, gauge' = gauge, \A c \in Conns : c \in Counted' <=> c \in Counted
  PROVE  (gauge = Cardinality(Counted))'
<1>1. Counted' = Counted
  BY DEF Counted
<1> QED BY <1>1 DEF ServeInv

-----------------------------------------------------------------------------
(* The steps. *)

\* A goroutine goes from one stage to another, and nothing else of the life of
\* connections changes.
Moves(c) ==
  /\ pc[c] \in Stages
  /\ \E s \in Stages : pc' = [pc EXCEPT ![c] = s]
  /\ UNCHANGED <<serving, canceled, closing, loops, tracked, sock, deadline>>

\* Such a step preserves the invariant.
LEMMA MovesStep ==
  ASSUME IInv, NEW c \in Conns, Moves(c), (gauge = Cardinality(Counted))'
  PROVE  IInv'
<1>1. PICK s \in Stages : pc' = [pc EXCEPT ![c] = s]
  BY DEF Moves
<1>2. LifeTypes'
  BY <1>1 DEF IInv, LifeTypes, Moves
<1>3. ASSUME NEW d \in Conns PROVE ConnInv(d)'
  <2>1. pc'[d] \in Stages <=> pc[d] \in Stages
    BY <1>1 DEF IInv, LifeTypes, Moves
  <2>2. pc'[d] = "done" => pc[d] = "done"
    BY <1>1 DEF IInv, LifeTypes, Stages
  <2> QED BY <2>1, <2>2 DEF IInv, ConnInv, Moves
<1> QED BY <1>2, <1>3 DEF IInv, ServeInv, Moves

\* Every step of serve but the last is one, and the gauge follows it.
LEMMA serveMoves ==
  ASSUME IInv, NEW c \in Conns, serve(c)
  PROVE  closeConn(c) \/ (Moves(c) /\ (gauge = Cardinality(Counted))')
<1>t. pc \in [Conns -> Stages \cup {"none", "done"}]
  BY DEF IInv, LifeTypes
<1>g. ServeInv /\ gauge = Cardinality(Counted)
  BY DEF IInv, ServeInv
<1>1. CASE Opened(c)
  <2>1. Counted' = Counted \cup {c} /\ c \notin Counted
    BY <1>1, <1>t DEF Opened, Counted, Stages
  <2>2. Cardinality(Counted') = Cardinality(Counted) + 1
    BY <2>1, CountedFinite, FS_AddElement
  <2> QED BY <1>1, <1>g, <2>2 DEF Opened, Moves, Stages, client
<1>2. CASE Closed(c)
  <2>1. Counted' = Counted \ {c} /\ c \in Counted
    BY <1>2, <1>t DEF Closed, Counted, Stages
  <2>2. Cardinality(Counted') = Cardinality(Counted) - 1
    BY <2>1, CountedFinite, FS_RemoveElement
  <2> QED BY <1>2, <1>g, <2>2 DEF Closed, Moves, Stages, client
<1>3. ASSUME Moves(c), gauge' = gauge, pc'[c] \notin {"started", "closing"},
             pc[c] \notin {"started", "closing"}
      PROVE  (gauge = Cardinality(Counted))'
  <2>1. \A d \in Conns : d \in Counted' <=> d \in Counted
    BY <1>3, <1>t DEF Moves, Counted
  <2> QED BY <1>3, <1>g, <2>1, GaugeKept
<1>4. CASE Fill(c) \/ ReadFails(c) \/ Written(c) \/ WriteFails(c) \/ Write(c)
  <2>1. Moves(c) /\ gauge' = gauge
    BY <1>4, <1>t DEF Fill, ReadFails, Written, WriteFails, Write, Moves, Stages, server, client
  <2>2. pc[c] \notin {"started", "closing"} /\ pc'[c] \notin {"started", "closing"}
    BY <1>4, <1>t DEF Fill, ReadFails, Written, WriteFails, Write
  <2> QED BY <1>3, <2>1, <2>2
<1>5. CASE Take(c) \/ Complain(c)
  <2>1. Moves(c) /\ gauge' = gauge
    BY <1>5, <1>t DEF Take, Complain, Moves, Stages, server, client
  <2>2. pc[c] \notin {"started", "closing"} /\ pc'[c] \notin {"started", "closing"}
    BY <1>5, <1>t DEF Take, Complain
  <2> QED BY <1>3, <2>1, <2>2
<1>6. ASSUME NEW r \in Replies, dispatch(c, r) PROVE Moves(c) /\ (gauge = Cardinality(Counted))'
  <2>1. Moves(c) /\ gauge' = gauge
    BY <1>6, <1>t DEF dispatch, Moves, Stages, client
  <2>2. pc[c] \notin {"started", "closing"} /\ pc'[c] \notin {"started", "closing"}
    BY <1>6, <1>t DEF dispatch
  <2> QED BY <1>3, <2>1, <2>2
<1> QED BY <1>1, <1>2, <1>4, <1>5, <1>6 DEF serve

\* A step that no goroutine of a connection takes leaves the gauge right.
LEMMA GaugeElsewhere ==
  ASSUME IInv, gauge' = gauge,
         \A c \in Conns :
           pc'[c] = pc[c] \/ {pc[c], pc'[c]} \subseteq {"none", "started", "closing", "done"}
  PROVE  (gauge = Cardinality(Counted))'
<1>1. \A c \in Conns : c \in Counted' <=> c \in Counted
  BY DEF Counted, Stages
<1> QED BY <1>1, GaugeKept DEF IInv

\* Every step preserves the invariant.
LEMMA StepInv ==
  ASSUME IInv, Next
  PROVE  IInv'
<1>t. LifeTypes /\ (\A c \in Conns : ConnInv(c)) /\ ServeInv
  BY DEF IInv
<1> USE <1>t
<1>1. ASSUME NEW c \in Conns, Client(c) PROVE IInv'
  <2>1. (gauge = Cardinality(Counted))'
    BY <1>1, GaugeElsewhere DEF Client, Connect, HangUp, Receive, Send, server
  <2>2. UNCHANGED <<serving, canceled, closing, loops, tracked, pc, deadline>>
    BY <1>1 DEF Client, Connect, HangUp, Receive, Send, server
  <2>3. sock' = sock \/ (Connect(c) /\ sock' = [sock EXCEPT ![c] = "backlog"])
    BY <1>1 DEF Client, Connect, HangUp, Receive, Send
  <2>4. LifeTypes'
    BY <2>2, <2>3 DEF LifeTypes
  <2>5. ASSUME NEW d \in Conns PROVE ConnInv(d)'
    <3>1. CASE sock'[d] = sock[d]
      BY <2>2, <3>1 DEF ConnInv
    <3>2. CASE d = c /\ Connect(c) /\ sock'[d] = "backlog"
      BY <2>2, <3>2 DEF ConnInv, Connect
    <3> QED BY <2>3, <3>1, <3>2 DEF LifeTypes
  <2> QED BY <2>1, <2>2, <2>4, <2>5 DEF IInv, ServeInv
<1>2. ASSUME NEW c \in Conns, serve(c) PROVE IInv'
  <2>1. CASE closeConn(c)
    <3>1. (gauge = Cardinality(Counted))'
      BY <2>1, GaugeElsewhere DEF closeConn, LifeTypes
    <3>2. LifeTypes'
      BY <2>1 DEF closeConn, LifeTypes
    <3>3. ASSUME NEW d \in Conns PROVE ConnInv(d)'
      <4>1. CASE d = c
        <5>1. pc'[d] = "done" /\ sock'[d] = "closed" /\ d \notin tracked'
          BY <2>1, <4>1 DEF closeConn, LifeTypes
        <5>2. ConnInv(c) /\ pc[c] \in Stages /\ serving' = serving
          BY <2>1 DEF closeConn, Stages
        <5> QED BY <4>1, <5>1, <5>2 DEF ConnInv, Stages
      <4>2. CASE d # c
        BY <2>1, <4>2 DEF closeConn, LifeTypes, ConnInv
      <4> QED BY <4>1, <4>2
    <3> QED BY <2>1, <3>1, <3>2, <3>3 DEF closeConn, IInv, ServeInv
  <2> QED BY <1>2, <2>1, serveMoves, MovesStep
<1>3. ASSUME NEW c \in Conns, Accept(c) PROVE IInv'
  <2>1. (gauge = Cardinality(Counted))'
    BY <1>3, GaugeElsewhere DEF Accept, server
  <2>2. LifeTypes'
    BY <1>3 DEF Accept, LifeTypes, server
  <2>3. ASSUME NEW d \in Conns PROVE ConnInv(d)'
    <3>1. sock'[d] = sock[d] \/ (sock[d] = "backlog" /\ sock'[d] = "held" /\ serving = "accepting")
      BY <1>3 DEF Accept, LifeTypes
    <3> QED BY <1>3, <3>1 DEF Accept, ConnInv, server
  <2> QED BY <1>3, <2>1, <2>2, <2>3 DEF Accept, IInv, ServeInv, server
<1>4. ASSUME NEW c \in Conns, startConn(c) PROVE IInv'
  <2>1. sock[c] = "held" /\ serving = "accepting" /\ pc[c] = "none"
    BY <1>4 DEF startConn, ConnInv, LifeTypes
  <2>2. (gauge = Cardinality(Counted))'
    BY <1>4, <2>1, GaugeElsewhere DEF startConn, LifeTypes
  <2>3. LifeTypes'
    BY <1>4 DEF startConn, LifeTypes, Stages
  <2>4. ASSUME NEW d \in Conns PROVE ConnInv(d)'
    <3>1. CASE d # c
      <4>0. /\ sock' \in {[sock EXCEPT ![c] = "closed"], [sock EXCEPT ![c] = "open"]}
            /\ pc' \in {pc, [pc EXCEPT ![c] = "started"]} /\ tracked' \in {tracked, tracked \cup {c}}
        BY <1>4 DEF startConn
      <4>1. sock'[d] = sock[d] /\ pc'[d] = pc[d] /\ (d \in tracked' <=> d \in tracked)
        BY <3>1, <4>0 DEF LifeTypes
      <4> QED BY <1>4, <4>1 DEF startConn, ConnInv
    <3>2. CASE d = c /\ closing
      BY <1>4, <2>1, <3>2 DEF startConn, ConnInv, LifeTypes, Stages
    <3>3. CASE d = c /\ ~closing
      <4>1. pc'[d] = "started" /\ sock'[d] = "open" /\ d \in tracked' /\ ~closing' /\ serving' = "accepting"
        BY <1>4, <2>1, <3>3 DEF startConn, LifeTypes
      <4> QED BY <4>1 DEF ConnInv, Stages
    <3> QED BY <3>1, <3>2, <3>3
  <2> QED BY <1>4, <2>2, <2>3, <2>4 DEF startConn, IInv, ServeInv
<1>5. CASE shutdown
  <2>1. (gauge = Cardinality(Counted))'
    BY <1>5, GaugeElsewhere DEF shutdown
  <2>2. LifeTypes'
    BY <1>5 DEF shutdown, LifeTypes
  <2>3. ASSUME NEW d \in Conns PROVE ConnInv(d)'
    <3>1. /\ sock'[d] = IF sock[d] = "backlog" THEN "closed" ELSE sock[d]
          /\ deadline'[d] <=> (deadline[d] \/ d \in tracked)
      BY <1>5 DEF shutdown, LifeTypes
    <3> QED BY <1>5, <3>1 DEF shutdown, ConnInv
  <2> QED BY <1>5, <2>1, <2>2, <2>3 DEF shutdown, IInv, ServeInv
<1>6. CASE Boot
  <2>1. (gauge = Cardinality(Counted))'
    BY <1>6, GaugeElsewhere DEF Boot
  <2> QED BY <1>6, <2>1 DEF Boot, IInv, LifeTypes, ConnInv, ServeInv, client
<1>7. CASE AcceptFails
  <2>1. (gauge = Cardinality(Counted))'
    BY <1>7, GaugeElsewhere DEF AcceptFails
  <2> QED BY <1>7, <2>1 DEF AcceptFails, Holding, IInv, LifeTypes, ConnInv, ServeInv, client
<1>8. CASE Waited
  <2>1. (gauge = Cardinality(Counted))'
    BY <1>8, GaugeElsewhere DEF Waited
  <2> QED BY <1>8, <2>1 DEF Waited, IInv, LifeTypes, ConnInv, ServeInv, Stages, client
<1>9. CASE Finalized
  <2>1. (gauge = Cardinality(Counted))'
    BY <1>9, GaugeElsewhere DEF Finalized
  <2> QED BY <1>9, <2>1 DEF Finalized, IInv, LifeTypes, ConnInv, ServeInv, client
<1>10. CASE Cancel \/ Reap
  <2>1. (gauge = Cardinality(Counted))'
    BY <1>10, GaugeElsewhere DEF Cancel, Reap
  <2>2. /\ UNCHANGED <<serving, closing, loops, tracked, sock, pc, deadline>>
        /\ canceled' \in BOOLEAN
    BY <1>10 DEF Cancel, Reap, client, LifeTypes
  <2> QED BY <2>1, <2>2 DEF IInv, LifeTypes, ConnInv, ServeInv
<1>11. ASSUME NEW l \in Loops, LoopEnds(l) PROVE IInv'
  <2>1. (gauge = Cardinality(Counted))'
    BY <1>11, GaugeElsewhere DEF LoopEnds
  <2> QED BY <1>11, <2>1 DEF LoopEnds, IInv, LifeTypes, ConnInv, ServeInv, client
<1> QED BY <1>1, <1>2, <1>3, <1>4, <1>5, <1>6, <1>7, <1>8, <1>9, <1>10, <1>11 DEF Next, Serve

-----------------------------------------------------------------------------
(* The theorems. *)

\* The invariant holds throughout: socket, goroutine, Server.conns, read deadline,
\* gauge and the stage of Serve agree.
THEOREM Invariance == Spec => []IInv
<1>1. Init => IInv
  <2> SUFFICES ASSUME Init PROVE IInv
    OBVIOUS
  <2>1. Counted = {} /\ gauge = 0
    BY DEF Init, Counted, Stages
  <2>2. gauge = Cardinality(Counted)
    BY <2>1, FS_EmptySet
  <2> QED BY <2>2 DEF Init, IInv, LifeTypes, ConnInv, ServeInv, Stages
<1>2. IInv /\ [Next]_vars => IInv'
  <2>1. CASE IInv /\ UNCHANGED vars
    BY <2>1 DEF vars, server, client, IInv, LifeTypes, ConnInv, ServeInv, Counted
  <2> QED BY <2>1, StepInv
<1> QED BY <1>1, <1>2, PTL DEF Spec

\* Every goroutine of a connection is registered while it runs, and once shutdown
\* has begun its read deadline is set, however Accept, startConn and shutdown
\* interleave.
THEOREM TrackedHolds == Spec => []Tracked
<1>1. IInv => Tracked
  BY DEF IInv, LifeTypes, ConnInv, Tracked, Stages
<1> QED BY <1>1, Invariance, PTL

\* finalizePersistence, and what follows it, run with no other goroutine, with
\* every socket closed and with the gauge at zero.
THEOREM FinalAloneHolds == Spec => []FinalAlone
<1>1. IInv => FinalAlone
  <2> SUFFICES ASSUME IInv, serving \in {"finalizing", "stopped"}
               PROVE  /\ loops = {} /\ tracked = {} /\ gauge = 0
                      /\ \A c \in Conns : sock[c] \in {"none", "closed"}
    BY DEF FinalAlone
  <2>1. \A c \in Conns : pc[c] \notin Stages /\ c \notin tracked /\ sock[c] \in {"none", "closed"}
    BY DEF IInv, LifeTypes, ConnInv
  <2>2. Counted = {}
    BY <2>1 DEF Counted
  <2>3. gauge = 0
    BY <2>2, FS_EmptySet DEF IInv, ServeInv
  <2> QED BY <2>1, <2>3 DEF IInv, LifeTypes, ServeInv
<1> QED BY <1>1, Invariance, PTL

-----------------------------------------------------------------------------
(* The requests of a client, one after the other. *)

\* The command that a request carries.
Meant(r) == IF r.form = "raw" THEN <<>> ELSE r.args

\* ReadRequest reads a request as its client meant it, refuses it, or asks for more if
\* the client broke off within it.
LEMMA EncodedReads ==
  ASSUME NEW r \in Request, Possible(r)
  PROVE  LET q == ReadRequest(Encoded(r))
         IN  /\ Encoded(r) \in Tokens
             /\ r.form # "raw" => r.args # <<>>
             /\ q.st = "ok" => q = Ok(Len(Encoded(r)) + 1, Meant(r)) /\ ~Broken(r)
             /\ q.st = "more" => CutOff(r)
<1> DEFINE q == ReadRequest(Encoded(r))
<1>0. /\ \A at, x : Ok(at, x).st = "ok"
      /\ Bad.st # "ok" /\ Bad.st # "more"
  BY DEF Ok, Bad, Stopped
<1>1. CASE r.form = "bulk"
  <2>0. r.args \in Seq(Tokens)
    BY <1>1 DEF Request, Tokens
  <2>1. Command(r.args)
    BY <1>1, <2>0 DEF Possible, Command
  <2>2. Encoded(r) = writeCommand(r.args)
    BY <1>1 DEF Encoded
  <2>3. writeCommand(r.args) \in Tokens
    BY Zenon, <2>1, writeCommandIs
  <2>4. q = Bad \/ q = Ok(Len(Encoded(r)) + 1, r.args)
    BY Zenon, <2>1, <2>2, BulkReads
  <2>5. Meant(r) = r.args /\ ~Broken(r) /\ r.args # <<>>
    BY <1>1, <2>1 DEF Meant, Broken, Command
  <2> HIDE DEF q
  <2>6. q.st # "more" /\ (q.st = "ok" => q = Ok(Len(Encoded(r)) + 1, r.args))
    BY Zenon, <1>0, <2>4
  <2> QED BY Zenon, <2>2, <2>3, <2>5, <2>6 DEF q
<1>2. CASE r.form = "inline"
  <2>0. r.args \in Seq(Tokens)
    BY <1>2 DEF Request, Tokens
  <2>1. Words(r.args) /\ r.args[1] # <<"*">> /\ r.args # <<>>
    BY <1>2, <2>0 DEF Possible, Words
  <2>2. Encoded(r) = ConcatTo(Spaced(r.args), Len(r.args))
    <3>1. Encoded(r) = Concat(Spaced(r.args))
      BY <1>2 DEF Encoded, Spaced, Separator
    <3>2. Len(Spaced(r.args)) = Len(r.args)
      BY Zenon, <2>1, SpacedIs
    <3> QED BY Zenon, <3>1, <3>2 DEF Concat
  <2>3. Encoded(r) \in Tokens
    BY Zenon, <2>1, <2>2, InlineReads
  <2>4. q = Bad \/ q = Ok(Len(Encoded(r)) + 1, r.args)
    BY Zenon, <2>1, <2>2, InlineReads
  <2>5. Meant(r) = r.args /\ ~Broken(r)
    BY <1>2 DEF Meant, Broken
  <2> HIDE DEF q
  <2>6. q.st # "more" /\ (q.st = "ok" => q = Ok(Len(Encoded(r)) + 1, r.args))
    BY Zenon, <1>0, <2>4
  <2> QED BY Zenon, <2>1, <2>3, <2>5, <2>6 DEF q
<1>3. CASE r.form = "raw"
  <2>1. Encoded(r) = r.tokens /\ Meant(r) = <<>>
    BY <1>3 DEF Encoded, Meant
  <2>2. r.tokens \in Tokens
    BY <1>3 DEF Request, Tokens
  <2>3. ReadRequest(r.tokens).st = "ok" => ReadRequest(r.tokens) = Ok(Len(r.tokens) + 1, <<>>)
    BY <1>3 DEF Possible
  <2> QED BY Zenon, <1>3, <2>1, <2>2, <2>3 DEF Broken, CutOff
<1>4. r.form \in {"bulk", "inline", "raw"}
  BY DEF Request
<1> QED BY <1>1, <1>2, <1>3, <1>4

\* What a client may send (ProgramsAssumption).
Proper(P) ==
  P \in Seq(Request)
  /\ \A i \in DOMAIN P : Possible(P[i]) /\ (CutOff(P[i]) => i = Len(P))

\* The requests of a program as they are sent.
Coded(P) == [i \in DOMAIN P |-> Encoded(P[i])]

\* They are the pieces of the client's stream.
LEMMA CodedIs ==
  ASSUME NEW P, Proper(P)
  PROVE  /\ Len(P) \in Nat /\ DOMAIN P = 1 .. Len(P)
         /\ Pieces(Token, Coded(P), Len(P))
         /\ \A k \in 1 .. Len(P) : Coded(P)[k] = Encoded(P[k]) /\ P[k] \in Request /\ Possible(P[k])
         /\ Stream(P) = ConcatTo(Coded(P), Len(P)) /\ Stream(P) \in Tokens
<1> DEFINE p == Coded(P)
<1>0. P \in Seq(Request)
  BY DEF Proper
<1>1. Len(P) \in Nat /\ DOMAIN P = 1 .. Len(P) /\ Len(p) = Len(P)
  BY <1>0, Mapped DEF Coded
<1>2. ASSUME NEW k \in 1 .. Len(P)
      PROVE  p[k] = Encoded(P[k]) /\ P[k] \in Request /\ Possible(P[k]) /\ p[k] \in Tokens
  <2>1. p[k] = Encoded(P[k])
    BY <1>1 DEF Coded
  <2>2. P[k] \in Request /\ Possible(P[k])
    BY <1>0, <1>1 DEF Proper
  <2>3. Encoded(P[k]) \in Tokens
    BY Zenon, <2>2, EncodedReads
  <2> QED BY Zenon, <2>1, <2>2, <2>3
<1>3. Pieces(Token, p, Len(P))
  BY <1>2 DEF Pieces, Tokens
<1>4. Stream(P) = ConcatTo(p, Len(P))
  <2>1. Stream(P) = Concat(p)
    BY DEF Stream, Coded
  <2> QED BY Zenon, <1>1, <2>1 DEF Concat
<1>5. Stream(P) \in Tokens
  <2>1. Len(P) \in 0 .. Len(P)
    BY SMT, <1>1
  <2> QED BY <1>1, <1>3, <1>4, <2>1, ConcatToType DEF Tokens
<1> QED BY Zenon, <1>1, <1>2, <1>3, <1>4, <1>5

\* The server has read the first k requests.
Before(P, k) == Len(ConcatTo(Coded(P), k))

\* Each request stands behind the ones before it.
LEMMA BeforeIs ==
  ASSUME NEW P, Proper(P), NEW k \in 0 .. Len(P)
  PROVE  /\ Before(P, k) \in Nat /\ Before(P, 0) = 0
         /\ k = Len(P) => Before(P, k) = Len(Stream(P))
         /\ k < Len(P) => /\ Holds(Stream(P), Before(P, k) + 1, Encoded(P[k + 1]))
                          /\ Before(P, k + 1) = Before(P, k) + Len(Encoded(P[k + 1]))
                          /\ Before(P, k + 1) <= Len(Stream(P))
<1> DEFINE p == Coded(P)
           n == Len(P)
           s == Stream(P)
<1>1. /\ n \in Nat /\ Pieces(Token, p, n) /\ s = ConcatTo(p, n) /\ s \in Tokens
      /\ \A j \in 1 .. n : p[j] = Encoded(P[j])
  BY Zenon, CodedIs
<1> HIDE DEF p, s
<1>2. ConcatTo(p, k) \in Tokens
  BY Zenon, <1>1, ConcatToType DEF Tokens
<1>3. Before(P, k) \in Nat
  <2>1. Before(P, k) = Len(ConcatTo(p, k))
    BY DEF Before, p
  <2> QED BY <1>2, <2>1 DEF Tokens
<1>4. Before(P, 0) = 0
  <2>1. ConcatTo(p, 0) = <<>>
    BY ConcatToStep
  <2>2. Before(P, 0) = Len(<<>>)
    BY Zenon, <2>1 DEF Before, p
  <2> QED BY <2>2
<1>5. k = n => Before(P, k) = Len(s)
  BY Zenon, <1>1 DEF Before, p
<1>6. ASSUME k < n
      PROVE  /\ Holds(s, Before(P, k) + 1, Encoded(P[k + 1]))
             /\ Before(P, k + 1) = Before(P, k) + Len(Encoded(P[k + 1]))
             /\ Before(P, k + 1) <= Len(s)
  <2>1. k \in Nat /\ k + 1 <= n /\ k + 1 \in 1 .. n
    BY SMT, <1>1, <1>6
  <2>2. Holds(s, 1, ConcatTo(p, n)) /\ 1 \in Pos
    BY Zenon, <1>1, HoldsSelf
  <2>3. Stands(s, 1, p, k)
    BY <1>1, <2>1, <2>2, PieceAt
  <2>4. p[k + 1] = Encoded(P[k + 1])
    BY <1>1, <2>1
  <2>5. Holds(s, 1 + Before(P, k), Encoded(P[k + 1]))
    BY Zenon, <2>3, <2>4 DEF Stands, Before, p
  <2>6. Before(P, k + 1) = Before(P, k) + Len(Encoded(P[k + 1]))
    BY Zenon, <2>3, <2>4 DEF Stands, Before, p
  <2>7. 1 + Before(P, k) = Before(P, k) + 1
    BY SMT, <1>3
  <2>8. Before(P, k) + 1 + Len(Encoded(P[k + 1])) - 1 <= Len(s)
    BY Zenon, <2>5, <2>7 DEF Holds
  <2>9. Len(Encoded(P[k + 1])) \in Nat /\ Len(s) \in Nat
    <3>1. Encoded(P[k + 1]) \in Tokens
      BY <1>1, <2>1, <2>4 DEF Pieces, Tokens
    <3> QED BY <1>1, <3>1 DEF Tokens
  <2>10. Before(P, k + 1) <= Len(s)
    BY SMT, <1>3, <2>6, <2>8, <2>9
  <2> QED BY Zenon, <2>5, <2>6, <2>7, <2>10
<1> QED BY Zenon, <1>3, <1>4, <1>5, <1>6 DEF s

\* What is read from however much of the rest of the stream is the next request.
LEMMA ReadsNext ==
  ASSUME NEW P, Proper(P), NEW k \in 0 .. Len(P),
         NEW b \in Nat, Before(P, k) <= b, b <= Len(Stream(P)),
         NEW q, q = ReadRequest(SubSeq(Stream(P), Before(P, k) + 1, b)), q.st = "ok"
  PROVE  /\ k < Len(P) /\ ~Broken(P[k + 1])
         /\ q = Ok(Len(Encoded(P[k + 1])) + 1, Meant(P[k + 1]))
         /\ Before(P, k) + Len(Encoded(P[k + 1])) <= b
<1> DEFINE s == Stream(P)
           a == Before(P, k)
           buf == SubSeq(s, a + 1, b)
           e == Encoded(P[k + 1])
           d == ReadRequest(e)
<1>1. /\ Len(P) \in Nat /\ s \in Tokens /\ DOMAIN P = 1 .. Len(P)
      /\ \A j \in 1 .. Len(P) : P[j] \in Request /\ Possible(P[j])
  BY Zenon, CodedIs
<1>2. a \in Nat /\ Len(s) \in Nat
  BY <1>1, BeforeIs DEF Tokens
<1>3. k < Len(P)
  <2> SUFFICES ASSUME ~(k < Len(P)) PROVE FALSE
    OBVIOUS
  <2>n. Len(P) \in Nat
    BY Zenon, <1>1
  <2>1. k = Len(P)
    BY SMT, <2>n
  <2>2. a = Len(s)
    BY <2>1, BeforeIs
  <2>0. a <= b /\ b <= Len(s)
    OBVIOUS
  <2>3. b = a /\ b - a = 0 /\ a + 1 > b
    <3> HIDE DEF s, a
    <3> QED BY SMT, <1>2, <2>0, <2>2
  <2>4. buf = <<>>
    <3> HIDE DEF s, a
    <3> QED BY SMT, <1>1, <1>2, <2>3 DEF Tokens
  <2>5. q = More
    BY Zenon, <2>4 DEF ReadRequest
  <2> QED BY <2>5 DEF More, Stopped
<1>4. k + 1 \in 1 .. Len(P)
  BY SMT, <1>1, <1>3
<1>5. P[k + 1] \in Request /\ Possible(P[k + 1])
  BY <1>1, <1>4
<1>6. /\ e \in Tokens
      /\ d.st = "ok" => d = Ok(Len(e) + 1, Meant(P[k + 1])) /\ ~Broken(P[k + 1])
      /\ d.st = "more" => CutOff(P[k + 1])
  BY Zenon, <1>5, EncodedReads
<1>7. Holds(s, a + 1, e) /\ Before(P, k + 1) = a + Len(e) /\ Before(P, k + 1) <= Len(s)
  BY Zenon, <1>3, BeforeIs
<1>w. /\ buf \in Tokens /\ Len(buf) = b - a
      /\ Begins(Token, buf, e) \/ (Begins(Token, e, buf) /\ b - a > Len(e))
  <2> HIDE DEF s, a, e
  <2>1. a <= b /\ b <= Len(s)
    BY DEF a, s
  <2> QED BY Zenon, <1>1, <1>2, <1>6, <1>7, <2>1, Window
<1>8. q = ReadRequest(buf)
  OBVIOUS
<1> HIDE DEF buf, d, s, a, e
<1>9. d = q
  <2>1. CASE Begins(Token, buf, e)
    <3>1. PICK t \in Tokens : e = buf \o t
      BY <2>1 DEF Begins, Tokens
    <3>2. Firm(ReadRequest(buf), ReadRequest(buf \o t), Len(buf))
      BY <1>w, ReadRequestStays
    <3>3. Firm(q, d, Len(buf))
      BY Zenon, <1>8, <3>1, <3>2 DEF d
    <3> QED BY <3>3 DEF Firm
  <2>2. CASE Begins(Token, e, buf) /\ b - a > Len(e)
    <3>1. PICK t \in Tokens : buf = e \o t
      BY <2>2 DEF Begins, Tokens
    <3>2. Firm(ReadRequest(e), ReadRequest(e \o t), Len(e))
      BY <1>6, ReadRequestStays
    <3>3. Firm(d, q, Len(e))
      BY Zenon, <1>8, <3>1, <3>2 DEF d
    <3>4. ASSUME d.st = "more" PROVE FALSE
      <4>1. k + 1 = Len(P)
        BY <1>1, <1>4, <1>6, <3>4 DEF Proper
      <4>2. Before(P, k + 1) = Len(s)
        <5>1. k + 1 \in 0 .. Len(P)
          BY SMT, <1>4
        <5> QED BY Zenon, <4>1, <5>1, BeforeIs DEF s
      <4>3. Len(e) \in Nat
        BY <1>6 DEF Tokens
      <4>4. b <= Len(s)
        BY DEF s
      <4> QED BY SMT, <1>2, <1>7, <2>2, <4>2, <4>3, <4>4
    <3> QED BY <3>3, <3>4 DEF Firm
  <2> QED BY <1>w, <2>1, <2>2
<1>10. q = Ok(Len(e) + 1, Meant(P[k + 1])) /\ ~Broken(P[k + 1])
  BY Zenon, <1>6, <1>9
<1>11. a + Len(e) <= b
  <2>1. Firm(q, q, Len(buf))
    <3>1. <<>> \in Tokens
      BY DEF Tokens
    <3>2. Firm(ReadRequest(buf), ReadRequest(buf \o <<>>), Len(buf))
      BY <1>w, <3>1, ReadRequestStays
    <3>3. buf \o <<>> = buf
      BY SMT, <1>w DEF Tokens
    <3> QED BY Zenon, <1>8, <3>2, <3>3
  <2>2. q.at <= Len(buf) + 1
    BY <2>1 DEF Firm
  <2>3. q.at = Len(e) + 1
    BY <1>10 DEF Ok
  <2>4. Len(e) \in Nat
    BY <1>6 DEF Tokens
  <2> QED BY SMT, <1>2, <1>w, <2>2, <2>3, <2>4
<1> QED BY Zenon, <1>3, <1>10, <1>11 DEF a, e

\* The next request adds its command.
LEMMA CommandsStep ==
  ASSUME NEW P, Proper(P), NEW k \in 0 .. Len(P)
  PROVE  /\ Commands(P, 0) = <<>>
         /\ Commands(P, k) \in Seq(Seq(Tokens))
         /\ k < Len(P) =>
              Commands(P, k + 1) = IF Meant(P[k + 1]) = <<>> THEN Commands(P, k)
                                   ELSE Append(Commands(P, k), Meant(P[k + 1]))
<1> DEFINE f == [i \in DOMAIN P |-> IF P[i].form = "raw" THEN <<>> ELSE <<P[i].args>>]
           S == Seq(Tokens)
<1>1. /\ Len(P) \in Nat /\ DOMAIN P = 1 .. Len(P)
      /\ \A j \in 1 .. Len(P) : P[j] \in Request /\ Possible(P[j])
  BY Zenon, CodedIs
<1>2. \A j \in 1 .. Len(P) : f[j] = IF P[j].form = "raw" THEN <<>> ELSE <<P[j].args>>
  BY Zenon, <1>1
<1>3. \A j : Commands(P, j) = ConcatTo(f, j)
  BY DEF Commands
<1> HIDE DEF f
<1>a. ASSUME NEW j \in 1 .. Len(P), P[j].form # "raw" PROVE P[j].args \in S /\ P[j].args # <<>>
  <2>1. P[j] \in Request /\ Possible(P[j])
    BY <1>1
  <2>2. P[j].args \in S
    BY <1>a, <2>1 DEF Request, Tokens
  <2> QED BY Zenon, <1>a, <2>1, <2>2, EncodedReads
<1> HIDE DEF S
<1>4. Pieces(S, f, Len(P))
  <2>1. ASSUME NEW j \in 1 .. Len(P) PROVE f[j] \in Seq(S)
    <3>1. CASE P[j].form = "raw"
      <4>1. <<>> \in Seq(S)
        OBVIOUS
      <4> QED BY Zenon, <1>2, <3>1, <4>1
    <3>2. CASE P[j].form # "raw"
      <4>1. <<P[j].args>> \in Seq(S)
        BY <1>a, <3>2, Tuples
      <4> QED BY <1>2, <3>2, <4>1
    <3> QED BY <3>1, <3>2
  <2> QED BY <2>1 DEF Pieces
<1>5. ConcatTo(f, k) \in Seq(S)
  BY Zenon, <1>1, <1>4, ConcatToType
<1>6. ConcatTo(f, 0) = <<>>
  BY ConcatToStep
<1>7. ASSUME k < Len(P)
      PROVE  ConcatTo(f, k + 1) = IF Meant(P[k + 1]) = <<>> THEN ConcatTo(f, k)
                                  ELSE Append(ConcatTo(f, k), Meant(P[k + 1]))
  <2>1. k \in Nat /\ k + 1 \in 1 .. Len(P)
    BY SMT, <1>1, <1>7
  <2>2. ConcatTo(f, k + 1) = ConcatTo(f, k) \o f[k + 1]
    BY <2>1, ConcatToStep
  <2>3. \A x \in Seq(S), y \in S : x \o <<>> = x /\ x \o <<y>> = Append(x, y)
    BY SMT
  <2>4. CASE P[k + 1].form = "raw"
    <3>1. f[k + 1] = <<>> /\ Meant(P[k + 1]) = <<>>
      BY <1>2, <2>1, <2>4 DEF Meant
    <3>2. ConcatTo(f, k) \o <<>> = ConcatTo(f, k)
      BY SMT, <1>5
    <3> QED BY Zenon, <2>2, <3>1, <3>2
  <2>5. CASE P[k + 1].form # "raw"
    <3>1. /\ f[k + 1] = <<P[k + 1].args>> /\ Meant(P[k + 1]) = P[k + 1].args
          /\ P[k + 1].args \in S /\ P[k + 1].args # <<>>
      BY <1>2, <1>a, <2>1, <2>5 DEF Meant
    <3>2. ConcatTo(f, k) \o <<P[k + 1].args>> = Append(ConcatTo(f, k), P[k + 1].args)
      BY Zenon, <1>5, <2>3, <3>1
    <3> QED BY Zenon, <2>2, <3>1, <3>2
  <2> QED BY <2>4, <2>5
<1> QED BY Zenon, <1>3, <1>5, <1>6, <1>7 DEF S

\* The first n pieces decide what the first n pieces come to.
LEMMA ConcatToSame ==
  ASSUME NEW p, NEW q, NEW n \in Nat, \A k \in 1 .. n : p[k] = q[k]
  PROVE  ConcatTo(p, n) = ConcatTo(q, n)
<1> DEFINE T == {k \in Nat : k <= n => ConcatTo(p, k) = ConcatTo(q, k)}
<1>1. 0 \in T
  <2>1. ConcatTo(p, 0) = <<>> /\ ConcatTo(q, 0) = <<>>
    BY Zenon, ConcatToStep
  <2> QED BY <2>1
<1>2. ASSUME NEW k \in Nat, k \in T PROVE k + 1 \in T
  <2>1. k + 1 \in Nat
    BY SMT
  <2>2. ASSUME k + 1 <= n PROVE ConcatTo(p, k + 1) = ConcatTo(q, k + 1)
    <3>1. k <= n /\ k + 1 \in 1 .. n
      BY SMT, <2>2
    <3>2. ConcatTo(p, k) = ConcatTo(q, k) /\ p[k + 1] = q[k + 1]
      BY <1>2, <3>1
    <3> QED BY Zenon, <3>2, ConcatToStep
  <2> QED BY <2>1, <2>2
<1> HIDE DEF T
<1>3. n \in T
  BY <1>1, <1>2, Induction
<1>4. n <= n
  BY SMT
<1> QED BY <1>3, <1>4 DEF T

\* One more reply is written behind the others.
LEMMA WroteMore ==
  ASSUME NEW R \in Seq(Reply), NEW r \in Reply
  PROVE  /\ Append(R, r) \in Seq(Reply)
         /\ Concat(Wrote(Append(R, r))) = Concat(Wrote(R)) \o writeReply(r)
         /\ Len(Concat(Wrote(R)) \o writeReply(r)) = Len(Concat(Wrote(R))) + Len(writeReply(r))
         /\ Concat(Wrote(R)) \in Tokens /\ writeReply(r) \in Tokens
<1> DEFINE Q == Append(R, r)
           n == Len(R)
<1>1. /\ Q \in Seq(Reply) /\ n \in Nat /\ n + 1 \in Nat /\ Len(Q) = n + 1 /\ Q[n + 1] = r
      /\ \A k \in 1 .. n : Q[k] = R[k]
  BY SMT
<1> HIDE DEF Q
<1>2. /\ Concat(Wrote(R)) = ConcatTo(Wrote(R), n) /\ Concat(Wrote(R)) \in Tokens
      /\ \A k \in 1 .. n : Wrote(R)[k] = writeReply(R[k])
  BY Zenon, WroteIs
<1>3. /\ Concat(Wrote(Q)) = ConcatTo(Wrote(Q), n + 1)
      /\ \A k \in 1 .. n + 1 : Wrote(Q)[k] = writeReply(Q[k])
  BY Zenon, <1>1, WroteIs
<1>4. \A k \in 1 .. n : k \in 1 .. n + 1
  BY SMT, <1>1
<1>5. \A k \in 1 .. n : Wrote(Q)[k] = Wrote(R)[k]
  BY Zenon, <1>1, <1>2, <1>3, <1>4
<1>6. ConcatTo(Wrote(Q), n) = ConcatTo(Wrote(R), n)
  BY <1>1, <1>5, ConcatToSame
<1>7. n + 1 \in 1 .. n + 1
  BY SMT, <1>1
<1>8. Wrote(Q)[n + 1] = writeReply(r)
  BY Zenon, <1>1, <1>3, <1>7
<1>9. ConcatTo(Wrote(Q), n + 1) = ConcatTo(Wrote(Q), n) \o Wrote(Q)[n + 1]
  BY <1>1, ConcatToStep
<1>10. writeReply(r) \in Tokens
  BY Zenon, ReplyReads
<1>11. Len(Concat(Wrote(R)) \o writeReply(r)) = Len(Concat(Wrote(R))) + Len(writeReply(r))
  BY Zenon, <1>2, <1>10, Joined
<1> QED BY Zenon, <1>1, <1>2, <1>3, <1>6, <1>8, <1>9, <1>10, <1>11 DEF Q

-----------------------------------------------------------------------------
(* The streams of a connection. *)

\* What an EXCEPT changes and keeps.
LEMMA Updated ==
  ASSUME NEW S, NEW T, NEW f \in [S -> T], NEW c \in S, NEW v \in T, NEW g, g = [f EXCEPT ![c] = v]
  PROVE  g \in [S -> T] /\ g[c] = v /\ \A d \in S \ {c} : g[d] = f[d]
OBVIOUS

\* The types of the streams' variables.
StreamTypes ==
  /\ program \in Programs /\ wire = [c \in Conns |-> Stream(program[c])]
  /\ sent \in [Conns -> Nat] /\ got \in [Conns -> Nat]
  /\ filled \in [Conns -> Nat] /\ consumed \in [Conns -> Nat] /\ flushed \in [Conns -> Nat]
  /\ ran \in [Conns -> Seq(Seq(Tokens))] /\ replies \in [Conns -> Seq(Reply)]
  /\ out \in [Conns -> Tokens]

\* The server has read the first k requests.
Progress(P, k, at, commands) ==
  /\ at = Before(P, k) /\ commands = Commands(P, k)
  /\ \A i \in 1 .. k : ~Broken(P[i])

\* The streams of connection c are in order: nothing is read before it was sent, and what
\* was run and written is what the consumed requests and the replies come to.
StreamInv(c) ==
  /\ consumed[c] <= filled[c] /\ filled[c] <= sent[c] /\ sent[c] <= Len(wire[c])
  /\ got[c] <= flushed[c] /\ flushed[c] <= Len(out[c])
  /\ out[c] = Concat(Wrote(replies[c]))
  /\ \E k \in 0 .. Len(program[c]) : Progress(program[c], k, consumed[c], ran[c])

\* The inductive invariant of the streams.
SInv == StreamTypes /\ \A c \in Conns : StreamInv(c)

\* The part of the state that the streams are.
streams == <<program, wire, sent, got, filled, consumed, flushed, ran, replies, out>>

\* All that is the same for a connection that does not take the step.
Kept(d) ==
  /\ program' = program /\ wire' = wire /\ sent'[d] = sent[d] /\ got'[d] = got[d]
  /\ filled'[d] = filled[d] /\ consumed'[d] = consumed[d] /\ flushed'[d] = flushed[d]
  /\ ran'[d] = ran[d] /\ replies'[d] = replies[d] /\ out'[d] = out[d]

\* Such a connection keeps its invariant.
LEMMA KeptInv ==
  ASSUME NEW d \in Conns, StreamInv(d), Kept(d)
  PROVE  StreamInv(d)'
BY Zenon DEF Kept, StreamInv

\* Every client runs a program that ProgramsAssumption describes.
LEMMA ProgramsProper ==
  ASSUME StreamTypes, NEW c \in Conns
  PROVE  /\ Proper(program[c]) /\ wire[c] = Stream(program[c])
         /\ wire[c] \in Tokens /\ Len(wire[c]) \in Nat /\ Len(program[c]) \in Nat
<1>1. program \in Programs /\ wire[c] = Stream(program[c])
  BY DEF StreamTypes
<1>2. program[c] \in Seq(Request)
  BY <1>1, ProgramsAssumption
<1>3. \A i \in DOMAIN program[c] : Possible(program[c][i]) /\ (CutOff(program[c][i]) => i = Len(program[c]))
  BY Zenon, <1>1, ProgramsAssumption
<1>4. Proper(program[c])
  BY Zenon, <1>2, <1>3 DEF Proper
<1>5. Stream(program[c]) \in Tokens /\ Len(program[c]) \in Nat
  BY Zenon, <1>4, CodedIs
<1>6. Len(wire[c]) \in Nat
  BY <1>1, <1>5 DEF Tokens
<1> QED BY Zenon, <1>1, <1>4, <1>5, <1>6

\* The client sends a packet.
LEMMA SendStep ==
  ASSUME SInv, NEW c \in Conns, NEW n \in 1 .. Len(wire[c]) - sent[c], Send(c, n)
  PROVE  SInv'
<1>0. StreamTypes /\ StreamInv(c) /\ sent[c] \in Nat /\ filled[c] \in Nat
  BY DEF SInv, StreamTypes
<1>1. /\ sent' = [sent EXCEPT ![c] = sent[c] + n]
      /\ UNCHANGED <<program, wire, got, filled, consumed, flushed, ran, replies, out>>
  BY DEF Send, stream
<1>2. Len(wire[c]) \in Nat
  BY Zenon, <1>0, ProgramsProper
<1>3. sent[c] + n \in Nat /\ sent[c] + n <= Len(wire[c]) /\ (filled[c] <= sent[c] => filled[c] <= sent[c] + n)
  BY SMT, <1>0, <1>2
<1>4. sent' \in [Conns -> Nat] /\ sent'[c] = sent[c] + n /\ \A d \in Conns \ {c} : sent'[d] = sent[d]
  BY <1>0, <1>1, <1>3 DEF StreamTypes
<1>5. StreamTypes'
  BY Zenon, <1>0, <1>1, <1>4 DEF StreamTypes
<1>6. StreamInv(c)'
  BY Zenon, <1>0, <1>1, <1>3, <1>4 DEF StreamInv
<1>7. ASSUME NEW d \in Conns \ {c} PROVE StreamInv(d)'
  <2>1. Kept(d)
    BY Zenon, <1>1, <1>4 DEF Kept
  <2> QED BY Zenon, <2>1, KeptInv DEF SInv
<1> QED BY Zenon, <1>5, <1>6, <1>7 DEF SInv

\* The client reads what was written.
LEMMA ReceiveStep ==
  ASSUME SInv, NEW c \in Conns, Receive(c)
  PROVE  SInv'
<1>0. StreamTypes /\ StreamInv(c) /\ flushed[c] \in Nat
  BY DEF SInv, StreamTypes
<1>1. /\ got' = [got EXCEPT ![c] = flushed[c]]
      /\ UNCHANGED <<program, wire, sent, filled, consumed, flushed, ran, replies, out>>
  BY DEF Receive, stream
<1>4. got' \in [Conns -> Nat] /\ got'[c] = flushed[c] /\ \A d \in Conns \ {c} : got'[d] = got[d]
  BY <1>0, <1>1 DEF StreamTypes
<1>5. StreamTypes'
  BY Zenon, <1>0, <1>1, <1>4 DEF StreamTypes
<1>s. flushed[c] <= flushed[c]
  BY SMT, <1>0
<1>6. StreamInv(c)'
  BY Zenon, <1>0, <1>1, <1>4, <1>s DEF StreamInv
<1>7. ASSUME NEW d \in Conns \ {c} PROVE StreamInv(d)'
  <2>1. Kept(d)
    BY Zenon, <1>1, <1>4 DEF Kept
  <2> QED BY Zenon, <2>1, KeptInv DEF SInv
<1> QED BY Zenon, <1>5, <1>6, <1>7 DEF SInv

\* The bufio.Reader takes what has arrived.
LEMMA FillStep ==
  ASSUME SInv, NEW c \in Conns, Fill(c)
  PROVE  SInv'
<1>0. StreamTypes /\ StreamInv(c) /\ sent[c] \in Nat /\ filled[c] \in Nat /\ consumed[c] \in Nat
  BY DEF SInv, StreamTypes
<1>1. /\ filled' = [filled EXCEPT ![c] = sent[c]]
      /\ UNCHANGED <<program, wire, sent, got, consumed, flushed, ran, replies, out>>
  BY DEF Fill, client
<1>4. filled' \in [Conns -> Nat] /\ filled'[c] = sent[c] /\ \A d \in Conns \ {c} : filled'[d] = filled[d]
  BY <1>0, <1>1 DEF StreamTypes
<1>5. StreamTypes'
  BY Zenon, <1>0, <1>1, <1>4 DEF StreamTypes
<1>s. sent[c] <= sent[c] /\ (consumed[c] <= filled[c] /\ filled[c] <= sent[c] => consumed[c] <= sent[c])
  BY SMT, <1>0
<1>6. StreamInv(c)'
  BY Zenon, <1>0, <1>1, <1>4, <1>s DEF StreamInv
<1>7. ASSUME NEW d \in Conns \ {c} PROVE StreamInv(d)'
  <2>1. Kept(d)
    BY Zenon, <1>1, <1>4 DEF Kept
  <2> QED BY Zenon, <2>1, KeptInv DEF SInv
<1> QED BY Zenon, <1>5, <1>6, <1>7 DEF SInv

\* ReadRequest returns the next request.
LEMMA TakeStep ==
  ASSUME SInv, NEW c \in Conns, Take(c)
  PROVE  SInv'
<1> DEFINE P == program[c]
           r == Parsed(c)
<1>0. /\ StreamTypes /\ StreamInv(c) /\ sent[c] \in Nat /\ filled[c] \in Nat /\ consumed[c] \in Nat
      /\ ran[c] \in Seq(Seq(Tokens))
  BY DEF SInv, StreamTypes
<1>1. /\ r.st = "ok" /\ consumed' = [consumed EXCEPT ![c] = consumed[c] + r.at - 1]
      /\ ran' = IF r.val = <<>> THEN ran ELSE [ran EXCEPT ![c] = Append(ran[c], r.val)]
      /\ UNCHANGED <<program, wire, sent, got, filled, flushed, replies, out>>
  BY DEF Take, client
<1>2. Proper(P) /\ wire[c] = Stream(P) /\ Len(wire[c]) \in Nat /\ Len(P) \in Nat
  BY Zenon, <1>0, ProgramsProper
<1>3. PICK k \in 0 .. Len(P) : Progress(P, k, consumed[c], ran[c])
  BY <1>0 DEF StreamInv
<1> DEFINE Q == P[k + 1]
           e == Encoded(Q)
<1>4. consumed[c] = Before(P, k) /\ ran[c] = Commands(P, k) /\ \A i \in 1 .. k : ~Broken(P[i])
  BY <1>3 DEF Progress
<1>5. r = ReadRequest(SubSeq(Stream(P), Before(P, k) + 1, filled[c]))
  BY <1>2, <1>4 DEF Parsed, Buffered
<1> HIDE DEF r, P
<1>6. Before(P, k) <= filled[c] /\ filled[c] <= Len(Stream(P))
  <2>1. consumed[c] <= filled[c] /\ filled[c] <= sent[c] /\ sent[c] <= Len(wire[c])
    BY <1>0 DEF StreamInv
  <2>2. filled[c] <= Len(wire[c])
    BY SMT, <1>0, <1>2, <2>1
  <2> QED BY Zenon, <1>2, <1>4, <2>1, <2>2
<1>7. /\ k < Len(P) /\ ~Broken(Q) /\ r = Ok(Len(e) + 1, Meant(Q))
      /\ Before(P, k) + Len(e) <= filled[c]
  BY Zenon, <1>0, <1>1, <1>2, <1>5, <1>6, ReadsNext
<1>8. Before(P, k + 1) = Before(P, k) + Len(e)
  BY Zenon, <1>2, <1>7, BeforeIs
<1>9. Commands(P, k + 1) = IF Meant(Q) = <<>> THEN Commands(P, k) ELSE Append(Commands(P, k), Meant(Q))
  BY Zenon, <1>2, <1>7, CommandsStep
<1>10. r.at = Len(e) + 1 /\ r.val = Meant(Q)
  BY Zenon, <1>7 DEF Ok
<1>11. k + 1 \in 0 .. Len(P) /\ Before(P, k + 1) \in Nat /\ Commands(P, k + 1) \in Seq(Seq(Tokens))
  <2>1. k + 1 \in 0 .. Len(P)
    BY SMT, <1>2, <1>7
  <2> QED BY Zenon, <1>2, <2>1, BeforeIs, CommandsStep
<1>12. Len(e) \in Nat
  <2>1. k + 1 \in 1 .. Len(P)
    BY SMT, <1>2, <1>7
  <2>2. Q \in Request /\ Possible(Q)
    BY Zenon, <1>2, <2>1, CodedIs
  <2>3. e \in Tokens
    BY Zenon, <2>2, EncodedReads
  <2> QED BY <2>3 DEF Tokens
<1> HIDE DEF e
<1>13. consumed[c] + r.at - 1 = Before(P, k + 1)
  BY SMT, <1>0, <1>4, <1>8, <1>10, <1>12
<1>14. /\ consumed' \in [Conns -> Nat] /\ consumed'[c] = Before(P, k + 1)
       /\ \A d \in Conns \ {c} : consumed'[d] = consumed[d]
  <2>1. consumed' = [consumed EXCEPT ![c] = Before(P, k + 1)]
    BY Zenon, <1>1, <1>13
  <2> QED BY <1>0, <1>11, <2>1 DEF StreamTypes
<1>15. /\ ran' \in [Conns -> Seq(Seq(Tokens))] /\ ran'[c] = Commands(P, k + 1)
       /\ \A d \in Conns \ {c} : ran'[d] = ran[d]
  <2> DEFINE S == Seq(Seq(Tokens))
             C == Commands(P, k + 1)
  <2>0. ran \in [Conns -> S] /\ C \in S
    BY Zenon, <1>0, <1>11 DEF StreamTypes
  <2>1. CASE Meant(Q) = <<>>
    <3>1. ran' = ran /\ C = ran[c]
      BY Zenon, <1>1, <1>4, <1>9, <1>10, <2>1
    <3> QED BY Zenon, <2>0, <3>1
  <2>2. CASE Meant(Q) # <<>>
    <3>1. ran' = [ran EXCEPT ![c] = C]
      BY Zenon, <1>1, <1>4, <1>9, <1>10, <2>2
    <3> HIDE DEF S, C
    <3>2. ran' \in [Conns -> S] /\ ran'[c] = C /\ \A d \in Conns \ {c} : ran'[d] = ran[d]
      BY <2>0, <3>1
    <3> QED BY Zenon, <3>2 DEF S, C
  <2> QED BY <2>1, <2>2
<1>16. StreamTypes'
  BY Zenon, <1>0, <1>1, <1>14, <1>15 DEF StreamTypes
<1>17. Progress(P, k + 1, consumed'[c], ran'[c])
  <2>1. ASSUME NEW i \in 1 .. k + 1 PROVE ~Broken(P[i])
    <3>1. i \in 1 .. k \/ i = k + 1
      BY SMT
    <3> QED BY Zenon, <1>4, <1>7, <3>1
  <2> QED BY Zenon, <1>14, <1>15, <2>1 DEF Progress
<1>18. StreamInv(c)'
  <2>1. consumed'[c] <= filled[c]
    BY Zenon, <1>7, <1>8, <1>14
  <2>2. program'[c] = P
    BY Zenon, <1>1 DEF P
  <2>3. \E j \in 0 .. Len(program'[c]) : Progress(program'[c], j, consumed'[c], ran'[c])
    BY Zenon, <1>11, <1>17, <2>2
  <2> QED BY Zenon, <1>0, <1>1, <2>1, <2>3 DEF StreamInv
<1>19. ASSUME NEW d \in Conns \ {c} PROVE StreamInv(d)'
  <2>1. Kept(d)
    BY Zenon, <1>1, <1>14, <1>15 DEF Kept
  <2> QED BY Zenon, <2>1, KeptInv DEF SInv
<1> QED BY Zenon, <1>16, <1>18, <1>19 DEF SInv

\* A reply is written into the bufio.Writer.
AddsReply(c, r) ==
  /\ replies' = [replies EXCEPT ![c] = Append(@, r)]
  /\ out' = [out EXCEPT ![c] = @ \o writeReply(r)]
  /\ UNCHANGED <<program, wire, sent, got, filled, consumed, flushed, ran>>

\* Writing a reply (conn.go, dispatch and the protocol error) keeps the streams in order.
LEMMA ReplyStep ==
  ASSUME SInv, NEW c \in Conns, NEW r \in Reply, AddsReply(c, r)
  PROVE  SInv'
<1> DEFINE R == replies[c]
           o == out[c] \o writeReply(r)
           A == Append(R, r)
<1>0. /\ StreamTypes /\ StreamInv(c) /\ replies[c] \in Seq(Reply) /\ out[c] \in Tokens
      /\ flushed[c] \in Nat
  BY DEF SInv, StreamTypes
<1>1. out[c] = Concat(Wrote(R)) /\ flushed[c] <= Len(out[c])
  BY <1>0 DEF StreamInv
<1>2. /\ A \in Seq(Reply) /\ Concat(Wrote(A)) = o /\ o \in Tokens
      /\ Len(o) = Len(out[c]) + Len(writeReply(r)) /\ writeReply(r) \in Tokens
  BY Zenon, <1>0, <1>1, WroteMore, Joined
<1>3. flushed[c] <= Len(o)
  <2>1. Len(out[c]) \in Nat /\ Len(writeReply(r)) \in Nat
    BY <1>0, <1>2 DEF Tokens
  <2> HIDE DEF o
  <2> QED BY SMT, <1>0, <1>1, <1>2, <2>1
<1>4. /\ replies' = [replies EXCEPT ![c] = A] /\ out' = [out EXCEPT ![c] = o]
      /\ UNCHANGED <<program, wire, sent, got, filled, consumed, flushed, ran>>
  BY DEF AddsReply
<1> HIDE DEF A, o
<1>5. /\ replies' \in [Conns -> Seq(Reply)] /\ replies'[c] = A
      /\ \A d \in Conns \ {c} : replies'[d] = replies[d]
  BY <1>0, <1>2, <1>4, Updated DEF StreamTypes
<1>6. /\ out' \in [Conns -> Tokens] /\ out'[c] = o
      /\ \A d \in Conns \ {c} : out'[d] = out[d]
  BY <1>0, <1>2, <1>4, Updated DEF StreamTypes
<1>7. StreamTypes'
  BY Zenon, <1>0, <1>4, <1>5, <1>6 DEF StreamTypes
<1>8. StreamInv(c)'
  BY Zenon, <1>0, <1>2, <1>3, <1>4, <1>5, <1>6 DEF StreamInv
<1>9. ASSUME NEW d \in Conns \ {c} PROVE StreamInv(d)'
  <2>1. Kept(d)
    BY Zenon, <1>4, <1>5, <1>6 DEF Kept
  <2> QED BY Zenon, <2>1, KeptInv DEF SInv
<1> QED BY Zenon, <1>7, <1>8, <1>9 DEF SInv

\* The socket takes part of what is written.
LEMMA WriteStep ==
  ASSUME SInv, NEW c \in Conns, Write(c)
  PROVE  SInv'
<1> DEFINE n == Lesser(Due(c), SocketBuffer - (flushed[c] - got[c]))
           f == flushed[c] + n
<1>0. /\ StreamTypes /\ StreamInv(c) /\ flushed[c] \in Nat /\ got[c] \in Nat /\ out[c] \in Tokens
      /\ WriteBuffer \in Nat /\ SocketBuffer \in Nat
  BY ServerAssumption DEF SInv, StreamTypes
<1>1. Len(out[c]) \in Nat /\ flushed[c] <= Len(out[c]) /\ got[c] <= flushed[c]
  BY <1>0 DEF Tokens, StreamInv
<1>2. /\ n > 0 /\ flushed' = [flushed EXCEPT ![c] = f]
      /\ UNCHANGED <<program, wire, sent, got, filled, consumed, ran, replies, out>>
  BY DEF Write, client
<1>3. Due(c) \in Nat /\ Due(c) <= Len(out[c]) - flushed[c]
  <2> DEFINE l == Len(out[c])
             g == flushed[c]
             w == WriteBuffer
  <2>1. Due(c) = l - g \/ Due(c) = Greater(0, l - g - w)
    BY Zenon DEF Due, Pending
  <2>2. l \in Nat /\ g \in Nat /\ w \in Nat /\ g <= l
    BY <1>0, <1>1
  <2> HIDE DEF l, g, w
  <2>3. Due(c) \in Nat /\ Due(c) <= l - g
    BY SMT, <2>1, <2>2 DEF Greater
  <2> QED BY <2>3 DEF l, g
<1>4. f \in Nat /\ f <= Len(out[c]) /\ got[c] <= f
  <2> DEFINE l == Len(out[c])
             d == Due(c)
             m == SocketBuffer - (flushed[c] - got[c])
  <2>1. /\ l \in Nat /\ d \in Nat /\ d <= l - flushed[c] /\ m \in Int /\ Lesser(d, m) > 0
        /\ flushed[c] \in Nat /\ got[c] \in Nat /\ got[c] <= flushed[c]
    BY <1>0, <1>1, <1>2, <1>3
  <2> HIDE DEF l, d, m
  <2>2. LET x == flushed[c] + Lesser(d, m) IN x \in Nat /\ x <= l /\ got[c] <= x
    BY SMT, <2>1 DEF Lesser
  <2> QED BY <2>2 DEF l, d, m
<1> HIDE DEF f
<1>5. /\ flushed' \in [Conns -> Nat] /\ flushed'[c] = f
      /\ \A d \in Conns \ {c} : flushed'[d] = flushed[d]
  BY <1>0, <1>2, <1>4 DEF StreamTypes
<1>7. StreamTypes'
  BY Zenon, <1>0, <1>2, <1>5 DEF StreamTypes
<1>8. StreamInv(c)'
  BY Zenon, <1>0, <1>2, <1>4, <1>5 DEF StreamInv
<1>9. ASSUME NEW d \in Conns \ {c} PROVE StreamInv(d)'
  <2>1. Kept(d)
    BY Zenon, <1>2, <1>5 DEF Kept
  <2> QED BY Zenon, <2>1, KeptInv DEF SInv
<1> QED BY Zenon, <1>7, <1>8, <1>9 DEF SInv

\* The other steps leave the streams alone.
LEMMA StreamsKept ==
  ASSUME SInv, UNCHANGED streams
  PROVE  SInv'
BY DEF SInv, StreamTypes, StreamInv, streams

\* Every step of clients, connections and shutdown keeps the streams in order.
LEMMA StreamStep ==
  ASSUME SInv, Next
  PROVE  SInv'
<1>r. Error("protocol") \in Reply /\ Replies \subseteq Reply
  BY RepliesAssumption
<1>1. ASSUME NEW c \in Conns, Client(c) PROVE SInv'
  <2>1. ASSUME Connect(c) \/ HangUp(c) PROVE SInv'
    BY <2>1, StreamsKept DEF Connect, HangUp, streams, stream
  <2>2. ASSUME NEW n \in 1 .. Len(wire[c]) - sent[c], Send(c, n) PROVE SInv'
    BY Zenon, <2>2, SendStep
  <2> QED BY Zenon, <1>1, <2>1, <2>2, ReceiveStep DEF Client
<1>2. ASSUME NEW c \in Conns, serve(c) PROVE SInv'
  <2>1. ASSUME Opened(c) \/ ReadFails(c) \/ Written(c) \/ WriteFails(c) \/ Closed(c) \/ closeConn(c) PROVE SInv'
    BY <2>1, StreamsKept DEF Opened, ReadFails, Written, WriteFails, Closed, closeConn, streams, stream, client
  <2>2. ASSUME Complain(c) PROVE SInv'
    <3>1. AddsReply(c, Error("protocol"))
      BY <2>2 DEF Complain, AddsReply, client
    <3> QED BY Zenon, <1>r, <3>1, ReplyStep
  <2>3. ASSUME NEW r \in Replies, dispatch(c, r) PROVE SInv'
    <3>1. AddsReply(c, r)
      BY <2>3 DEF dispatch, AddsReply, client
    <3>2. r \in Reply
      BY <1>r
    <3> QED BY Zenon, <3>1, <3>2, ReplyStep
  <2> QED BY Zenon, <1>2, <2>1, <2>2, <2>3, FillStep, TakeStep, WriteStep DEF serve
<1>3. ASSUME Boot \/ AcceptFails \/ Waited \/ Finalized \/ Cancel \/ shutdown \/ Reap PROVE SInv'
  BY <1>3, StreamsKept DEF Boot, AcceptFails, Waited, Finalized, Cancel, shutdown, Reap, streams, stream, client
<1>4. ASSUME NEW c \in Conns, Accept(c) \/ startConn(c) PROVE SInv'
  BY <1>4, StreamsKept DEF Accept, startConn, streams, stream
<1>5. ASSUME NEW l \in Loops, LoopEnds(l) PROVE SInv'
  BY <1>5, StreamsKept DEF LoopEnds, streams, stream, client
<1> QED BY Zenon, <1>1, <1>2, <1>3, <1>4, <1>5 DEF Next, Serve

\* Nothing has been sent or read in the beginning.
LEMMA StreamInit ==
  ASSUME Init
  PROVE  SInv
<1>1. StreamTypes
  <2>1. <<>> \in Seq(Seq(Tokens)) /\ <<>> \in Seq(Reply) /\ <<>> \in Tokens
    BY DEF Tokens
  <2> QED BY <2>1 DEF Init, StreamTypes
<1>2. ASSUME NEW c \in Conns PROVE StreamInv(c)
  <2> DEFINE P == program[c]
  <2>1. Proper(P) /\ Len(wire[c]) \in Nat /\ Len(P) \in Nat
    BY Zenon, <1>1, ProgramsProper
  <2>2. 0 \in 0 .. Len(P)
    BY SMT, <2>1
  <2>3. Before(P, 0) = 0 /\ Commands(P, 0) = <<>>
    BY Zenon, <2>1, <2>2, BeforeIs, CommandsStep
  <2>4. \A i \in 1 .. 0 : ~Broken(P[i])
    BY SMT
  <2>5. Progress(P, 0, 0, <<>>)
    BY Zenon, <2>3, <2>4 DEF Progress
  <2>6. Concat(Wrote(<<>>)) = <<>>
    <3>1. <<>> \in Seq(Reply) /\ Len(<<>>) = 0
      OBVIOUS
    <3>2. Concat(Wrote(<<>>)) = ConcatTo(Wrote(<<>>), Len(<<>>))
      BY Zenon, <3>1, WroteIs
    <3>3. ConcatTo(Wrote(<<>>), 0) = <<>>
      BY ConcatToStep
    <3> QED BY Zenon, <3>1, <3>2, <3>3
  <2>7. /\ sent[c] = 0 /\ got[c] = 0 /\ filled[c] = 0 /\ consumed[c] = 0 /\ flushed[c] = 0
        /\ ran[c] = <<>> /\ replies[c] = <<>> /\ out[c] = <<>>
    BY DEF Init
  <2>8. 0 <= 0 /\ 0 <= Len(wire[c]) /\ 0 <= Len(<<>>)
    BY SMT, <2>1
  <2> QED BY Zenon, <2>2, <2>5, <2>6, <2>7, <2>8 DEF StreamInv
<1> QED BY <1>1, <1>2 DEF SInv

\* The streams of all connections are in order in every state of every execution.
THEOREM Streams == Spec => []SInv
<1>1. SInv /\ [Next]_vars => SInv'
  <2>1. CASE SInv /\ UNCHANGED vars
    BY <2>1, StreamsKept DEF vars, client, stream, streams
  <2> QED BY <2>1, StreamStep
<1> QED BY <1>1, StreamInit, PTL DEF Spec

\* A connection runs the commands that its client sent, in order and none twice, until a
\* broken request, however the stream is cut into packets; and the client reads exactly the
\* replies written for it, in order, from however much of them has arrived (conn.go,
\* reader.go, writer.go, memcore.go).
THEOREM FramedHolds == Spec => []Framed
<1>1. ASSUME SInv PROVE Framed
  <2>1. ASSUME NEW c \in Conns
        PROVE  \E n \in 0 .. Len(program[c]) :
                 ran[c] = Commands(program[c], n) /\ \A i \in 1 .. n : ~Broken(program[c][i])
    <3>1. PICK k \in 0 .. Len(program[c]) : Progress(program[c], k, consumed[c], ran[c])
      BY <1>1 DEF SInv, StreamInv
    <3> QED BY Zenon, <3>1 DEF Progress
  <2>2. ASSUME NEW c \in Conns, NEW n \in 1 .. Len(replies[c]) + 1
        PROVE  Delivered(replies[c], SubSeq(out[c], 1, got[c]), n, ~(got[c] < Len(out[c])))
    <3>1. replies[c] \in Seq(Reply) /\ got[c] \in Nat /\ flushed[c] \in Nat /\ out[c] \in Tokens
      BY <1>1 DEF SInv, StreamTypes
    <3>2. out[c] = Concat(Wrote(replies[c])) /\ got[c] <= flushed[c] /\ flushed[c] <= Len(out[c])
      BY <1>1 DEF SInv, StreamInv
    <3>3. Len(out[c]) \in Nat
      BY <3>1 DEF Tokens
    <3>4. got[c] <= Len(out[c])
      BY SMT, <3>1, <3>2, <3>3
    <3> QED BY Zenon, <3>1, <3>2, <3>4, SomeRead
  <2> QED BY Zenon, <2>1, <2>2 DEF Framed, Delivered
<1> QED BY <1>1, Streams, PTL
=============================================================================
