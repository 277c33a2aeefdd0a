------------------------------- MODULE Server -------------------------------
(***************************************************************************)
(* server.Server: the accept loop, one goroutine per connection, the       *)
(* background loops, and shutdown; with the clients at the other end of    *)
(* the sockets.                                                            *)
(*                                                                         *)
(* What a client sends is fixed beforehand, Programs giving one list of    *)
(* requests per connection; when, and cut into which packets, is not.  So  *)
(* a byte stream is known by positions in it: the first sent[c] tokens     *)
(* have left the client, filled[c] of them are in, or have been through,   *)
(* the bufio.Reader, and consumed[c] have been parsed.  Likewise for the   *)
(* replies: flushed[c] tokens were written to the socket, got[c] have been *)
(* read by the client.  What a command does to the data is left to the     *)
(* modules Execute and Database: here it runs and has some reply.          *)
(***************************************************************************)
EXTENDS Resp, FiniteSets

CONSTANTS Conns,         \* the connections that clients may open
          Programs,      \* for each connection, what its client may send
          Replies,       \* the replies that commands may have
          Loops,         \* the background loops that Serve starts
          WriteBuffer,   \* writeBufferSize
          SocketBuffer,  \* tokens that a socket holds for a slow client
          ReaperBuffer   \* reaperBuffer

ASSUME ServerAssumption ==
  IsFiniteSet(Conns) /\ WriteBuffer \in Nat /\ SocketBuffer \in Nat

VARIABLES
  program,   \* what the clients are going to send,
  wire,      \* and the tokens that it comes to
  serving,   \* where Run and Serve are
  canceled,  \* has the context been canceled?
  closing,   \* Server.closing; the listener is closed with it
  loops,     \* background loops that run
  reaper,    \* number of values queued for the reaper
  tracked,   \* Server.conns
  gauge,     \* the metric of open connections
  sock,      \* the state of each socket
  sent, got, \* what the client has sent and read
  fin,       \* has the client closed its side?
  pc,        \* where the connection's goroutine is
  deadline,  \* has the read deadline been tripped?
  filled, consumed, flushed,
  ran,       \* the commands dispatched
  replies,   \* the replies to them,
  out        \* and the tokens written into the bufio.Writer

server  == <<serving, canceled, closing, loops, reaper, tracked, gauge>>
client  == <<program, wire, sock, sent, got, fin>>
stream  == <<filled, consumed, flushed, ran, replies, out>>
vars    == <<server, client, pc, deadline, stream>>

-----------------------------------------------------------------------------
(* The streams. *)

\* A request is a command in one of the two forms, or raw tokens.
Request ==
  [form : {"bulk", "inline"}, args : Seq(Seq(Token))] \cup [form : {"raw"}, tokens : Seq(Token)]

Encoded(r) ==
  CASE r.form = "bulk"   -> writeCommand(r.args)
    [] r.form = "inline" ->
         Concat([i \in DOMAIN r.args |-> r.args[i] \o <<IF i = Len(r.args) THEN "crlf" ELSE "sp">>])
    [] r.form = "raw"    -> r.tokens

Stream(requests) == Concat([i \in DOMAIN requests |-> Encoded(requests[i])])

\* A command has a name, counts are numbers, and an inline command is words.  Raw
\* tokens are no command; if they are a whole request, it is an empty one.
Possible(r) ==
  CASE r.form = "bulk" ->
         /\ r.args # <<>> /\ Len(r.args) \in Counts
         /\ \A i \in DOMAIN r.args : Len(r.args[i]) \in Counts
    [] r.form = "inline" ->
         /\ r.args # <<>> /\ r.args[1] # <<"*">>
         /\ \A i \in DOMAIN r.args : Len(r.args[i]) = 1 /\ r.args[i][1] \in Word \ {"sp"}
    [] r.form = "raw" ->
         ReadRequest(r.tokens).st = "ok" => ReadRequest(r.tokens) = Ok(Len(r.tokens) + 1, <<>>)

\* Raw tokens that are not RESP, or only the beginning of a request.
Broken(r) == r.form = "raw" /\ ReadRequest(r.tokens).st # "ok"
CutOff(r) == r.form = "raw" /\ ReadRequest(r.tokens).st = "more"

\* A client that sends only the beginning of a request sends nothing after it.
ASSUME ProgramsAssumption ==
  /\ Programs \subseteq [Conns -> Seq(Request)]
  /\ \A p \in Programs, c \in Conns : \A i \in DOMAIN p[c] :
       Possible(p[c][i]) /\ (CutOff(p[c][i]) => i = Len(p[c]))

ASSUME RepliesAssumption == Replies \cup {Error("protocol")} \subseteq Reply

Buffered(c) == SubSeq(wire[c], consumed[c] + 1, filled[c])
Parsed(c)   == CHOOSE r \in {ReadRequest(s) : s \in {Buffered(c)}} : TRUE

Pending(c) == Len(out[c]) - flushed[c]

Lesser(a, b)  == IF a < b THEN a ELSE b
Greater(a, b) == IF a < b THEN b ELSE a

-----------------------------------------------------------------------------
(* The clients. *)

\* A client that has something to send.
Connect(c) ==
  /\ program[c] # <<>>
  /\ sock[c] = "none" /\ serving = "accepting" /\ ~closing
  /\ sock' = [sock EXCEPT ![c] = "backlog"]
  /\ UNCHANGED <<server, program, wire, sent, got, fin, pc, deadline, stream>>

\* A packet of n tokens.
Send(c, n) ==
  /\ sock[c] \in {"backlog", "held", "open"} /\ ~fin[c]
  /\ sent' = [sent EXCEPT ![c] = @ + n]
  /\ UNCHANGED <<server, program, wire, sock, got, fin, pc, deadline, stream>>

HangUp(c) ==
  /\ sock[c] \in {"backlog", "held", "open"} /\ ~fin[c]
  /\ fin' = [fin EXCEPT ![c] = TRUE]
  /\ UNCHANGED <<server, program, wire, sock, sent, got, pc, deadline, stream>>

Receive(c) ==
  /\ got[c] < flushed[c]
  /\ got' = [got EXCEPT ![c] = flushed[c]]
  /\ UNCHANGED <<server, program, wire, sock, sent, fin, pc, deadline, stream>>

-----------------------------------------------------------------------------
(* Run and Serve. *)

\* Recovery and Listen, and the background loops of Serve; or an error of one
\* of the first two.
Boot ==
  /\ serving = "booting"
  /\ \/ serving' = "accepting" /\ loops' = Loops
     \/ serving' = "failed" /\ UNCHANGED loops
  /\ UNCHANGED <<canceled, closing, reaper, tracked, gauge, client, pc, deadline, stream>>

Holding == \E c \in Conns : sock[c] = "held"

Accept(c) ==
  /\ serving = "accepting" /\ ~closing /\ ~Holding
  /\ sock[c] = "backlog"
  /\ sock' = [sock EXCEPT ![c] = "held"]
  /\ UNCHANGED <<server, program, wire, sent, got, fin, pc, deadline, stream>>

\* Mutant: the connection is registered without a look at closing.
startConnBlindly(c) ==
  /\ sock[c] = "held"
  /\ sock' = [sock EXCEPT ![c] = "open"]
  /\ tracked' = tracked \cup {c}
  /\ pc' = [pc EXCEPT ![c] = "started"]
  /\ UNCHANGED <<serving, canceled, closing, loops, reaper, gauge, program, wire, sent, got, fin,
                 deadline, stream>>

\* startConn: under mu, the connection is registered and its goroutine counted,
\* unless shutdown came first.
startConn(c) ==
  /\ sock[c] = "held"
  /\ IF closing
       THEN /\ sock' = [sock EXCEPT ![c] = "closed"]
            /\ UNCHANGED <<tracked, pc>>
       ELSE /\ sock' = [sock EXCEPT ![c] = "open"]
            /\ tracked' = tracked \cup {c}
            /\ pc' = [pc EXCEPT ![c] = "started"]
  /\ UNCHANGED <<serving, canceled, closing, loops, reaper, gauge, program, wire, sent, got, fin,
                 deadline, stream>>

\* The signal that cancels the context.
Cancel ==
  /\ serving \notin {"failed", "stopped"} /\ ~canceled
  /\ canceled' = TRUE
  /\ UNCHANGED <<serving, closing, loops, reaper, tracked, gauge, client, pc, deadline, stream>>

\* Mutant: no deadline is set.
shutdownSilent ==
  /\ canceled /\ serving # "booting" /\ ~closing
  /\ closing' = TRUE
  /\ sock' = [c \in Conns |-> IF sock[c] = "backlog" THEN "closed" ELSE sock[c]]
  /\ UNCHANGED <<serving, canceled, loops, reaper, tracked, gauge, program, wire, sent, got, fin, pc,
                 deadline, stream>>

\* shutdown, under mu.  Closing the listener resets the connections that were
\* not accepted.
shutdown ==
  /\ canceled /\ serving # "booting" /\ ~closing
  /\ closing' = TRUE
  /\ sock' = [c \in Conns |-> IF sock[c] = "backlog" THEN "closed" ELSE sock[c]]
  /\ deadline' = [c \in Conns |-> deadline[c] \/ c \in tracked]
  /\ UNCHANGED <<serving, canceled, loops, reaper, tracked, gauge, program, wire, sent, got, fin, pc,
                 stream>>

\* A background loop sees that the context is canceled.
LoopEnds(l) ==
  /\ l \in loops /\ canceled
  /\ loops' = loops \ {l}
  /\ UNCHANGED <<serving, canceled, closing, reaper, tracked, gauge, client, pc, deadline, stream>>

\* runReaper.
Reap ==
  /\ "reaper" \in loops /\ reaper > 0
  /\ reaper' = reaper - 1
  /\ UNCHANGED <<serving, canceled, closing, loops, tracked, gauge, client, pc, deadline, stream>>

\* Accept fails: only a closed listener ends the loop.
AcceptFails ==
  /\ serving = "accepting" /\ closing /\ ~Holding
  /\ serving' = "waiting"
  /\ UNCHANGED <<canceled, closing, loops, reaper, tracked, gauge, client, pc, deadline, stream>>

\* Mutant: Serve waits for the background loops only.
WaitedForLoops ==
  /\ serving = "waiting" /\ loops = {}
  /\ serving' = "finalizing"
  /\ UNCHANGED <<canceled, closing, loops, reaper, tracked, gauge, client, pc, deadline, stream>>

\* wg.Wait returns when the loops and the connections' goroutines are done.
Waited ==
  /\ serving = "waiting" /\ loops = {} /\ \A c \in Conns : pc[c] \in {"none", "done"}
  /\ serving' = "finalizing"
  /\ UNCHANGED <<canceled, closing, loops, reaper, tracked, gauge, client, pc, deadline, stream>>

\* finalizePersistence (module AppendLog).
Finalized ==
  /\ serving = "finalizing"
  /\ serving' = "stopped"
  /\ UNCHANGED <<canceled, closing, loops, reaper, tracked, gauge, client, pc, deadline, stream>>

-----------------------------------------------------------------------------
(* serve: the goroutine of a connection. *)

Opened(c) ==
  /\ pc[c] = "started"
  /\ gauge' = gauge + 1
  /\ pc' = [pc EXCEPT ![c] = "reading"]
  /\ UNCHANGED <<serving, canceled, closing, loops, reaper, tracked, client, deadline, stream>>

\* ReadRequest needs more and reads from the socket: all that is there.
Fill(c) ==
  /\ pc[c] = "reading" /\ Parsed(c).st = "more"
  /\ ~deadline[c] /\ filled[c] < sent[c]
  /\ filled' = [filled EXCEPT ![c] = sent[c]]
  /\ UNCHANGED <<server, client, pc, deadline, consumed, flushed, ran, replies, out>>

\* It cannot: the deadline has passed, though there may be data, or the client
\* is gone.  handleReadError returns without a flush.
ReadFails(c) ==
  /\ pc[c] = "reading" /\ Parsed(c).st = "more"
  /\ deadline[c] \/ (fin[c] /\ filled[c] = sent[c])
  /\ pc' = [pc EXCEPT ![c] = "ending"]
  /\ UNCHANGED <<server, client, deadline, stream>>

\* A request; the empty ones are passed over.
Take(c) ==
  LET r == Parsed(c) IN
  /\ pc[c] = "reading" /\ r.st = "ok"
  /\ consumed' = [consumed EXCEPT ![c] = @ + r.at - 1]
  /\ IF r.val = <<>>
       THEN UNCHANGED <<pc, ran>>
       ELSE /\ pc' = [pc EXCEPT ![c] = "running"]
            /\ ran' = [ran EXCEPT ![c] = Append(@, r.val)]
  /\ UNCHANGED <<server, client, deadline, filled, flushed, replies, out>>

\* handleReadError on a violation of the protocol.
Complain(c) ==
  /\ pc[c] = "reading" /\ Parsed(c).st = "bad"
  /\ replies' = [replies EXCEPT ![c] = Append(@, Error("protocol"))]
  /\ out' = [out EXCEPT ![c] = @ \o writeReply(Error("protocol"))]
  /\ pc' = [pc EXCEPT ![c] = "complaining"]
  /\ UNCHANGED <<server, client, deadline, filled, consumed, flushed, ran>>

\* reapAsync: a freed value is queued, or dropped if the queue is full.
reapAsync == Lesser(reaper + 1, ReaperBuffer)

\* dispatch and WriteReply.  A command may free a value.
dispatch(c, r) ==
  /\ pc[c] = "running"
  /\ reaper' \in {reaper, reapAsync}
  /\ replies' = [replies EXCEPT ![c] = Append(@, r)]
  /\ out' = [out EXCEPT ![c] = @ \o writeReply(r)]
  /\ pc' = [pc EXCEPT ![c] = "writing"]
  /\ UNCHANGED <<serving, canceled, closing, loops, tracked, gauge, client, deadline, filled,
                 consumed, flushed, ran>>

\* Mutant: replies wait until the bufio.Writer is full.
DueWhenFull(c) ==
  IF pc[c] = "complaining" THEN Pending(c) ELSE Greater(0, Pending(c) - WriteBuffer)

\* What must be written to the socket now: everything, if nothing more is
\* buffered, and else what the bufio.Writer cannot hold.
Due(c) ==
  IF consumed[c] = filled[c] \/ pc[c] = "complaining" THEN Pending(c)
  ELSE Greater(0, Pending(c) - WriteBuffer)

\* The socket takes as much as fits.
Write(c) ==
  LET n == Lesser(Due(c), SocketBuffer - (flushed[c] - got[c])) IN
  /\ pc[c] \in {"writing", "complaining"} /\ n > 0
  /\ flushed' = [flushed EXCEPT ![c] = @ + n]
  /\ UNCHANGED <<server, client, pc, deadline, filled, consumed, ran, replies, out>>

Written(c) ==
  /\ pc[c] \in {"writing", "complaining"} /\ Due(c) = 0
  /\ pc' = [pc EXCEPT ![c] = IF @ = "writing" THEN "reading" ELSE "ending"]
  /\ UNCHANGED <<server, client, deadline, stream>>

WriteFails(c) ==
  /\ pc[c] \in {"writing", "complaining"} /\ Due(c) > 0 /\ fin[c]
  /\ pc' = [pc EXCEPT ![c] = "ending"]
  /\ UNCHANGED <<server, client, deadline, stream>>

\* The deferred ConnectionClosed, then closeConn.
Closed(c) ==
  /\ pc[c] = "ending"
  /\ gauge' = gauge - 1
  /\ pc' = [pc EXCEPT ![c] = "closing"]
  /\ UNCHANGED <<serving, canceled, closing, loops, reaper, tracked, client, deadline, stream>>

closeConn(c) ==
  /\ pc[c] = "closing"
  /\ tracked' = tracked \ {c}
  /\ sock' = [sock EXCEPT ![c] = "closed"]
  /\ pc' = [pc EXCEPT ![c] = "done"]
  /\ UNCHANGED <<serving, canceled, closing, loops, reaper, gauge, program, wire, sent, got, fin,
                 deadline, stream>>

-----------------------------------------------------------------------------
Init ==
  /\ program \in Programs /\ wire = [c \in Conns |-> Stream(program[c])]
  /\ serving = "booting" /\ canceled = FALSE /\ closing = FALSE
  /\ loops = {} /\ reaper = 0 /\ tracked = {} /\ gauge = 0
  /\ sock = [c \in Conns |-> "none"] /\ pc = [c \in Conns |-> "none"]
  /\ deadline = [c \in Conns |-> FALSE] /\ fin = [c \in Conns |-> FALSE]
  /\ sent = [c \in Conns |-> 0] /\ got = [c \in Conns |-> 0]
  /\ filled = [c \in Conns |-> 0] /\ consumed = [c \in Conns |-> 0]
  /\ flushed = [c \in Conns |-> 0]
  /\ ran = [c \in Conns |-> <<>>] /\ replies = [c \in Conns |-> <<>>]
  /\ out = [c \in Conns |-> <<>>]

Client(c) ==
  \/ Connect(c) \/ HangUp(c) \/ Receive(c)
  \/ \E n \in 1 .. Len(wire[c]) - sent[c] : Send(c, n)

serve(c) ==
  \/ Opened(c) \/ Fill(c) \/ ReadFails(c) \/ Take(c) \/ Complain(c)
  \/ \E r \in Replies : dispatch(c, r)
  \/ Write(c) \/ Written(c) \/ WriteFails(c) \/ Closed(c) \/ closeConn(c)

Serve ==
  \/ Boot \/ AcceptFails \/ Waited \/ Finalized
  \/ \E c \in Conns : Accept(c) \/ startConn(c)

Next ==
  \/ \E c \in Conns : Client(c) \/ serve(c)
  \/ Serve \/ Cancel \/ shutdown \/ Reap
  \/ \E l \in Loops : LoopEnds(l)

Spec == Init /\ [][Next]_vars

\* Goroutines are scheduled.  Of the clients it is assumed that they read what
\* they are sent.
Fairness ==
  /\ WF_vars(Serve) /\ WF_vars(shutdown)
  /\ \A l \in Loops : WF_vars(LoopEnds(l))
  /\ \A c \in Conns : WF_vars(serve(c)) /\ WF_vars(Receive(c))

FairSpec == Spec /\ Fairness

-----------------------------------------------------------------------------
(* Correctness. *)

\* The commands among the first n requests.
Commands(requests, n) ==
  ConcatTo([i \in DOMAIN requests |-> IF requests[i].form = "raw" THEN <<>> ELSE <<requests[i].args>>], n)

\* However TCP cuts the stream, the commands that run are those of the first
\* requests, up to one that is not RESP, and what the client's calls of Do return
\* is their replies, in that order, as soon as they are there (reader.go:23-26).
Framed ==
  \A c \in Conns :
    /\ \E n \in 0 .. Len(program[c]) :
         ran[c] = Commands(program[c], n) /\ \A i \in 1 .. n : ~Broken(program[c][i])
    /\ \A s \in {SubSeq(out[c], 1, got[c])}, n \in 1 .. Len(replies[c]) + 1 :
         \A r \in {readReplies(s, n)} :
           \/ r.st = "ok" /\ n <= Len(replies[c]) /\ r.val = SubSeq(Seen(replies[c]), 1, n)
           \/ r.st = "more" /\ (n > Len(replies[c]) \/ got[c] < Len(out[c]))

\* A connection whose goroutine runs is registered, and after shutdown its
\* deadline is set: none slips through between Accept and shutdown
\* (server.go:190-198, 223-236).
Tracked ==
  \A c \in Conns :
    /\ c \in tracked <=> pc[c] \notin {"none", "done"}
    /\ closing /\ c \in tracked => deadline[c]

\* finalizePersistence runs alone: no loop or connection is left, and every
\* socket is closed, that could add to the log (server.go:161-166).
FinalAlone ==
  serving \in {"finalizing", "stopped"} =>
    /\ loops = {} /\ tracked = {} /\ gauge = 0
    /\ \A c \in Conns : sock[c] \in {"none", "closed"}

\* "stops accepting, drains in-flight connections, and returns"
\* (server.go:123-124), if the clients read their replies.
Drains == canceled ~> serving \in {"failed", "stopped"}

\* The client's requests are all commands, none empty, cut off or wrong.
Tidy(c) == \A i \in DOMAIN program[c] : program[c][i].form # "raw"

\* Held-back replies are not forgotten: a client that has sent its commands, and
\* nothing else, gets all the replies (conn.go:49-55).
Answered ==
  \A c \in Conns :
    Tidy(c) /\ sent[c] = Len(wire[c]) /\ pc[c] \notin {"none", "done"}
      ~> \/ Len(replies[c]) = Len(program[c]) /\ got[c] = Len(out[c])
         \/ canceled \/ fin[c]

\* "A command already in flight finishes and writes its reply before the
\* connection's next read returns the deadline error" (server.go:220-222).
RepliesBeforeDeadline ==
  \A c \in Conns :
    pc[c] \in {"ending", "closing", "done"} /\ ~fin[c] => flushed[c] = Len(out[c])
=============================================================================
