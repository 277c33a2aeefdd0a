------------------------------ MODULE Settings ------------------------------
(***************************************************************************)
(* config.Settings: the reloadable parameters behind an atomic pointer,    *)
(* with CONFIG SET and CONFIG GET.  CONFIG takes no lock, so the Load and  *)
(* the Store of one Set may have another's between them.  Milliseconds are *)
(* the unit of the threshold.                                              *)
(***************************************************************************)
EXTENDS Integers, TLC

CONSTANTS Conns,
          Texts,      \* what clients give as values
          MaxNumber   \* bound: the greatest number among them

VARIABLES v,      \* what the pointer points to
          next,   \* the changed copy of a Set that has not stored it yet
          pc,     \* where the Set of each connection is: idle, or its parameter
          asked   \* what the Sets that have returned asked for

vars == <<v, next, pc, asked>>

paramSlowThreshold == "slowlog-threshold-ms"
paramExpirySample  == "expiry-sample-per-shard"
paramSlowLog       == "slowlog-enabled"
Params             == {paramSlowThreshold, paramExpirySample, paramSlowLog}

Yes == {"yes", "1", "true"}
No  == {"no", "0", "false"}

\* strconv.Atoi, on what is not negative, and parseBoolParam: the values that a
\* text may stand for.
Parsed(p, text) ==
  IF p = paramSlowLog
    THEN {b \in BOOLEAN : text \in (IF b THEN Yes ELSE No)}
    ELSE {n \in 0 .. MaxNumber : ToString(n) = text}

Init ==
  /\ v = (paramSlowThreshold :> 1 @@ paramExpirySample :> 1 @@ paramSlowLog :> TRUE)
  /\ asked = v /\ next = [c \in Conns |-> v] /\ pc = [c \in Conns |-> "idle"]

\* Set loads the parameters and changes its copy.  An unknown name or a bad value
\* ends it here, with an error.  (A threshold stays in milliseconds.)
SetLoad(c, p, text) ==
  /\ pc[c] = "idle"
  /\ \E x \in Parsed(p, text) : next' = [next EXCEPT ![c] = [v EXCEPT ![p] = x]]
  /\ pc' = [pc EXCEPT ![c] = p]
  /\ UNCHANGED <<v, asked>>

\* It stores the copy, and CONFIG SET answers OK.
SetStore(c) ==
  /\ pc[c] # "idle"
  /\ v' = next[c]
  /\ asked' = [asked EXCEPT ![pc[c]] = next[c][pc[c]]]
  /\ pc' = [pc EXCEPT ![c] = "idle"]
  /\ UNCHANGED next

boolParam(b) == IF b THEN "yes" ELSE "no"

Shown(p, x) == IF p = paramSlowLog THEN boolParam(x) ELSE ToString(x)

\* What CONFIG GET answers for "*", and for one parameter.
All    == [p \in Params |-> Shown(p, v[p])]
Get(p) == IF p \in Params THEN <<p, All[p]>> ELSE <<>>

Next == \E c \in Conns : SetStore(c) \/ \E p \in Params, text \in Texts : SetLoad(c, p, text)

Spec == Init /\ [][Next]_vars

\* "a CONFIG SET is visible to subsequent commands without locking. It is safe
\* for concurrent use" (settings.go:19-20): CONFIG GET shows, for every parameter,
\* what the last CONFIG SET of it asked for.
SetsVisible == \A p \in Params : Get(p) = <<p, Shown(p, asked[p])>>
=============================================================================
