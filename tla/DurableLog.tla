----------------------------- MODULE DurableLog -----------------------------
(***************************************************************************)
(* What persistence promises when files obey and only the process may die: *)
(* a database whose writes are never reordered, forgotten or brought back  *)
(* while it runs, and that loses by a crash the latest writes only, none   *)
(* of them promised.  Module AppendLog implements it.                      *)
(***************************************************************************)
EXTENDS Integers

VARIABLES up,        \* does the server run?
          state,     \* the writes whose effect it has, or will have after boot
          promised,  \* the writes declared durable
          next       \* number of the next write

vars == <<up, state, promised, next>>

Init == up = FALSE /\ state = {} /\ promised = {} /\ next = 1

Write ==
  /\ up
  /\ state' = state \cup {next}
  /\ next' = next + 1
  /\ UNCHANGED <<up, promised>>

Promise ==
  /\ up
  /\ promised \subseteq promised' /\ promised' \subseteq state
  /\ UNCHANGED <<up, state, next>>

\* Every write that is lost comes after every write that is kept.
Crash ==
  /\ up /\ up' = FALSE
  /\ promised \subseteq state' /\ state' \subseteq state
  /\ \A kept \in state', gone \in state \ state' : kept < gone
  /\ UNCHANGED <<promised, next>>

Stop == up /\ up' = FALSE /\ UNCHANGED <<state, promised, next>>

Boot == ~up /\ up' = TRUE /\ UNCHANGED <<state, promised, next>>

Next == Write \/ Promise \/ Crash \/ Stop \/ Boot

Spec == Init /\ [][Next]_vars
=============================================================================
