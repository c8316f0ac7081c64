------------------------------ MODULE ResponseLog ------------------------------
(***************************************************************************)
(* What the log of a tenant promises (BaseTestCase::write_logfile,         *)
(* src/src/testcases.cpp): one row per request and connection, in the      *)
(* order of sending.  A row is open until its answer or a later one comes, *)
(* which makes the open rows before it gaps; a gap may still get its       *)
(* answer.  An answer is never taken back, and one answer never gives      *)
(* more than one row its time.                                             *)
(***************************************************************************)
EXTENDS Sequences, Naturals

CONSTANT Connections

VARIABLE log     \* log[c][k], the state of row k of connection c

Init == log = [c \in Connections |-> <<>>]

Ask(c) == log' = [log EXCEPT ![c] = Append(@, "open")]

\* The answer to row r, late when the row is a gap.
Answer(c, r) ==
    /\ log[c][r] # "answered"
    /\ log' = [log EXCEPT ![c] =
          [k \in DOMAIN @ |->
              IF k = r THEN "answered"
              ELSE IF k < r /\ @[k] = "open" THEN "gap"
              ELSE @[k]]]

Next ==
    \E c \in Connections :
       \/ Ask(c)
       \/ \E r \in DOMAIN log[c] : Answer(c, r)

Spec == Init /\ [][Next]_log
=============================================================================
