--------------------------- MODULE MCDrdaConnection ---------------------------
(* DrdaConnection with what the database produces for two statements.  *)
EXTENDS DrdaConnection, TLC

CONSTANTS s1, s2

Query(n, ok) == [sets |-> <<[columns |-> TRUE, rows |-> n]>>, ok |-> ok, reliable |-> FALSE]
Update(ok)   == [sets |-> <<[columns |-> FALSE, rows |-> 0]>>, ok |-> ok, reliable |-> FALSE]
Case(auto, a, b) == [autoCommit |-> auto, results |-> (s1 :> a) @@ (s2 :> b)]

(* A query or an update beside a query, each of which may fail.             *)
MCCases ==
  {Case(TRUE, Query(1, FALSE), Update(TRUE)), Case(FALSE, Query(1, TRUE), Update(FALSE)),
   Case(FALSE, Query(0, TRUE), Query(0, FALSE))}

MCSections == 1..3

(* The cursor of every statement is a ResultCursor, however the statements  *)
(* interleave on the connection, wherever a block ends and wherever the     *)
(* connection breaks or is closed.                                          *)
First  == INSTANCE ResultCursor WITH result <- results[s1], message <- message[s1], place <- place[s1]
Second == INSTANCE ResultCursor WITH result <- results[s2], message <- message[s2], place <- place[s2]
ImplementsResultCursor == First!Spec /\ Second!Spec
===============================================================================
