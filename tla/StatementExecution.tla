--------------------------- MODULE StatementExecution ---------------------------
(***************************************************************************)
(* A StatementRunner that reads the cursor of each of the drivers: MySQL   *)
(* by events, PostgreSQL by batches, SQLite and results in memory by calls *)
(* (DRDA is in DrdaConnection).                                            *)
(***************************************************************************)
EXTENDS StatementRunner

CONSTANTS
  MaxRows,        \* bound of the rows of a result set
  BatchSize       \* BATCH of the MySQL and the PostgreSQL cursor

ASSUME ExecutionAssumption == MaxRows \in Nat /\ BatchSize \in Nat \ {0}

VARIABLES
  driver,         \* whose cursor is read
  produced,       \* what the database produces for the statement
  wire, cursor    \* as in the modules of the cursors

vars == <<cursorVars, runnerVars, driver, produced, wire, cursor>>

Drivers == {"MYSQL", "POSTGRESQL", "SQLITE", "memory"}

MySql    == INSTANCE MySqlCursor WITH Batch <- BatchSize
Postgres == INSTANCE PostgresCursor WITH Batch <- BatchSize
Local    == INSTANCE IteratorCursor

ResultSet(rows) == [columns |-> TRUE, rows |-> rows]
NoColumns       == [columns |-> FALSE, rows |-> 0]

(* One statement that returns no rows, one result set, or the two of a      *)
(* procedure, which only MySQL and results in memory have.                  *)
Produced ==
  [sets: {<<NoColumns>>} \union {<<ResultSet(n)>> : n \in 0..MaxRows}
           \union {<<ResultSet(n), ResultSet(m)>> : n, m \in 0..MaxRows \ {0}},
   ok: BOOLEAN, reliable: BOOLEAN]

(* A result in memory has been read to its end; PostgreSQL's connection can *)
(* fail at any call; MySQL's further result sets are not returned.          *)
Possible(d, p) ==
  /\ Len(p.sets) > 1 => d \in {"MYSQL", "memory"}
  /\ d = "memory" => p.ok
  /\ ~p.reliable => d = "POSTGRESQL"

Returned(d, p) == IF d = "MYSQL" THEN [p EXCEPT !.sets = <<Head(@)>>] ELSE p

Init ==
  /\ RunnerInit
  /\ driver \in Drivers
  /\ produced \in {p \in Produced : Possible(driver, p)}
  /\ result = Returned(driver, produced)
  /\ message = Answer("none")
  /\ place = [set |-> 1, given |-> 0]
  /\ wire = IF driver = "MYSQL" THEN MySql!Packets(produced) ELSE <<>>
  /\ cursor = CASE driver = "MYSQL"      -> MySql!New
                [] driver = "POSTGRESQL" -> Postgres!New
                [] OTHER                 -> <<>>

CursorNext ==
  \/ driver = "MYSQL" /\ MySql!MySqlNext
  \/ driver = "POSTGRESQL" /\ Postgres!PostgresNext /\ UNCHANGED wire
  \/ driver \in {"SQLITE", "memory"} /\ Local!IteratorNext /\ UNCHANGED <<wire, cursor>>

Run     == RunnerNext /\ UNCHANGED <<result, place, driver, produced, wire, cursor>>
Deliver == CursorNext /\ UNCHANGED <<runnerVars, driver, produced>>

Next == Run \/ Deliver

(* The event loop runs what can go on, and the database sends all of its    *)
(* answer: a lost connection is an error event, too.                        *)
Fairness == WF_vars(Run) /\ WF_vars(Deliver)

Spec == Init /\ [][Next]_vars /\ Fairness
-------------------------------------------------------------------------------
TypeOK ==
  /\ RunnerTypeOK
  /\ driver \in Drivers
  /\ produced \in Produced
  /\ place \in [set: 1..2, given: 0..MaxRows]
  /\ message \in [to: {"cursor"}, what: Calls, row: {0}]
                   \union [to: {"runner"}, what: Answers, row: 0..MaxRows]

(* Every driver's cursor is a ResultCursor: the rows in order and once, no  *)
(* end before the end, none for a result that failed, no call unanswered.   *)
Promise == INSTANCE ResultCursor
ImplementsResultCursor == Promise!Spec

(* What the user is shown of a result set: the rows of the window, in       *)
(* order; that the end was found exactly when all rows were counted; and    *)
(* otherwise a count that stops at the look-ahead, or at the first row past *)
(* the window when nothing is counted.                                      *)
WindowIsTrue ==
  \A i \in DOMAIN resultSet :
    LET rows == result.sets[i].rows
        from == options.fromRow
        shown == resultSet[i]
        last == from + options.maxRows
    IN  /\ shown.data = [k \in 1..Len(shown.data) |-> from + k]
        /\ result.sets[i].columns =>
             Len(shown.data) = IF rows <= from THEN 0
                               ELSE IF rows <= last THEN rows - from ELSE options.maxRows
        /\ IF shown.endFound
             THEN shown.rowsFound = rows
             ELSE /\ rows >= shown.rowsFound /\ rows > last
                  /\ shown.rowsFound = IF options.countRows THEN last + 1 + LookAhead ELSE last

(* A statement that is reported as successful has reported all of its       *)
(* result sets, and none that the database failed to produce as complete.   *)
SuccessIsWhole ==
  pc = "done" /\ error = "" =>
    /\ Len(resultSet) = Len(result.sets)
    /\ ~result.ok => ~resultSet[Len(resultSet)].endFound

(* "so the connection can run the next statement" (MySqlCursor.close):      *)
(* nothing but the end that follows an error is left of the statement's     *)
(* answer, and the connection is not paused.                                *)
ConnectionIsFree ==
  pc = "done" /\ driver = "MYSQL" =>
    ~cursor.paused /\ \A i \in DOMAIN wire : wire[i].kind = "end"

(* "a large result is not held in memory" (MySqlCursor): never more than a  *)
(* batch of it.                                                             *)
HoldsOneBatch == driver \in {"MYSQL", "POSTGRESQL"} => Len(cursor.rows) <= BatchSize

(* Every statement is answered, whatever the cursor, and whatever fails.    *)
StatementEnds == <>(pc = "done")
===============================================================================
