---------------------------- MODULE StatementRunner ----------------------------
(***************************************************************************)
(* sql/StatementRunner.js: one statement of an executeSQL request.  It     *)
(* skips fromRow rows, returns at most maxRows, and counts on for at most  *)
(* LookAhead rows to tell the user how big the result is; the cursor is    *)
(* closed whatever happens.  Every await of a call of the cursor is the    *)
(* end of a step.                                                          *)
(***************************************************************************)
EXTENDS CursorCalls

CONSTANTS
  LookAhead,      \* SQL_MAX_ROW_LOOK_AHEAD
  MaxWindow       \* bound of fromRow and maxRows

ASSUME RunnerAssumption == LookAhead \in Nat /\ MaxWindow \in Nat

VARIABLES
  options,        \* of the request
  pc,             \* the call that run() waits for, in which of its loops
  read, data,     \* of the result set being read: rows read, and rows to return
  resultSet,      \* what is reported of the result sets read so far
  error           \* which call threw the error that is reported

runnerVars == <<options, pc, read, data, resultSet, error>>

Options == [maxRows: 0..MaxWindow, fromRow: 0..MaxWindow, countRows: BOOLEAN]
Labels  == {"start", "execute", "read", "count", "nextResultSet", "close", "done"}

RunnerTypeOK ==
  /\ options \in Options
  /\ pc \in Labels
  /\ read \in Nat
  /\ data \in Seq(Nat)
  /\ \A i \in DOMAIN resultSet :
       resultSet[i] \in [data: Seq(Nat), rowsFound: Nat, endFound: BOOLEAN]
  /\ error \in {"", "open", "next", "close"}

RunnerInit ==
  /\ options \in Options
  /\ pc = "start"
  /\ read = 0 /\ data = <<>>
  /\ resultSet = <<>>
  /\ error = ""

Waits(label, call) == pc' = label /\ message' = Ask(call)

-------------------------------------------------------------------------------
Execute ==
  /\ pc = "start"
  /\ Waits("execute", "open")
  /\ UNCHANGED <<options, read, data, resultSet, error>>

ExecuteFails ==
  /\ pc = "execute" /\ Answered("error")
  /\ pc' = "done"
  /\ error' = "open"
  /\ UNCHANGED <<message, options, read, data, resultSet>>

(* #readResultSet of the set that the cursor is at: one without columns has *)
(* nothing to read.                                                         *)
StartResultSet ==
  /\ \/ pc = "execute" /\ Answered("opened")
     \/ pc = "nextResultSet" /\ Answered("true")
  /\ read' = 0 /\ data' = <<>>
  /\ IF result.sets[place.set].columns
       THEN Waits("read", "next") /\ UNCHANGED resultSet
       ELSE /\ Waits("nextResultSet", "nextResultSet")
            /\ resultSet' = Append(resultSet, [data |-> <<>>, rowsFound |-> 0, endFound |-> TRUE])
  /\ UNCHANGED <<options, error>>

SkipRow ==
  /\ pc = "read" /\ Answered("row")
  /\ read < options.fromRow
  /\ read' = read + 1
  /\ Waits("read", "next")
  /\ UNCHANGED <<options, data, resultSet, error>>

ReturnRow ==
  /\ pc = "read" /\ Answered("row")
  /\ read >= options.fromRow /\ Len(data) < options.maxRows
  /\ read' = read + 1
  /\ data' = Append(data, message.row)
  /\ Waits("read", "next")
  /\ UNCHANGED <<options, resultSet, error>>

WindowFull ==
  /\ pc = "read" /\ Answered("row")
  /\ read >= options.fromRow /\ Len(data) >= options.maxRows

Report(rowsFound, endFound) ==
  /\ resultSet' = Append(resultSet, [data |-> data, rowsFound |-> rowsFound, endFound |-> endFound])
  /\ Waits("nextResultSet", "nextResultSet")

(* Mutant: the row already read when the counting starts is forgotten.  *)
CountRestForgetsRow ==
  /\ WindowFull /\ options.countRows
  /\ read' = read
  /\ IF LookAhead = 0 THEN Report(read', FALSE) ELSE Waits("count", "next") /\ UNCHANGED resultSet
  /\ UNCHANGED <<options, data, error>>

(* #countRest: the row that found the window full is counted already.  *)
CountRest ==
  /\ WindowFull /\ options.countRows
  /\ read' = read + 1
  /\ IF LookAhead = 0 THEN Report(read', FALSE) ELSE Waits("count", "next") /\ UNCHANGED resultSet
  /\ UNCHANGED <<options, data, error>>

Limit == options.fromRow + options.maxRows + 1 + LookAhead

CountRow ==
  /\ pc = "count" /\ Answered("row")
  /\ read' = read + 1
  /\ IF read' < Limit THEN Waits("count", "next") /\ UNCHANGED resultSet ELSE Report(read', FALSE)
  /\ UNCHANGED <<options, data, error>>

(* Mutant: the row that is not there is not counted, twice.  *)
EndOffByOne ==
  /\ \/ pc \in {"read", "count"} /\ Answered("null") /\ Report(read - 1, TRUE)
     \/ WindowFull /\ ~options.countRows /\ Report(read, FALSE)
  /\ UNCHANGED <<options, read, data, error>>

EndResultSet ==
  /\ \/ pc \in {"read", "count"} /\ Answered("null") /\ Report(read, TRUE)
     \/ WindowFull /\ ~options.countRows /\ Report(read, FALSE)
  /\ UNCHANGED <<options, read, data, error>>

NoMoreResultSets ==
  /\ pc = "nextResultSet" /\ Answered("false")
  /\ Waits("close", "close")
  /\ UNCHANGED <<options, read, data, resultSet, error>>

(* Mutant: the finally block returns the outcome, and the error is lost.  *)
ReadFailsUnnoticed ==
  /\ pc \in {"read", "count"} /\ Answered("error")
  /\ Waits("close", "close")
  /\ UNCHANGED <<options, read, data, resultSet, error>>

(* The finally block closes the cursor, the error goes on to the outcome.  *)
ReadFails ==
  /\ pc \in {"read", "count"} /\ Answered("error")
  /\ error' = "next"
  /\ Waits("close", "close")
  /\ UNCHANGED <<options, read, data, resultSet>>

(* An error of the close replaces the one that led to it.  *)
Closed ==
  /\ pc = "close" /\ message.to = "runner"
  /\ pc' = "done"
  /\ error' = IF Answered("error") THEN "close" ELSE error
  /\ UNCHANGED <<message, options, read, data, resultSet>>

RunnerNext ==
  \/ Execute \/ ExecuteFails \/ StartResultSet \/ SkipRow \/ ReturnRow \/ CountRest
  \/ CountRow \/ EndResultSet \/ NoMoreResultSets \/ ReadFails \/ Closed
===============================================================================
