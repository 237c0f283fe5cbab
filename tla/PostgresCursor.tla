----------------------------- MODULE PostgresCursor -----------------------------
(***************************************************************************)
(* drivers/PostgresDriver.js, PostgresCursor: a pg-cursor read in batches. *)
(* A batch that is not full is the last one.                               *)
(***************************************************************************)
EXTENDS CursorCalls

CONSTANT Batch    \* PostgresCursor.BATCH

VARIABLE cursor   \* rows, done; reading: a batch is awaited

New == [rows |-> <<>>, done |-> FALSE, reading |-> FALSE]

(* The pg-cursor is asked for a batch by open(), and by next() when no row  *)
(* of the last one is left and it was full.                                 *)
AskBatch ==
  /\ ~cursor.reading
  /\ Asked("open") \/ (Asked("next") /\ cursor.rows = <<>> /\ ~cursor.done)
  /\ cursor' = [cursor EXCEPT !.reading = TRUE]
  /\ UNCHANGED <<result, message, place>>

(* Mutant: a batch that is just full is taken for the last one.  *)
LastUnlessOverfull(rows) == Len(rows) <= Batch

LastBatch(rows) == Len(rows) < Batch

(* The batch, from the row after the last one given: rows that a failing    *)
(* statement produced in a batch that it did not fill are lost.             *)
BatchArrives ==
  /\ cursor.reading
  /\ LET left == Rows - place.given
         rows == [i \in 1..(IF left < Batch THEN left ELSE Batch) |-> place.given + i]
     IN  /\ Len(rows) = Batch \/ result.ok
         /\ cursor' = [rows |-> rows, done |-> LastBatch(rows), reading |-> FALSE]
  /\ message' = IF Asked("open") THEN Answer("opened") ELSE message
  /\ UNCHANGED <<result, place>>

BatchFails ==
  /\ cursor.reading
  /\ ~result.reliable \/ (~result.ok /\ Rows - place.given < Batch)
  /\ cursor' = [cursor EXCEPT !.reading = FALSE]
  /\ message' = Answer("error")
  /\ UNCHANGED <<result, place>>

NextReturns ==
  /\ Asked("next") /\ ~cursor.reading
  /\ IF cursor.rows # <<>>
       THEN /\ message' = AnswerRow(Head(cursor.rows))
            /\ cursor' = [cursor EXCEPT !.rows = Tail(@)]
            /\ place' = [place EXCEPT !.given = @ + 1]
       ELSE cursor.done /\ message' = Answer("null") /\ UNCHANGED <<cursor, place>>
  /\ UNCHANGED result

CloseReturns ==
  /\ Asked("close")
  /\ \/ message' = Answer("closed")
     \/ ~result.reliable /\ message' = Answer("error")
  /\ UNCHANGED <<result, place, cursor>>

PostgresNext ==
  \/ AskBatch \/ BatchArrives \/ BatchFails \/ NextReturns \/ CloseReturns
  \/ NoNextResultSet /\ UNCHANGED cursor
===============================================================================
