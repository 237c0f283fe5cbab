----------------------------- MODULE IteratorCursor -----------------------------
(***************************************************************************)
(* ArrayCursor (drivers/ResultCursor.js), over result sets that are in     *)
(* memory, and SqliteCursor (drivers/SqliteDriver.js), over an iterator of *)
(* the statement in this process: every call is answered where it is made. *)
(***************************************************************************)
EXTENDS CursorCalls

ExecuteReturns ==
  /\ Asked("open")
  /\ message' = Answer(IF result.ok \/ result.sets[1].columns THEN "opened" ELSE "error")
  /\ UNCHANGED <<result, place>>

NextReturns ==
  /\ Asked("next")
  /\ IF place.given < Rows
       THEN place' = [place EXCEPT !.given = @ + 1] /\ message' = AnswerRow(place'.given)
       ELSE message' = Answer(IF result.ok THEN "null" ELSE "error") /\ UNCHANGED place
  /\ UNCHANGED result

NextSetReturns ==
  /\ Asked("nextResultSet")
  /\ IF LastSet
       THEN message' = Answer("false") /\ UNCHANGED place
       ELSE message' = Answer("true") /\ place' = [set |-> place.set + 1, given |-> 0]
  /\ UNCHANGED result

CloseReturns ==
  /\ Asked("close")
  /\ message' = Answer("closed")
  /\ UNCHANGED <<result, place>>

IteratorNext == ExecuteReturns \/ NextReturns \/ NextSetReturns \/ CloseReturns
===============================================================================
