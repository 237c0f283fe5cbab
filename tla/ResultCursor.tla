----------------------------- MODULE ResultCursor -----------------------------
(***************************************************************************)
(* drivers/ResultCursor.js: what every cursor promises the StatementRunner *)
(* that reads it, whatever the database.  The rows of each result set come *)
(* in order and once; the end is only said at the end; a result that the   *)
(* database could not produce to its end is never said to have ended; and  *)
(* every call is answered.                                                 *)
(***************************************************************************)
EXTENDS CursorCalls

Init ==
  /\ message = Answer("none")
  /\ place = [set |-> 1, given |-> 0]

Read ==
  /\ message.to = "runner"
  /\ message' \in {Ask(call) : call \in Calls}
  /\ UNCHANGED <<result, place>>

MayFail == ~result.ok \/ ~result.reliable

Open ==
  /\ Asked("open")
  /\ \/ message' = Answer("opened")
     \/ MayFail /\ message' = Answer("error")
  /\ UNCHANGED <<result, place>>

NextRow ==
  /\ Asked("next")
  /\ place.given < Rows
  /\ place' = [place EXCEPT !.given = @ + 1]
  /\ message' = AnswerRow(place'.given)
  /\ UNCHANGED result

NoMoreRows ==
  /\ Asked("next")
  /\ place.given = Rows
  /\ result.ok \/ ~LastSet
  /\ message' = Answer("null")
  /\ UNCHANGED <<result, place>>

Fail ==
  /\ Asked("next")
  /\ MayFail
  /\ message' = Answer("error")
  /\ UNCHANGED <<result, place>>

NextResultSet ==
  /\ Asked("nextResultSet")
  /\ IF LastSet
       THEN message' = Answer("false") /\ UNCHANGED place
       ELSE message' = Answer("true") /\ place' = [set |-> place.set + 1, given |-> 0]
  /\ UNCHANGED result

Close ==
  /\ Asked("close")
  /\ \/ message' = Answer("closed")
     \/ ~result.reliable /\ message' = Answer("error")
  /\ UNCHANGED <<result, place>>

Settling == Open \/ NextRow \/ NoMoreRows \/ Fail \/ NextResultSet \/ Close

Next == Read \/ Settling

Spec == Init /\ [][Next]_cursorVars /\ WF_cursorVars(Settling)
===============================================================================
