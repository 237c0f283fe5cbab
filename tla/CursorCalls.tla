------------------------------ MODULE CursorCalls ------------------------------
(***************************************************************************)
(* The calls of a ResultCursor (drivers/ResultCursor.js) that its reader   *)
(* makes, one at a time, and the answers that their promises resolve with. *)
(***************************************************************************)
EXTENDS Naturals, Sequences

VARIABLES
  result,         \* sets: the result sets the driver returns; ok: did the
                  \* statement run to its end?  reliable: can no call fail for
                  \* a reason of its own?
  message,        \* the call of the reader, or the answer of the cursor
  place           \* the result set being read, and how many of its rows were given

cursorVars == <<result, message, place>>

Calls   == {"open", "next", "nextResultSet", "close"}
Answers == {"none", "opened", "row", "null", "true", "false", "closed", "error"}

Ask(call)        == [to |-> "cursor", what |-> call, row |-> 0]
Answer(what)     == [to |-> "runner", what |-> what, row |-> 0]
AnswerRow(row)   == [to |-> "runner", what |-> "row", row |-> row]
Asked(call)      == message = Ask(call)
Answered(what)   == message.to = "runner" /\ message.what = what

Rows    == result.sets[place.set].rows
LastSet == place.set = Len(result.sets)

(* ResultCursor.nextResultSet, which most drivers leave as it is.  *)
NoNextResultSet ==
  /\ Asked("nextResultSet")
  /\ message' = Answer("false")
  /\ UNCHANGED <<result, place>>
===============================================================================
