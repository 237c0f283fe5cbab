----------------------------- MODULE RunConditions -----------------------------
(***************************************************************************)
(* server/sql/RunConditions.js: what the conditions of a statement decide  *)
(* once it has run.                                                        *)
(***************************************************************************)
EXTENDS Integers, Sequences, FiniteSetsExt

(* What a condition asks for: nothing at all, a next action without a name, *)
(* or one of that name and the return code ("false" when not set).          *)
NextActions == [action: {"none", "unnamed", "commit", "rollback", "endrun", "unknown"},
                code: {"true", "false"}]

Operators == {"=", ">", "<", ">=", "<=", "!=", "unknown"}

Condition(indexes, counts) ==
  [type: {"rowsreturned", "unknown"}, index: indexes, operator: Operators,
   condition: counts, onTrue: NextActions, onFalse: NextActions]

(* #outcome: go on to the next statement, or stop with a return code and    *)
(* commit or not.                                                           *)
GoOn               == [returnValue |-> TRUE, returnCode |-> "true", commit |-> FALSE]
Stop(code, commit) == [returnValue |-> FALSE, returnCode |-> code, commit |-> commit]

(* Mutants: "commit" goes on with the batch; the code is the action's name. *)
CommitGoesOn(on) ==
  CASE on.action \in {"unnamed", "unknown"} -> Stop("false", FALSE)
    [] on.action = "commit"                 -> [GoOn EXCEPT !.commit = TRUE]
    [] OTHER                                -> Stop(on.code, on.action = "endrun")
CodeIsAction(on) == Stop(on.action, on.action = "endrun")

(* #nextAction *)
NextAction(on) ==
  CASE on.action \in {"unnamed", "unknown"} -> Stop("false", FALSE)
    [] on.action = "commit"                 -> Stop("true", TRUE)
    [] OTHER                                -> Stop(on.code, on.action = "endrun")

(* #COMPARE *)
Compare(a, operator, b) ==
  CASE operator = "="  -> a = b
    [] operator = ">"  -> a > b
    [] operator = "<"  -> a < b
    [] operator = ">=" -> a >= b
    [] operator = "<=" -> a <= b
    [] operator = "!=" -> a # b

(* The rows of a result set that the statement did not return compare as    *)
(* undefined does: different from every number.                             *)
Matched(rows, c) ==
  IF c.index < Len(rows) THEN Compare(rows[c.index + 1], c.operator, c.condition)
  ELSE c.operator = "!="

(* What a condition decides, when there is data.  *)
Outcome(c, rows) ==
  IF c.type = "unknown" \/ c.operator = "unknown" THEN Stop("false", FALSE)
  ELSE LET on == IF Matched(rows, c) THEN c.onTrue ELSE c.onFalse IN
       IF on.action = "none" THEN GoOn ELSE NextAction(on)

(* Whether there is any is asked of the result set of the condition before. *)
NoData(conditions, rows) ==
  LET known == {i \in DOMAIN conditions : conditions[i].type = "rowsreturned"}
      IndexAt(i) == LET before == known \intersect 1..i - 1 IN
                    IF before = {} THEN 0 ELSE conditions[Max(before)].index
  IN  \E i \in known : IndexAt(i) >= Len(rows)

(* check(): every condition in the order given overwrites what the one      *)
(* before decided, unless there is no data for one of them; an empty object *)
(* of conditions stops the batch.                                           *)
Check(conditions, rows) ==
  CASE conditions = <<>>        -> Stop("true", FALSE)
    [] NoData(conditions, rows) -> Stop("false", FALSE)
    [] OTHER                    -> Outcome(conditions[Len(conditions)], rows)
===============================================================================
