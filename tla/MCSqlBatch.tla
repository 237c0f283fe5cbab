------------------------------ MODULE MCSqlBatch ------------------------------
(***************************************************************************)
(* SqlBatch with the conditions of the table editor (a row that is gone, a *)
(* row that is not unique) and one of every other kind, up to two at once. *)
(***************************************************************************)
EXTENDS SqlBatch

On(action, code) == [action |-> action, code |-> code]
Nothing          == On("none", "false")

RowsReturned(index, operator, onTrue, onFalse) ==
  [type |-> "rowsreturned", index |-> index, operator |-> operator, condition |-> 1,
   onTrue |-> onTrue, onFalse |-> onFalse]

MCConditions ==
  {RowsReturned(0, "<", On("endrun", "false"), Nothing),
   RowsReturned(0, ">=", On("rollback", "true"), On("rollback", "false")),
   RowsReturned(0, "=", On("commit", "false"), Nothing),
   RowsReturned(1, "!=", On("endrun", "true"), On("unnamed", "false")),
   RowsReturned(0, "unknown", Nothing, Nothing),
   [RowsReturned(0, "=", Nothing, Nothing) EXCEPT !.type = "unknown"]}

MCConditionLists == {<<>>} \union {<<c>> : c \in MCConditions}
                       \union {<<c, d>> : c \in MCConditions, d \in MCConditions}

MCResults == {<<0>>, <<1>>, <<1, 0>>}
===============================================================================
