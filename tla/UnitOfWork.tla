------------------------------ MODULE UnitOfWork ------------------------------
(***************************************************************************)
(* What an executeSQL request promises of the statements it was given: "a  *)
(* batch SQL[0], SQL[1]... run as one unit of work unless each statement   *)
(* is committed" (server/sql/SqlBatch.js).  As one unit, nothing of it is  *)
(* durable until its end, and then all that the database has done for it   *)
(* or nothing; whatever follows the end changes neither.                   *)
(***************************************************************************)
CONSTANT Effects

VARIABLES
  whole,          \* one unit of work, or one per statement?
  work,           \* what the database has done for the unit
  durable,        \* what the database will not undo
  over            \* has the unit ended?

vars == <<whole, work, durable, over>>

Init == whole \in BOOLEAN /\ work = {} /\ durable = {} /\ over = FALSE

Work ==
  /\ whole /\ ~over
  /\ work' \in SUBSET Effects
  /\ UNCHANGED <<whole, durable, over>>

End ==
  /\ whole /\ ~over
  /\ over' = TRUE
  /\ durable' \in {durable, work}
  /\ UNCHANGED <<whole, work>>

EachByItself ==
  /\ ~whole
  /\ work' \in SUBSET Effects
  /\ durable' \in SUBSET Effects /\ durable \subseteq durable'
  /\ over' \in {over, TRUE}
  /\ UNCHANGED whole

Next == Work \/ End \/ EachByItself

Spec == Init /\ [][Next]_vars
===============================================================================
