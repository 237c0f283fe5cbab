-------------------------- MODULE DatabaseTransaction --------------------------
(***************************************************************************)
(* A database connection as SqlBatch uses it: the transaction methods of   *)
(* server/drivers/DatabaseConnection.js over the transactions of each      *)
(* vendor's driver.  Every method is the set of results it can have: the   *)
(* connection it leaves, and "" or how it threw.                           *)
(*                                                                         *)
(* The databases themselves are external.  One may refuse to commit, undo  *)
(* the transaction or break the connection at any call.                    *)
(***************************************************************************)
CONSTANT Effects        \* what each statement does to the database

AllVendors == {"drda", "mysql", "postgres", "sqlite"}

(* autoCommit is the driver's own flag.  The transaction "none" means that  *)
(* the database commits every statement by itself, "poisoned" that it will  *)
(* do nothing until it is ended.                                            *)
Connection == [vendor: AllVendors, alive: BOOLEAN, autoCommit: BOOLEAN,
               transaction: {"none", "open", "poisoned"},
               pending: SUBSET Effects, durable: SUBSET Effects]

(* DRDA has no autocommit: the driver commits after each statement.  *)
Opened(vendor) ==
  [vendor |-> vendor, alive |-> TRUE, autoCommit |-> TRUE,
   transaction |-> IF vendor = "drda" THEN "open" ELSE "none",
   pending |-> {}, durable |-> {}]

Returns(db) == [db |-> db, threw |-> ""]
Throws(db)  == [db |-> db, threw |-> "error"]

(* The connection breaks: the database undoes what is not committed.  *)
Breaks(db) == Throws([db EXCEPT !.alive = FALSE, !.transaction = "none", !.pending = {}])

(* The transaction is over and the next one has begun.  *)
Ended(db, commit) ==
  [db EXCEPT !.durable = IF commit THEN @ \union db.pending ELSE @,
             !.pending = {}, !.transaction = "open"]

(* COMMIT throws: SQLite keeps the transaction, PostgreSQL ends it and the  *)
(* driver's BEGIN is not reached, the others end it and begin another.      *)
CommitRefused(db) ==
  CASE db.vendor = "sqlite"   -> {Throws(db)}
    [] db.vendor = "postgres" -> IF db.transaction = "poisoned" THEN {}
                                 ELSE {Throws([db EXCEPT !.transaction = "none", !.pending = {}])}
    [] OTHER                  -> {Throws([db EXCEPT !.pending = {}])}

(* endUnitOfWork: a connection that breaks may have committed before.  *)
EndUnitOfWork(db, commit) ==
  IF ~db.alive THEN {Throws(db)}
  ELSE {Returns(Ended(db, commit))}
         \union {Breaks(Ended(db, done)) : done \in {commit, FALSE}}
         \union IF commit THEN CommitRefused(db) ELSE {}

(* commit() and rollback() do nothing in autocommit mode.  *)
CommitOrRollback(db, commit) == IF db.autoCommit THEN {Returns(db)} ELSE EndUnitOfWork(db, commit)

(* setAutoCommit on a connection just opened.  *)
SetAutoCommit(db, on) ==
  IF on = db.autoCommit THEN {Returns(db)}
  ELSE {Returns([db EXCEPT !.autoCommit = on, !.transaction = "open"]), Breaks(db)}

(* A statement that throws: PostgreSQL's transaction is of no use from then *)
(* on; MySQL and DB2 keep nothing, a part, or undo the whole transaction;   *)
(* MySQL reports some errors with the SQLSTATE of a warning.                *)
StatementThrows(db, effects) ==
  LET done(pending) == IF db.transaction = "none"
                         THEN [db EXCEPT !.durable = @ \union pending]
                         ELSE [db EXCEPT !.pending = pending]
  IN CASE db.vendor = "postgres" ->
            {Throws([db EXCEPT !.pending = {},
                               !.transaction = IF @ = "open" THEN "poisoned" ELSE "none"])}
       [] db.vendor = "sqlite" -> {Throws(db)}
       [] OTHER -> {Throws(done(kept)) : kept \in {db.pending, db.pending \union effects, {}}}
                     \union IF db.vendor = "mysql" THEN {[db |-> db, threw |-> "warning"]} ELSE {}

(* execute() and the cursor it returns, read to its end and closed.  *)
Execute(db, effects) ==
  LET ran == [db EXCEPT !.pending = @ \union effects]
      own == [db EXCEPT !.durable = @ \union effects]
  IN IF ~db.alive \/ db.transaction = "poisoned" THEN {Throws(db)}
     ELSE StatementThrows(db, effects) \union {Breaks(db)}
            \union CASE db.transaction = "none" -> {Returns(own), Breaks(own)}
                     [] db.transaction = "open" /\ db.autoCommit -> EndUnitOfWork(ran, TRUE)
                     [] OTHER -> {Returns(ran)}

(* close(): what is not committed is undone.  *)
Closed(db) == [db EXCEPT !.alive = FALSE, !.pending = {}]
===============================================================================
