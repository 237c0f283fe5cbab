------------------------------- MODULE SqlBatch -------------------------------
(***************************************************************************)
(* server/sql/SqlBatch.js: one executeSQL request, a statement or a batch  *)
(* of them, from the connection just opened for it to its close at the end *)
(* of the request (ConnectionManager.closeAll).                            *)
(***************************************************************************)
EXTENDS Naturals, RunConditions

CONSTANTS
  MaxStatements,  \* bound of the batch
  Results,        \* numbers of rows that a statement's result sets can have
  ConditionLists, \* the conditions that a statement can be given
  NoConditions,   \* a statement without any
  Vendors         \* the databases it can run on

VARIABLES
  request,        \* the options of the request
  pc,             \* where run() is
  position,       \* how many statements have run
  outcome,        \* of the statement that has just run
  commit,         \* does a condition that ended the run ask for a commit?
  reply,          \* its return code, and which part of run() wrote it
  db,             \* the connection
  failed,         \* history: the statements the database refused
  unit            \* history: what the database had done when the unit ended

vars == <<request, pc, position, outcome, commit, reply, db, failed, unit>>

Statements == 1..MaxStatements
ExitSQL    == 0
Effects    == Statements \union {ExitSQL}

Database == INSTANCE DatabaseTransaction

ASSUME BatchAssumption ==
  /\ MaxStatements \in Nat
  /\ Results \subseteq Seq(Nat)
  /\ NoConditions \notin ConditionLists
  /\ \A conditions \in ConditionLists : conditions \in Seq(Condition(Nat, Nat))
  /\ Vendors \subseteq Database!AllVendors

(* optionsFrom: SQL that is missing, one statement or several; abortOnFailure *)
(* is on unless each statement is committed or the request says otherwise.    *)
Requests ==
  {q \in [form: {"missing", "one", "many"}, count: 0..MaxStatements, commitEach: BOOLEAN,
          abortOnFailure: BOOLEAN, abortOnWarning: BOOLEAN,
          queryOpt: {"none", "valid", "invalid"}, exitSQL: BOOLEAN] :
     /\ q.form = "missing" => q.count = 0 /\ q.abortOnFailure /\ q.abortOnWarning
     /\ q.form = "one" => q.count = 1 /\ q.abortOnFailure /\ q.abortOnWarning}

Outcomes == [statementSucceed: BOOLEAN, rows: Results \union {<<>>}]
Unrun    == [statementSucceed |-> TRUE, rows |-> <<>>]

Labels == {"setAutoCommit", "queryOptimization", "run", "check", "end", "exit", "close", "closed"}

TypeOK ==
  /\ request \in Requests
  /\ pc \in Labels
  /\ position \in 0..request.count
  /\ outcome \in Outcomes
  /\ commit \in BOOLEAN
  /\ reply \in [code: {"true", "false"}, by: {"batch", "error", "exit"}]
  /\ db \in Database!Connection
  /\ failed \subseteq Statements
  /\ unit \subseteq Effects

Init ==
  /\ request \in Requests
  /\ pc = "setAutoCommit"
  /\ position = 0
  /\ outcome = Unrun
  /\ commit = FALSE
  /\ reply = [code |-> "true", by |-> "batch"]
  /\ db \in {Database!Opened(vendor) : vendor \in Vendors}
  /\ failed = {}
  /\ unit = {}

-------------------------------------------------------------------------------
(* run() catches what anything before the end of the unit of work throws:   *)
(* the reply says so, and the transaction is left as it is.                 *)
Caught ==
  /\ pc' = "exit"
  /\ reply' = [code |-> "false", by |-> "error"]
  /\ UNCHANGED commit

(* A call of the connection: run() goes on at label, or what it threw is    *)
(* caught.                                                                  *)
Calls(results, label) ==
  \E result \in results :
    /\ db' = result.db
    /\ IF result.threw = "" THEN pc' = label /\ UNCHANGED <<commit, reply>> ELSE Caught

SetAutoCommit ==
  /\ pc = "setAutoCommit"
  /\ Calls(Database!SetAutoCommit(db, request.commitEach), "queryOptimization")
  /\ UNCHANGED <<request, position, outcome, failed, unit>>

(* #setQueryOptimization, and the check that there is any SQL.  *)
Received == IF request.form = "missing" THEN {Database!Throws(db)} ELSE {Database!Returns(db)}

SetQueryOptimization ==
  /\ pc = "queryOptimization"
  /\ CASE request.queryOpt = "none"    -> Calls(Received, "run")
       [] request.queryOpt = "invalid" -> Calls({Database!Throws(db)}, "run")
       [] request.queryOpt = "valid"   ->
            \E result \in Database!Execute(db, {}) :
              /\ db' = result.db
              /\ IF result.threw = "" /\ request.form # "missing"
                   THEN pc' = "run" /\ UNCHANGED <<commit, reply>>
                   ELSE Caught
  /\ UNCHANGED <<request, position, outcome, failed, unit>>

(* Only a batch knows of warnings; a single statement that throws one has failed. *)
Warned(threw) == threw = "warning" /\ request.form = "many" /\ ~request.abortOnWarning

(* The next statement runs (StatementRunner.run), and its outcome says      *)
(* whether it succeeded and what it returned, the result sets read before   *)
(* it failed included.  A batch that aborts on failure ends here, without a *)
(* look at the statement's conditions.                                      *)
RunStatement ==
  /\ pc = "run"
  /\ position < request.count
  /\ position' = position + 1
  /\ \E result \in Database!Execute(db, {position'}) :
       LET succeeded == result.threw = "" \/ Warned(result.threw) IN
       /\ db' = result.db
       /\ unit' = result.db.pending
       /\ failed' = IF result.threw = "" THEN failed ELSE failed \union {position'}
       /\ \E rows \in IF result.threw = "" THEN Results ELSE Results \union {<<>>} :
            outcome' = [statementSucceed |-> succeeded, rows |-> rows]
       /\ reply' = IF succeeded THEN reply ELSE [reply EXCEPT !.code = "false"]
       /\ pc' = IF ~succeeded /\ request.form = "many" /\ request.abortOnFailure
                  THEN "end" ELSE "check"
  /\ UNCHANGED <<request, commit>>

(* StatementRunner.run throws before it calls the database: a bind marker   *)
(* or a substitution without a value.                                       *)
StatementThrows ==
  /\ pc = "run"
  /\ position < request.count
  /\ position' = position + 1
  /\ Caught
  /\ UNCHANGED <<request, outcome, db, failed, unit>>

(* #applyConditions: the batch stops with what they decided, or goes on.  *)
ApplyConditions ==
  /\ pc = "check"
  /\ \E conditions \in ConditionLists \union {NoConditions} :
       LET check == IF conditions = NoConditions THEN GoOn ELSE Check(conditions, outcome.rows) IN
       IF ~check.returnValue
         THEN /\ reply' = [reply EXCEPT !.code = check.returnCode]
              /\ commit' = check.commit
              /\ pc' = "end"
              /\ UNCHANGED db
         ELSE Calls(IF check.commit /\ ~request.commitEach
                      THEN Database!CommitOrRollback(db, TRUE) ELSE {Database!Returns(db)}, "run")
  /\ outcome' = Unrun
  /\ UNCHANGED <<request, position, failed, unit>>

AllRun ==
  /\ pc = "run"
  /\ position = request.count
  /\ pc' = "end"
  /\ UNCHANGED <<request, position, outcome, commit, reply, db, failed, unit>>

(* Mutants: only a condition commits; everything is committed.  *)
EndAsConditionsSay ==
  /\ pc = "end"
  /\ Calls(Database!CommitOrRollback(db, commit), "exit")
  /\ UNCHANGED <<request, position, outcome, failed, unit>>
EndByCommit ==
  /\ pc = "end"
  /\ Calls(Database!CommitOrRollback(db, TRUE), "exit")
  /\ UNCHANGED <<request, position, outcome, failed, unit>>

(* #endUnitOfWork: a reply of success commits, one of failure only when a   *)
(* condition said so.                                                       *)
EndUnitOfWork ==
  /\ pc = "end"
  /\ IF request.commitEach
       THEN Calls({Database!Returns(db)}, "exit")
       ELSE Calls(Database!CommitOrRollback(db, IF reply.code = "false" THEN commit ELSE TRUE), "exit")
  /\ UNCHANGED <<request, position, outcome, failed, unit>>

(* #runExitSQL, whatever happened before.  *)
RunExitSQL ==
  /\ pc = "exit"
  /\ pc' = "close"
  /\ IF request.exitSQL
       THEN \E result \in Database!Execute(db, {ExitSQL}) :
              /\ db' = result.db
              /\ reply' = IF result.threw = "" THEN reply ELSE [code |-> "false", by |-> "exit"]
       ELSE UNCHANGED <<db, reply>>
  /\ UNCHANGED <<request, position, outcome, commit, failed, unit>>

Close ==
  /\ pc = "close"
  /\ pc' = "closed"
  /\ db' = Database!Closed(db)
  /\ UNCHANGED <<request, position, outcome, commit, reply, failed, unit>>

Next ==
  \/ SetAutoCommit \/ SetQueryOptimization \/ RunStatement \/ StatementThrows
  \/ ApplyConditions \/ AllRun \/ EndUnitOfWork \/ RunExitSQL \/ Close

Spec == Init /\ [][Next]_vars
-------------------------------------------------------------------------------
(* What the caller relies on.                                               *)

(* "run as one unit of work unless each statement is committed": nothing of *)
(* a batch is durable before its end, and then all of it or nothing,        *)
(* whatever throws or breaks, and whatever the exit SQL does after.         *)
Unit == INSTANCE UnitOfWork WITH
          whole   <- ~request.commitEach,
          work    <- unit,
          durable <- db.durable \ {ExitSQL},
          over    <- pc \in {"exit", "close", "closed"}
ImplementsUnitOfWork == Unit!Spec

(* A reply of success of statements that all succeeded is never given for   *)
(* work that the database undoes when the request closes the connection.    *)
SuccessIsDurable ==
  pc = "closed" /\ reply.code = "true" /\ failed = {} => db.durable \ {ExitSQL} = 1..position

(* A batch reported as failed by its statements or its conditions has left  *)
(* nothing in the database, unless one of its conditions asked for a        *)
(* commit: the user may run it again.  A reply that an error cut short      *)
(* promises nothing of the kind.                                            *)
FailureLeavesNothing ==
  pc = "closed" /\ reply = [code |-> "false", by |-> "batch"] /\ ~request.commitEach /\ ~commit
    => db.durable = {}

(* "Commit per statement if false all statements will be run in a single    *)
(* transaction and rolled back on any errors" (the tutorial on              *)
(* commitPerStmt), as long as no condition asks for a commit.               *)
RolledBackOnAnyError ==
  pc = "closed" /\ ~request.commitEach /\ ~commit /\ failed # {} => db.durable = {}
===============================================================================
