---------------------------- MODULE SqlBatch_proofs ----------------------------
(***************************************************************************)
(* Proofs about an executeSQL request, for batches of any length, any      *)
(* conditions and results, on every vendor.                                *)
(***************************************************************************)
EXTENDS SqlBatch, TLAPS

USE BatchAssumption

Decisions == [returnValue: BOOLEAN, returnCode: {"true", "false"}, commit: BOOLEAN]

(* What conditions decide: no outcome goes on with the batch and commits.   *)
LEMMA OutcomeDecides ==
  ASSUME NEW c \in Condition(Nat, Nat), NEW rows
  PROVE  Outcome(c, rows) \in Decisions /\ (Outcome(c, rows).returnValue => ~Outcome(c, rows).commit)
<1> DEFINE on == IF Matched(rows, c) THEN c.onTrue ELSE c.onFalse
<1>1. on \in NextActions BY DEF Condition
<1>2. on.code \in {"true", "false"} BY <1>1 DEF NextActions
<1>3. NextAction(on) \in Decisions /\ ~NextAction(on).returnValue
  BY <1>2 DEF NextAction, Decisions, Stop, GoOn
<1> HIDE DEF on
<1>4. Outcome(c, rows) \in {Stop("false", FALSE), GoOn, NextAction(on)} BY DEF Outcome, on
<1>5. CASE Outcome(c, rows) = Stop("false", FALSE) BY <1>5 DEF Stop, Decisions
<1>6. CASE Outcome(c, rows) = GoOn BY <1>6 DEF GoOn, Decisions
<1>7. CASE Outcome(c, rows) = NextAction(on) BY <1>3, <1>7
<1> QED BY <1>4, <1>5, <1>6, <1>7

LEMMA CheckDecides ==
  ASSUME NEW conditions \in ConditionLists, NEW rows
  PROVE  Check(conditions, rows) \in Decisions
         /\ (Check(conditions, rows).returnValue => ~Check(conditions, rows).commit)
<1>1. conditions \in Seq(Condition(Nat, Nat)) OBVIOUS
<1>2. CASE conditions = <<>> BY <1>2 DEF Check, Decisions, Stop
<1>3. CASE conditions # <<>> /\ NoData(conditions, rows) BY <1>3 DEF Check, Decisions, Stop
<1>4. CASE conditions # <<>> /\ ~NoData(conditions, rows)
  <2>1. conditions[Len(conditions)] \in Condition(Nat, Nat) BY <1>1, <1>4
  <2>2. Check(conditions, rows) = Outcome(conditions[Len(conditions)], rows) BY <1>4 DEF Check
  <2> QED BY <2>1, <2>2, OutcomeDecides
<1> QED BY <1>2, <1>3, <1>4
-------------------------------------------------------------------------------
(* The calls of a connection, as far as the batch depends on them.          *)

Connections == Database!Connection
Result == [db: Connections, threw: {"", "error", "warning"}]

(* Of a connection that commits by itself nothing is pending.  *)
Sound(d) == d \in Connections /\ (d.transaction = "none" => d.pending = {})

LEMMA BreaksResult ==
  ASSUME NEW d, Sound(d), NEW r, r = Database!Breaks(d)
  PROVE  /\ r \in Result /\ Sound(r.db) /\ ~r.db.alive /\ r.threw = "error" /\ r.db.pending = {}
         /\ r.db.durable = d.durable /\ r.db.autoCommit = d.autoCommit /\ r.db.vendor = d.vendor
  BY DEF Database!Breaks, Database!Throws, Sound, Connections, Result, Database!Connection

LEMMA EndedConnection ==
  ASSUME NEW d, Sound(d), NEW commit_ \in BOOLEAN, NEW e, e = Database!Ended(d, commit_)
  PROVE  /\ Sound(e) /\ e.pending = {} /\ e.transaction = "open" /\ e.alive = d.alive
         /\ e.durable = IF commit_ THEN d.durable \union d.pending ELSE d.durable
         /\ e.autoCommit = d.autoCommit /\ e.vendor = d.vendor
  BY DEF Database!Ended, Sound, Connections, Database!Connection

(* endUnitOfWork leaves all of what was pending durable, or nothing; a call *)
(* that returns has ended the transaction as it was asked to.               *)
EndedAs(d, commit_, r) ==
  /\ r \in Result /\ Sound(r.db)
  /\ r.db.durable \in {d.durable, d.durable \union d.pending}
  /\ r.db.durable # d.durable => commit_
  /\ r.db.pending \in {d.pending, {}}
  /\ r.db.autoCommit = d.autoCommit /\ r.db.vendor = d.vendor
  /\ r.threw = "" => /\ r.db.alive /\ r.db.transaction = "open" /\ r.db.pending = {}
                     /\ commit_ => r.db.durable = d.durable \union d.pending

LEMMA EndResults ==
  ASSUME NEW d, Sound(d), NEW commit_ \in BOOLEAN, NEW r \in Database!EndUnitOfWork(d, commit_)
  PROVE  EndedAs(d, commit_, r)
<1>1. CASE ~d.alive /\ r = Database!Throws(d)
  BY <1>1 DEF Database!Throws, Result, Sound, EndedAs
<1>2. CASE d.alive /\ r = Database!Returns(Database!Ended(d, commit_))
  <2> DEFINE e == Database!Ended(d, commit_)
  <2>0. /\ Sound(e) /\ e.pending = {} /\ e.transaction = "open" /\ e.alive = d.alive
        /\ e.durable = (IF commit_ THEN d.durable \union d.pending ELSE d.durable)
        /\ e.autoCommit = d.autoCommit /\ e.vendor = d.vendor
    BY DEF Database!Ended, Sound, Connections, Database!Connection
  <2>1. r.db = e /\ r.threw = "" /\ r = [db |-> r.db, threw |-> ""]
    BY <1>2 DEF Database!Returns
  <2> HIDE DEF e
  <2>2. Sound(r.db) /\ r.db.pending = {} /\ r.db.transaction = "open" /\ r.db.alive = d.alive
         /\ r.db.durable = (IF commit_ THEN d.durable \union d.pending ELSE d.durable)
         /\ r.db.autoCommit = d.autoCommit /\ r.db.vendor = d.vendor
    BY <2>0, <2>1
  <2> HIDE DEF Sound
  <2>3. r \in Result BY <2>1, <2>2 DEF Result, Sound
  <2> QED BY <1>2, <2>1, <2>2, <2>3 DEF EndedAs
<1>3. CASE d.alive /\ \E done \in {commit_, FALSE} : r = Database!Breaks(Database!Ended(d, done))
  <2>1. PICK done \in {commit_, FALSE} : r = Database!Breaks(Database!Ended(d, done)) BY <1>3
  <2>2. done \in BOOLEAN OBVIOUS
  <2> DEFINE e == Database!Ended(d, done)
  <2>3. Sound(e) /\ e.durable = (IF done THEN d.durable \union d.pending ELSE d.durable)
         /\ e.autoCommit = d.autoCommit /\ e.vendor = d.vendor
    BY <2>2, EndedConnection, ZenonT(40)
  <2> HIDE DEF e
  <2>4. r = Database!Breaks(e) BY <2>1 DEF e
  <2>5. /\ r \in Result /\ Sound(r.db) /\ r.threw = "error" /\ r.db.pending = {}
        /\ r.db.durable = e.durable /\ r.db.autoCommit = e.autoCommit /\ r.db.vendor = e.vendor
    BY <2>3, <2>4, BreaksResult
  <2>6. done => commit_ BY <2>2
  <2> HIDE DEF Sound
  <2>7. r.db.durable \in {d.durable, d.durable \union d.pending} /\ (r.db.durable # d.durable => commit_)
    BY <2>2, <2>3, <2>5, <2>6
  <2> QED BY <2>3, <2>5, <2>7 DEF EndedAs
<1>4. CASE d.alive /\ commit_ /\ r \in Database!CommitRefused(d)
  <2>1. r \in {Database!Throws(d), Database!Throws([d EXCEPT !.transaction = "none", !.pending = {}]),
               Database!Throws([d EXCEPT !.pending = {}])}
    BY <1>4 DEF Database!CommitRefused
  <2>2. \A e \in {d, [d EXCEPT !.transaction = "none", !.pending = {}], [d EXCEPT !.pending = {}]} :
          /\ Sound(e) /\ e.durable = d.durable /\ e.pending \in {d.pending, {}}
          /\ e.autoCommit = d.autoCommit /\ e.vendor = d.vendor
    BY DEF Sound, Connections, Database!Connection
  <2>3. PICK e \in {d, [d EXCEPT !.transaction = "none", !.pending = {}], [d EXCEPT !.pending = {}]} :
          r = [db |-> e, threw |-> "error"]
    BY <2>1 DEF Database!Throws
  <2>4. e = r.db /\ r.threw = "error" BY <2>3
  <2> HIDE DEF Sound
  <2>5. r \in Result BY <2>2, <2>3 DEF Result, Sound
  <2> QED BY <2>2, <2>4, <2>5 DEF EndedAs
<1> QED BY <1>1, <1>2, <1>3, <1>4 DEF Database!EndUnitOfWork

(* A statement that throws leaves nothing durable within a transaction.     *)
Thrown(d, effects, r) ==
  /\ r \in Result /\ Sound(r.db) /\ r.threw # ""
  /\ d.durable \subseteq r.db.durable
  /\ r.db.durable \subseteq d.durable \union effects
  /\ r.db.pending \subseteq d.pending \union effects
  /\ d.transaction = "open" => r.db.durable = d.durable /\ r.db.transaction # "none"
  /\ r.db.autoCommit = d.autoCommit /\ r.db.vendor = d.vendor

LEMMA ThrowsResults ==
  ASSUME NEW d, Sound(d), d.transaction # "poisoned", NEW effects \in SUBSET Effects,
         NEW r \in Database!StatementThrows(d, effects)
  PROVE  Thrown(d, effects, r)
<1> DEFINE Fits(e) == /\ Sound(e) /\ d.durable \subseteq e.durable
                      /\ e.durable \subseteq d.durable \union effects
                      /\ e.pending \subseteq d.pending \union effects
                      /\ d.transaction = "open" => e.durable = d.durable /\ e.transaction # "none"
                      /\ e.autoCommit = d.autoCommit /\ e.vendor = d.vendor
           Done(kept) == IF d.transaction = "none" THEN [d EXCEPT !.durable = @ \union kept]
                         ELSE [d EXCEPT !.pending = kept]
           ended == [d EXCEPT !.pending = {}, !.transaction = IF @ = "open" THEN "poisoned" ELSE "none"]
           Kept == {d.pending, d.pending \union effects, {}}
<1>1. Fits(d) BY DEF Sound
<1>2. Fits(ended) BY DEF Sound, Connections, Database!Connection
<1>3. \A kept \in Kept : Fits(Done(kept)) BY DEF Sound, Connections, Database!Connection
<1>4. \E e \in {d, ended} \union {Done(kept) : kept \in Kept}, threw \in {"error", "warning"} :
        r = [db |-> e, threw |-> threw]
  BY DEF Database!StatementThrows, Database!Throws
<1>5. PICK e, threw : threw \in {"error", "warning"} /\ Fits(e) /\ r = [db |-> e, threw |-> threw]
  <2>1. PICK e \in {d, ended} \union {Done(kept) : kept \in Kept}, threw \in {"error", "warning"} :
          r = [db |-> e, threw |-> threw]
    BY <1>4
  <2> HIDE DEF Fits
  <2>2. Fits(e)
    <3>1. e = d \/ e = ended \/ \E kept \in Kept : e = Done(kept) OBVIOUS
    <3> QED BY <1>1, <1>2, <1>3, <3>1
  <2> QED BY <2>1, <2>2
<1>6. r.db = e /\ r.threw = threw BY <1>5
<1>7. r \in Result
  <2>1. e \in Connections BY <1>5 DEF Sound
  <2> HIDE DEF Fits
  <2> QED BY <1>5, <2>1 DEF Result
<1> QED BY <1>5, <1>6, <1>7 DEF Thrown

(* execute(): what was durable stays so; within a transaction nothing of    *)
(* the statement is durable; and a call that returns has done its effects.  *)
Returned(d, effects, r) ==
  /\ d.alive /\ r.db.alive /\ r.db.transaction = d.transaction /\ d.transaction # "poisoned"
  /\ d.transaction = "none" =>
       r.db.durable = d.durable \union effects /\ r.db.pending = d.pending
  /\ d.transaction = "open" /\ d.autoCommit =>
       r.db.durable = d.durable \union d.pending \union effects /\ r.db.pending = {}
  /\ d.transaction = "open" /\ ~d.autoCommit => r.db.pending = d.pending \union effects

Executed(d, effects, r) ==
  /\ r \in Result /\ Sound(r.db)
  /\ d.durable \subseteq r.db.durable
  /\ r.db.durable \subseteq d.durable \union d.pending \union effects
  /\ r.db.pending \subseteq d.pending \union effects
  /\ r.db.autoCommit = d.autoCommit /\ r.db.vendor = d.vendor
  /\ ~d.alive => r.db = d
  /\ (d.alive => d.transaction # "none") /\ ~d.autoCommit
       => r.db.durable = d.durable /\ (r.db.alive => r.db.transaction # "none")
  /\ r.threw = "" => Returned(d, effects, r)

LEMMA ExecuteResults ==
  ASSUME NEW d, Sound(d), NEW effects \in SUBSET Effects, NEW r \in Database!Execute(d, effects)
  PROVE  Executed(d, effects, r)
<1> DEFINE ran == [d EXCEPT !.pending = @ \union effects]
           own == [d EXCEPT !.durable = @ \union effects]
<1>1. Sound(own) /\ (d.transaction # "none" => Sound(ran))
  BY DEF Sound, Connections, Database!Connection
<1>2. CASE r = Database!Throws(d) /\ (~d.alive \/ d.transaction = "poisoned")
  BY <1>2 DEF Database!Throws, Result, Sound, Executed
<1>3. CASE d.alive /\ d.transaction # "poisoned" /\ r \in Database!StatementThrows(d, effects)
  <2> HIDE DEF ran, own
  <2>1. Thrown(d, effects, r) BY <1>3, ThrowsResults
  <2>2. d.transaction \in {"none", "open", "poisoned"} BY DEF Sound, Connections, Database!Connection
  <2> HIDE DEF Sound
  <2> QED BY <1>3, <2>1, <2>2 DEF Thrown, Executed
<1>4. CASE d.alive /\ d.transaction # "poisoned" /\ r = Database!Breaks(d)
  BY <1>4, BreaksResult DEF Executed
<1>5. CASE d.alive /\ d.transaction = "none" /\ r = Database!Returns(own)
  <2>1. r = [db |-> own, threw |-> ""] BY <1>5 DEF Database!Returns
  <2>2. own \in Connections BY <1>1 DEF Sound
  <2>3. r \in Result /\ r.db = own /\ r.threw = "" BY <2>1, <2>2 DEF Result
  <2> QED BY <1>1, <1>5, <2>3, ZenonT(40) DEF Sound, Connections, Database!Connection, Executed, Returned
<1>6. CASE d.alive /\ d.transaction = "none" /\ r = Database!Breaks(own)
  <2>1. /\ own.durable = d.durable \union effects /\ own.autoCommit = d.autoCommit /\ own.vendor = d.vendor
    BY DEF Sound, Connections, Database!Connection
  <2> HIDE DEF own
  <2>2. /\ r \in Result /\ Sound(r.db) /\ ~r.db.alive /\ r.threw = "error" /\ r.db.pending = {}
        /\ r.db.durable = own.durable /\ r.db.autoCommit = own.autoCommit /\ r.db.vendor = own.vendor
    BY <1>1, <1>6, BreaksResult
  <2> QED BY <1>6, <2>1, <2>2 DEF Executed
<1>7. CASE d.alive /\ d.transaction = "open" /\ d.autoCommit /\ r \in Database!EndUnitOfWork(ran, TRUE)
  <2>1. /\ ran.durable = d.durable /\ ran.pending = d.pending \union effects
        /\ ran.autoCommit = d.autoCommit /\ ran.vendor = d.vendor
    BY DEF Sound, Connections, Database!Connection
  <2> HIDE DEF ran
  <2>2. Sound(ran) BY <1>1, <1>7
  <2>3. EndedAs(ran, TRUE, r) BY <1>7, <2>2, EndResults
  <2> HIDE DEF Sound
  <2> QED BY <1>7, <2>1, <2>3 DEF EndedAs, Executed, Returned
<1>8. CASE d.alive /\ d.transaction = "open" /\ ~d.autoCommit /\ r = Database!Returns(ran)
  <2>1. r = [db |-> ran, threw |-> ""] BY <1>8 DEF Database!Returns
  <2>2. ran \in Connections BY <1>1, <1>8 DEF Sound
  <2>3. r \in Result /\ r.db = ran /\ r.threw = "" BY <2>1, <2>2 DEF Result
  <2> QED BY <1>1, <1>8, <2>3 DEF Sound, Connections, Database!Connection, Executed, Returned
<1>9. d.transaction \in {"none", "open", "poisoned"} BY DEF Sound, Connections, Database!Connection
<1> QED BY <1>2, <1>3, <1>4, <1>5, <1>6, <1>7, <1>8, <1>9 DEF Database!Execute

LEMMA CommitOrRollbackResults ==
  ASSUME NEW d, Sound(d), ~d.autoCommit, NEW commit_ \in BOOLEAN,
         NEW r \in Database!CommitOrRollback(d, commit_)
  PROVE  EndedAs(d, commit_, r)
BY EndResults DEF Database!CommitOrRollback

LEMMA SetAutoCommitResults ==
  ASSUME NEW vendor \in Database!AllVendors, NEW on \in BOOLEAN,
         NEW r \in Database!SetAutoCommit(Database!Opened(vendor), on)
  PROVE  /\ r \in Result /\ Sound(r.db) /\ r.db.durable = {} /\ r.db.pending = {}
         /\ r.db.alive => r.db.autoCommit = on /\ (~on => r.db.transaction = "open")
         /\ r.threw = "" => r.db.alive
<1> DEFINE d == Database!Opened(vendor)
           n == [d EXCEPT !.autoCommit = on, !.transaction = "open"]
<1>1. /\ Sound(d) /\ d.alive /\ d.autoCommit /\ d.durable = {} /\ d.pending = {}
  BY DEF Database!Opened, Sound, Connections, Database!Connection
<1>2. /\ Sound(n) /\ n.alive /\ n.autoCommit = on /\ n.transaction = "open"
      /\ n.durable = {} /\ n.pending = {}
  BY DEF Database!Opened, Sound, Connections, Database!Connection
<1>3. on \/ d.autoCommit # on BY <1>1
<1>4. r = Database!Breaks(d) \/ (on /\ r = [db |-> d, threw |-> ""]) \/ r = [db |-> n, threw |-> ""]
  BY <1>1 DEF Database!SetAutoCommit, Database!Returns
<1> HIDE DEF d, n
<1>5. CASE r = Database!Breaks(d)
  <2>1. /\ r \in Result /\ Sound(r.db) /\ ~r.db.alive /\ r.threw = "error" /\ r.db.pending = {}
        /\ r.db.durable = d.durable
    BY <1>1, <1>5, BreaksResult
  <2> QED BY <1>1, <2>1
<1>6. CASE on /\ r = [db |-> d, threw |-> ""]
  <2>1. r.db = d /\ r.threw = "" /\ r \in Result BY <1>1, <1>6 DEF Sound, Result
  <2> QED BY <1>1, <1>6, <2>1
<1>7. CASE r = [db |-> n, threw |-> ""]
  <2>1. r.db = n /\ r.threw = "" /\ r \in Result BY <1>2, <1>7 DEF Sound, Result
  <2> QED BY <1>2, <1>7, <2>1
<1> QED BY <1>4, <1>5, <1>6, <1>7
-------------------------------------------------------------------------------
(* The inductive invariant: what holds between the calls of run().          *)

Running == pc \in {"queryOptimization", "run", "check", "end"}
Over    == pc \in {"exit", "close", "closed"}

Replies ==
  /\ reply.code = "true" => reply.by = "batch"
  /\ pc = "setAutoCommit" \/ Running => reply.by = "batch"

Fresh ==
  pc = "setAutoCommit" =>
    /\ \E vendor \in Database!AllVendors : db = Database!Opened(vendor)
    /\ position = 0 /\ failed = {} /\ unit = {}

(* One transaction: nothing is durable, all that was done is pending.  *)
InUnit ==
  Running /\ ~request.commitEach =>
    /\ ~db.autoCommit
    /\ db.durable = {} /\ db.pending = unit /\ unit \subseteq Statements
    /\ db.alive => db.transaction # "none"
    /\ failed = {} => unit = 1..position

(* One for each statement: nothing is pending, as long as none has failed.  *)
InEach ==
  Running /\ request.commitEach =>
    /\ db.autoCommit
    /\ failed = {} => db.durable = 1..position /\ db.pending = {}

(* Before the exit SQL: a unit that was ended is in its next transaction,   *)
(* whose work will not be committed.                                        *)
AtExit ==
  pc = "exit" =>
    /\ reply.code = "true" /\ failed = {} => db.pending = {}
    /\ ~request.commitEach =>
         /\ db.alive => ~db.autoCommit
         /\ reply.by = "batch" => ~db.autoCommit /\ db.transaction = "open"

AtEnd ==
  Over =>
    /\ reply.code = "true" /\ failed = {} => db.durable \ {ExitSQL} = 1..position
    /\ reply = [code |-> "false", by |-> "batch"] /\ ~request.commitEach /\ ~commit
         => db.durable = {}

IInv == TypeOK /\ Sound(db) /\ Replies /\ Fresh /\ InUnit /\ InEach /\ AtExit /\ AtEnd

(* How run() goes on after a call that threw, for any of them.  *)
LEMMA CaughtPreserves ==
  ASSUME TypeOK, Replies, Caught, Sound(db'), failed' \in SUBSET Statements, unit' \in SUBSET Effects,
         position' \in 0..request.count, outcome' \in Outcomes, request' = request,
         ~request.commitEach => (db.alive => ~db.autoCommit)'
  PROVE  IInv'
<1>1. /\ pc' = "exit" /\ reply' = [code |-> "false", by |-> "error"] /\ commit' = commit BY DEF Caught
<1>2. reply'.code = "false" /\ reply'.by = "error" BY <1>1
<1>3. TypeOK' BY <1>1 DEF TypeOK, Labels, Sound, Connections
<1>4. (Replies /\ Fresh /\ InUnit /\ InEach)' BY <1>1, <1>2 DEF Replies, Fresh, InUnit, InEach, Running
<1>5. (AtExit /\ AtEnd)' BY <1>1, <1>2 DEF AtExit, AtEnd, Over
<1> QED BY <1>3, <1>4, <1>5 DEF IInv

LEMMA InitIInv == Init => IInv
<1> SUFFICES ASSUME Init PROVE IInv OBVIOUS
<1>1. PICK vendor \in Vendors : db = Database!Opened(vendor) BY DEF Init
<1>2. vendor \in Database!AllVendors OBVIOUS
<1>3. Sound(db) /\ db \in Database!Connection
  BY <1>1, <1>2 DEF Database!Opened, Sound, Connections, Database!Connection
<1>4. TypeOK
  <2>1. request.count \in Nat BY DEF Init, Requests
  <2>2. Unrun \in Outcomes BY DEF Unrun, Outcomes
  <2>3. position \in 0..request.count BY <2>1 DEF Init
  <2>4. reply \in [code: {"true", "false"}, by: {"batch", "error", "exit"}] BY DEF Init
  <2> QED BY <1>3, <2>2, <2>3, <2>4 DEF Init, TypeOK, Labels
<1>5. Fresh BY <1>1, <1>2 DEF Init, Fresh
<1>6. Replies /\ InUnit /\ InEach /\ AtExit /\ AtEnd
  BY DEF Init, Replies, InUnit, InEach, AtExit, AtEnd, Running, Over
<1> QED BY <1>3, <1>4, <1>5, <1>6 DEF IInv

LEMMA SetAutoCommitPreserves == IInv /\ SetAutoCommit => IInv'
<1> SUFFICES ASSUME IInv, SetAutoCommit PROVE IInv' OBVIOUS
<1>1. PICK r \in Database!SetAutoCommit(db, request.commitEach) :
        /\ db' = r.db
        /\ IF r.threw = "" THEN pc' = "queryOptimization" /\ UNCHANGED <<commit, reply>> ELSE Caught
  BY DEF SetAutoCommit, Calls
<1>2. pc = "setAutoCommit" /\ UNCHANGED <<request, position, outcome, failed, unit>>
  BY DEF SetAutoCommit
<1>3. PICK vendor \in Database!AllVendors : db = Database!Opened(vendor)
  BY <1>2 DEF IInv, Fresh
<1>4. request.commitEach \in BOOLEAN BY DEF IInv, TypeOK, Requests
<1>5. /\ r \in Result /\ Sound(r.db) /\ r.db.durable = {} /\ r.db.pending = {}
      /\ r.db.alive => r.db.autoCommit = request.commitEach
                       /\ (~request.commitEach => r.db.transaction = "open")
      /\ r.threw = "" => r.db.alive
  BY <1>1, <1>3, <1>4, SetAutoCommitResults
<1>6. position = 0 /\ failed = {} /\ unit = {} BY <1>2 DEF IInv, Fresh
<1>7. CASE r.threw # ""
  <2>1. Caught BY <1>1, <1>7
  <2> HIDE DEF Sound
  <2>2. Sound(db') /\ (~request.commitEach => (db.alive => ~db.autoCommit)') BY <1>1, <1>5
  <2> QED BY <1>2, <2>1, <2>2, CaughtPreserves DEF IInv, TypeOK
<1>8. CASE r.threw = ""
  <2>1. pc' = "queryOptimization" /\ UNCHANGED <<commit, reply>> BY <1>1, <1>8
  <2>2. TypeOK' BY <1>1, <1>2, <1>5, <2>1 DEF IInv, TypeOK, Labels, Sound, Connections
  <2>3. Sound(db') BY <1>1, <1>5
  <2>4. (Replies /\ Fresh /\ AtExit /\ AtEnd)'
    BY <1>2, <2>1 DEF IInv, Replies, Fresh, AtExit, AtEnd, Running, Over
  <2>5. 1..position = {} BY <1>6
  <2>6. (InUnit /\ InEach)' BY <1>1, <1>2, <1>5, <1>6, <1>8, <2>1, <2>5 DEF InUnit, InEach
  <2> QED BY <2>2, <2>3, <2>4, <2>6 DEF IInv
<1> QED BY <1>7, <1>8

(* The rest of run() starts from a connection that setAutoCommit has set up. *)
LEMMA RunningFacts ==
  ASSUME IInv, Running
  PROVE  /\ Sound(db) /\ db.alive \in BOOLEAN /\ db.transaction \in {"none", "open", "poisoned"}
         /\ reply.by = "batch" /\ db.autoCommit = request.commitEach /\ request.commitEach \in BOOLEAN
  BY DEF IInv, InUnit, InEach, Replies, TypeOK, Requests, Sound, Connections, Database!Connection

LEMMA SetQueryOptimizationPreserves == IInv /\ SetQueryOptimization => IInv'
<1> SUFFICES ASSUME IInv, SetQueryOptimization PROVE IInv' OBVIOUS
<1>1. pc = "queryOptimization" /\ UNCHANGED <<request, position, outcome, failed, unit>>
  BY DEF SetQueryOptimization
<1>2. Running BY <1>1 DEF Running
<1>3. /\ Sound(db) /\ db.alive \in BOOLEAN /\ db.transaction \in {"none", "open", "poisoned"}
      /\ reply.by = "batch" /\ db.autoCommit = request.commitEach /\ request.commitEach \in BOOLEAN
  BY <1>2, RunningFacts
<1>4. \/ db' = db
      \/ \E r \in Database!Execute(db, {}) :
           db' = r.db /\ (Caught \/ (r.threw = "" /\ pc' = "run" /\ UNCHANGED <<commit, reply>>))
  <2>1. request.queryOpt \in {"none", "valid", "invalid"} BY DEF IInv, TypeOK, Requests
  <2>2. CASE request.queryOpt = "none"
    <3>1. PICK r \in Received : db' = r.db BY <2>2 DEF SetQueryOptimization, Calls
    <3>2. r = [db |-> db, threw |-> "error"] \/ r = [db |-> db, threw |-> ""]
      BY <3>1 DEF Received, Database!Throws, Database!Returns
    <3>3. CASE r = [db |-> db, threw |-> "error"] BY <3>1, <3>3
    <3>4. CASE r = [db |-> db, threw |-> ""] BY <3>1, <3>4
    <3> QED BY <3>2, <3>3, <3>4
  <2>3. CASE request.queryOpt = "invalid"
    BY <2>3 DEF SetQueryOptimization, Calls, Database!Throws
  <2>4. CASE request.queryOpt = "valid"
    BY <2>4 DEF SetQueryOptimization
  <2> QED BY <2>1, <2>2, <2>3, <2>4
<1>5. Caught \/ (pc' = "run" /\ UNCHANGED <<commit, reply>>)
  <2>1. request.queryOpt \in {"none", "valid", "invalid"} BY DEF IInv, TypeOK, Requests
  <2>2. CASE request.queryOpt = "none" BY <2>2 DEF SetQueryOptimization, Calls
  <2>3. CASE request.queryOpt = "invalid" BY <2>3 DEF SetQueryOptimization, Calls
  <2>4. CASE request.queryOpt = "valid" BY <2>4 DEF SetQueryOptimization
  <2> QED BY <2>1, <2>2, <2>3, <2>4
<1>6. /\ Sound(db') /\ db'.autoCommit = db.autoCommit
      /\ ~Caught => \/ db' = db
                    \/ /\ db'.alive
                       /\ db.autoCommit /\ db.pending = {} =>
                            db'.pending = {} /\ db'.durable = db.durable
                       /\ ~db.autoCommit /\ (db.alive => db.transaction # "none") =>
                            /\ db'.pending = db.pending /\ db'.durable = db.durable
                            /\ db'.transaction # "none"
  <2>1. CASE db' = db BY <1>3, <2>1
  <2>2. CASE \E r \in Database!Execute(db, {}) :
              db' = r.db /\ (Caught \/ (r.threw = "" /\ pc' = "run" /\ UNCHANGED <<commit, reply>>))
    <3>1. PICK r \in Database!Execute(db, {}) : db' = r.db /\ (Caught \/ r.threw = "") BY <2>2
    <3>2. {} \in SUBSET Effects OBVIOUS
    <3>3. Executed(db, {}, r) BY <1>3, <3>1, <3>2, ExecuteResults
    <3> HIDE DEF Sound
    <3>4. Sound(db') /\ db'.autoCommit = db.autoCommit BY <3>1, <3>3 DEF Executed
    <3>5. CASE r.threw = "" BY <1>3, <3>1, <3>3, <3>4, <3>5 DEF Executed, Returned
    <3> QED BY <3>1, <3>4, <3>5
  <2> QED BY <1>4, <2>1, <2>2
<1>7. CASE Caught
  <2>1. ~request.commitEach => (db.alive => ~db.autoCommit)' BY <1>3, <1>6
  <2> HIDE DEF Sound
  <2> QED BY <1>1, <1>6, <1>7, <2>1, CaughtPreserves DEF IInv, TypeOK
<1>8. CASE ~Caught
  <2>1. pc' = "run" /\ UNCHANGED <<commit, reply>> BY <1>5, <1>8
  <2>2. TypeOK' BY <1>1, <1>6, <2>1 DEF IInv, TypeOK, Labels, Sound, Connections
  <2>3. (Replies /\ Fresh /\ AtExit /\ AtEnd)'
    BY <1>1, <2>1 DEF IInv, Replies, Fresh, AtExit, AtEnd, Running, Over
  <2> HIDE DEF Sound
  <2>4. InUnit' BY <1>1, <1>2, <1>3, <1>6, <1>8 DEF IInv, InUnit
  <2>5. InEach' BY <1>1, <1>2, <1>3, <1>6, <1>8 DEF IInv, InEach
  <2> QED BY <1>6, <2>2, <2>3, <2>4, <2>5 DEF IInv
<1> QED BY <1>7, <1>8

LEMMA RunStatementPreserves == IInv /\ RunStatement => IInv'
<1> SUFFICES ASSUME IInv, RunStatement PROVE IInv' OBVIOUS
<1>1. /\ pc = "run" /\ position < request.count /\ position' = position + 1
      /\ UNCHANGED <<request, commit>>
  BY DEF RunStatement
<1>2. Running BY <1>1 DEF Running
<1>3. /\ Sound(db) /\ db.alive \in BOOLEAN /\ db.transaction \in {"none", "open", "poisoned"}
      /\ reply.by = "batch" /\ db.autoCommit = request.commitEach /\ request.commitEach \in BOOLEAN
  BY <1>2, RunningFacts
<1>4. PICK r \in Database!Execute(db, {position'}) :
        /\ db' = r.db
        /\ unit' = r.db.pending
        /\ failed' = (IF r.threw = "" THEN failed ELSE failed \union {position'})
        /\ \E rows \in IF r.threw = "" THEN Results ELSE Results \union {<<>>} :
             outcome' = [statementSucceed |-> r.threw = "" \/ Warned(r.threw), rows |-> rows]
        /\ reply' = IF r.threw = "" \/ Warned(r.threw) THEN reply ELSE [reply EXCEPT !.code = "false"]
        /\ pc' \in {"end", "check"}
  BY DEF RunStatement
<1>5. position \in Nat /\ position' \in 0..request.count /\ position' \in Statements
      /\ 1..position' = (1..position) \union {position'}
  BY <1>1 DEF IInv, TypeOK, Requests, Statements
<1>6. Executed(db, {position'}, r)
  <2>1. {position'} \in SUBSET Effects BY <1>5 DEF Effects
  <2> QED BY <1>3, <1>4, <2>1, ExecuteResults
<1>7. TypeOK'
  <2>1. outcome' \in Outcomes
    <3>1. Warned(r.threw) \in BOOLEAN BY DEF Warned
    <3>2. PICK rows \in Results \union {<<>>} :
            outcome' = [statementSucceed |-> r.threw = "" \/ Warned(r.threw), rows |-> rows]
      BY <1>4
    <3>3. PICK succeeded \in BOOLEAN : outcome' = [statementSucceed |-> succeeded, rows |-> rows]
      BY <3>1, <3>2
    <3> QED BY <3>3 DEF Outcomes
  <2>2. reply' \in [code: {"true", "false"}, by: {"batch", "error", "exit"}]
    BY <1>4 DEF IInv, TypeOK
  <2>3. db' \in Database!Connection /\ unit' \in SUBSET Effects
    <3>1. r.db \in Database!Connection BY <1>6 DEF Executed, Sound, Connections
    <3> QED BY <1>4, <3>1 DEF Database!Connection
  <2>4. failed' \subseteq Statements BY <1>4, <1>5 DEF IInv, TypeOK
  <2>5. /\ request' \in Requests /\ pc' \in Labels /\ position' \in 0..request'.count
        /\ commit' \in BOOLEAN
    BY <1>1, <1>4, <1>5 DEF IInv, TypeOK, Labels
  <2> QED BY <2>1, <2>2, <2>3, <2>4, <2>5 DEF TypeOK
<1>8. (Replies /\ Fresh /\ AtExit /\ AtEnd)'
  <2>1. reply'.by = "batch" BY <1>3, <1>4 DEF IInv, TypeOK
  <2> QED BY <1>4, <2>1 DEF Replies, Fresh, AtExit, AtEnd, Running, Over
<1> HIDE DEF Sound
<1>9. failed' = {} => failed = {} /\ r.threw = "" BY <1>4
<1>10. InUnit'
  <2>1. SUFFICES ASSUME ~request.commitEach
        PROVE  /\ ~db'.autoCommit
               /\ db'.durable = {} /\ db'.pending = unit' /\ unit' \subseteq Statements
               /\ db'.alive => db'.transaction # "none"
               /\ failed' = {} => unit' = 1..position'
    BY <1>1 DEF InUnit
  <2>2. /\ ~db.autoCommit
        /\ db.durable = {} /\ db.pending = unit /\ unit \subseteq Statements
        /\ db.alive => db.transaction # "none"
        /\ failed = {} => unit = 1..position
    BY <1>2, <2>1 DEF IInv, InUnit
  <2>3. /\ ~r.db.autoCommit /\ r.db.durable = {} /\ (r.db.alive => r.db.transaction # "none")
        /\ r.db.pending \subseteq db.pending \union {position'}
    BY <1>6, <2>2 DEF Executed
  <2>4. r.threw = "" => r.db.pending = db.pending \union {position'}
    BY <1>3, <1>6, <2>2 DEF Executed, Returned
  <2> QED BY <1>4, <1>5, <1>9, <2>2, <2>3, <2>4
<1>11. InEach'
  <2>1. SUFFICES ASSUME request.commitEach
        PROVE  /\ db'.autoCommit
               /\ failed' = {} => db'.durable = 1..position' /\ db'.pending = {}
    BY <1>1 DEF InEach
  <2>2. /\ db.autoCommit
        /\ failed = {} => db.durable = 1..position /\ db.pending = {}
    BY <1>2, <2>1 DEF IInv, InEach
  <2>3. r.db.autoCommit BY <1>6, <2>2 DEF Executed
  <2>4. r.threw = "" /\ db.pending = {} =>
          r.db.durable = db.durable \union {position'} /\ r.db.pending = {}
    BY <1>3, <1>6, <2>2 DEF Executed, Returned
  <2> QED BY <1>4, <1>5, <1>9, <2>2, <2>3, <2>4
<1>12. Sound(db') BY <1>4, <1>6 DEF Executed
<1> QED BY <1>7, <1>8, <1>10, <1>11, <1>12 DEF IInv

LEMMA StatementThrowsPreserves == IInv /\ StatementThrows => IInv'
<1> SUFFICES ASSUME IInv, StatementThrows PROVE IInv' OBVIOUS
<1>1. /\ pc = "run" /\ position < request.count /\ position' = position + 1 /\ Caught
      /\ UNCHANGED <<request, outcome, db, failed, unit>>
  BY DEF StatementThrows
<1>2. Running BY <1>1 DEF Running
<1>3. Sound(db) /\ db.autoCommit = request.commitEach BY <1>2, RunningFacts
<1>4. position' \in 0..request.count BY <1>1 DEF IInv, TypeOK, Requests
<1>5. Sound(db') BY <1>1, <1>3
<1> HIDE DEF Sound
<1> QED BY <1>1, <1>3, <1>4, <1>5, CaughtPreserves DEF IInv, TypeOK

LEMMA AllRunPreserves == IInv /\ AllRun => IInv'
<1> SUFFICES ASSUME IInv, AllRun PROVE IInv' OBVIOUS
<1>1. /\ pc = "run" /\ pc' = "end"
      /\ UNCHANGED <<request, position, outcome, commit, reply, db, failed, unit>>
  BY DEF AllRun
<1>2. TypeOK' BY <1>1 DEF IInv, TypeOK, Labels
<1>3. Sound(db') BY <1>1 DEF IInv
<1>4. (Replies /\ Fresh /\ AtExit /\ AtEnd)'
  BY <1>1 DEF IInv, Replies, Fresh, AtExit, AtEnd, Running, Over
<1>5. (InUnit /\ InEach)' BY <1>1 DEF IInv, InUnit, InEach, Running
<1> QED BY <1>2, <1>3, <1>4, <1>5 DEF IInv

(* A condition that stops the batch decides its reply; one that lets it go  *)
(* on never asks for a commit, so the connection is left alone.             *)
LEMMA ApplyConditionsEffect ==
  ASSUME IInv, ApplyConditions
  PROVE  /\ pc = "check" /\ db' = db /\ UNCHANGED <<request, position, failed, unit>>
         /\ outcome' = Unrun
         /\ \/ pc' = "run" /\ UNCHANGED <<commit, reply>>
            \/ /\ pc' = "end" /\ commit' \in BOOLEAN
               /\ \E code \in {"true", "false"} : reply' = [reply EXCEPT !.code = code]
<1>1. PICK conditions \in ConditionLists \union {NoConditions} :
        LET check == IF conditions = NoConditions THEN GoOn ELSE Check(conditions, outcome.rows) IN
        IF ~check.returnValue
          THEN /\ reply' = [reply EXCEPT !.code = check.returnCode]
               /\ commit' = check.commit
               /\ pc' = "end"
               /\ UNCHANGED db
          ELSE Calls(IF check.commit /\ ~request.commitEach
                       THEN Database!CommitOrRollback(db, TRUE) ELSE {Database!Returns(db)}, "run")
  BY DEF ApplyConditions
<1> DEFINE check == IF conditions = NoConditions THEN GoOn ELSE Check(conditions, outcome.rows)
<1>2. check \in Decisions /\ (check.returnValue => ~check.commit)
  <2>1. CASE conditions = NoConditions BY <2>1 DEF GoOn, Decisions
  <2>2. CASE conditions # NoConditions BY <2>2, CheckDecides
  <2> QED BY <2>1, <2>2
<1> HIDE DEF check
<1>3. CASE ~check.returnValue
  <2>1. /\ reply' = [reply EXCEPT !.code = check.returnCode] /\ commit' = check.commit
        /\ pc' = "end" /\ UNCHANGED db
    BY <1>1, <1>3 DEF check
  <2>2. check.returnCode \in {"true", "false"} /\ check.commit \in BOOLEAN BY <1>2 DEF Decisions
  <2> QED BY <2>1, <2>2 DEF ApplyConditions
<1>4. CASE check.returnValue
  <2>1. Calls(IF check.commit /\ ~request.commitEach
                THEN Database!CommitOrRollback(db, TRUE) ELSE {Database!Returns(db)}, "run")
    BY <1>1, <1>4 DEF check
  <2>2. Calls({Database!Returns(db)}, "run") BY <1>2, <1>4, <2>1
  <2>3. db' = db /\ pc' = "run" /\ UNCHANGED <<commit, reply>>
    <3>1. PICK r \in {Database!Returns(db)} :
            /\ db' = r.db
            /\ IF r.threw = "" THEN pc' = "run" /\ UNCHANGED <<commit, reply>> ELSE Caught
      BY <2>2 DEF Calls
    <3>2. r = [db |-> db, threw |-> ""] BY <3>1 DEF Database!Returns
    <3>3. r.db = db /\ r.threw = "" BY <3>2
    <3> QED BY <3>1, <3>3
  <2> QED BY <2>3 DEF ApplyConditions
<1> QED BY <1>2, <1>3, <1>4 DEF Decisions

LEMMA ApplyConditionsPreserves == IInv /\ ApplyConditions => IInv'
<1> SUFFICES ASSUME IInv, ApplyConditions PROVE IInv' OBVIOUS
<1>1. /\ pc = "check" /\ db' = db /\ UNCHANGED <<request, position, failed, unit>> /\ outcome' = Unrun
      /\ pc' \in {"run", "end"} /\ commit' \in BOOLEAN
      /\ reply' = reply \/ \E code \in {"true", "false"} : reply' = [reply EXCEPT !.code = code]
  BY ApplyConditionsEffect DEF IInv, TypeOK
<1>2. Running BY <1>1 DEF Running
<1>3. /\ reply'.by = "batch" /\ reply' \in [code: {"true", "false"}, by: {"batch", "error", "exit"}]
  BY <1>1, <1>2, RunningFacts DEF IInv, TypeOK
<1>4. outcome' \in Outcomes BY <1>1 DEF Unrun, Outcomes
<1>5. TypeOK' BY <1>1, <1>3, <1>4 DEF IInv, TypeOK, Labels
<1>6. Sound(db') BY <1>1 DEF IInv
<1>7. (Replies /\ Fresh /\ AtExit /\ AtEnd)'
  BY <1>1, <1>3 DEF Replies, Fresh, AtExit, AtEnd, Running, Over
<1>8. (InUnit /\ InEach)' BY <1>1 DEF IInv, InUnit, InEach, Running
<1> QED BY <1>5, <1>6, <1>7, <1>8 DEF IInv

(* How a call at the end of the unit of work ends.  *)
LEMMA EndUnitOfWorkEffect ==
  ASSUME IInv, EndUnitOfWork
  PROVE  /\ pc = "end" /\ UNCHANGED <<request, position, outcome, failed, unit>>
         /\ Sound(db') /\ db'.autoCommit = db.autoCommit
         /\ Caught \/ (pc' = "exit" /\ UNCHANGED <<commit, reply>>)
         /\ request.commitEach => db' = db
         /\ ~request.commitEach =>
              /\ db'.durable \in {{}, unit}
              /\ db'.durable # {} => reply.code = "true" \/ commit
              /\ ~Caught => /\ db'.transaction = "open" /\ db'.pending = {}
                            /\ reply.code = "true" => db'.durable = unit
<1>1. pc = "end" /\ UNCHANGED <<request, position, outcome, failed, unit>> BY DEF EndUnitOfWork
<1>2. Running BY <1>1 DEF Running
<1>3. /\ Sound(db) /\ reply.by = "batch" /\ db.autoCommit = request.commitEach
      /\ request.commitEach \in BOOLEAN
  BY <1>2, RunningFacts
<1>4. CASE request.commitEach
  <2>1. PICK r \in {Database!Returns(db)} :
          /\ db' = r.db
          /\ IF r.threw = "" THEN pc' = "exit" /\ UNCHANGED <<commit, reply>> ELSE Caught
    BY <1>4 DEF EndUnitOfWork, Calls
  <2>2. r = [db |-> db, threw |-> ""] BY <2>1 DEF Database!Returns
  <2>3. r.db = db /\ r.threw = "" BY <2>2
  <2> QED BY <1>1, <1>3, <1>4, <2>1, <2>3
<1>5. CASE ~request.commitEach
  <2> DEFINE commits == IF reply.code = "false" THEN commit ELSE TRUE
  <2>1. commits \in BOOLEAN /\ (commits => reply.code = "true" \/ commit)
        /\ (reply.code = "true" => commits)
    BY DEF IInv, TypeOK
  <2>2. PICK r \in Database!CommitOrRollback(db, commits) :
          /\ db' = r.db
          /\ IF r.threw = "" THEN pc' = "exit" /\ UNCHANGED <<commit, reply>> ELSE Caught
    BY <1>5 DEF EndUnitOfWork, Calls
  <2> HIDE DEF commits
  <2>3. ~db.autoCommit /\ db.durable = {} /\ db.pending = unit BY <1>2, <1>5 DEF IInv, InUnit
  <2>4. EndedAs(db, commits, r) BY <1>3, <2>1, <2>2, <2>3, CommitOrRollbackResults
  <2> HIDE DEF Sound
  <2>5. /\ Sound(r.db) /\ r.db.autoCommit = db.autoCommit /\ r.db.durable \in {{}, unit}
        /\ r.db.durable # {} => commits
        /\ r.threw = "" => /\ r.db.transaction = "open" /\ r.db.pending = {}
                           /\ commits => r.db.durable = unit
    BY <2>3, <2>4 DEF EndedAs
  <2> QED BY <1>1, <1>5, <2>1, <2>2, <2>5
<1> QED BY <1>3, <1>4, <1>5

LEMMA EndUnitOfWorkPreserves == IInv /\ EndUnitOfWork => IInv'
<1> SUFFICES ASSUME IInv, EndUnitOfWork PROVE IInv' OBVIOUS
<1>1. /\ pc = "end" /\ UNCHANGED <<request, position, outcome, failed, unit>>
      /\ Sound(db') /\ db'.autoCommit = db.autoCommit
      /\ Caught \/ (pc' = "exit" /\ UNCHANGED <<commit, reply>>)
      /\ request.commitEach => db' = db
      /\ ~request.commitEach =>
           /\ db'.durable \in {{}, unit}
           /\ db'.durable # {} => reply.code = "true" \/ commit
           /\ ~Caught => /\ db'.transaction = "open" /\ db'.pending = {}
                         /\ reply.code = "true" => db'.durable = unit
  BY EndUnitOfWorkEffect
<1>2. Running BY <1>1 DEF Running
<1>3. reply.by = "batch" /\ db.autoCommit = request.commitEach /\ request.commitEach \in BOOLEAN
  BY <1>2, RunningFacts
<1>4. CASE Caught
  <2> HIDE DEF Sound
  <2> QED BY <1>1, <1>3, <1>4, CaughtPreserves DEF IInv, TypeOK
<1>5. CASE ~Caught
  <2>1. pc' = "exit" /\ UNCHANGED <<commit, reply>> BY <1>1, <1>5
  <2>2. TypeOK' BY <1>1, <2>1 DEF IInv, TypeOK, Labels, Sound, Connections
  <2> HIDE DEF Sound
  <2>3. (Replies /\ Fresh /\ InUnit /\ InEach)'
    BY <1>1, <2>1 DEF IInv, Replies, Fresh, InUnit, InEach, Running
  <2>4. 0 \notin 1..position BY DEF IInv, TypeOK
  <2>5. /\ ~request.commitEach /\ failed = {} => unit = 1..position
        /\ request.commitEach /\ failed = {} => db.durable = 1..position /\ db.pending = {}
    BY <1>2 DEF IInv, InUnit, InEach
  <2>6. AtExit' BY <1>1, <1>3, <1>5, <2>1, <2>5 DEF AtExit
  <2>7. AtEnd'
    <3>1. reply.code = "true" /\ failed = {} => db'.durable = 1..position
      BY <1>1, <1>3, <1>5, <2>5
    <3>2. reply.code = "false" /\ ~request.commitEach /\ ~commit => db'.durable = {} BY <1>1
    <3>3. reply = [code |-> "false", by |-> "batch"] => reply.code = "false" OBVIOUS
    <3> QED BY <1>1, <2>1, <2>4, <3>1, <3>2, <3>3 DEF AtEnd, ExitSQL
  <2> QED BY <1>1, <2>2, <2>3, <2>6, <2>7 DEF IInv
<1> QED BY <1>4, <1>5

(* The exit SQL changes nothing that is durable of the batch: what it does  *)
(* is pending in the transaction that follows, or it is durable by itself.  *)
LEMMA RunExitSQLEffect ==
  ASSUME IInv, RunExitSQL
  PROVE  /\ pc = "exit" /\ pc' = "close" /\ UNCHANGED <<request, position, outcome, commit, failed, unit>>
         /\ Sound(db')
         /\ reply' = reply \/ reply' = [code |-> "false", by |-> "exit"]
         /\ db.durable \subseteq db'.durable
         /\ db'.durable \subseteq db.durable \union db.pending \union {ExitSQL}
         /\ ~request.commitEach =>
              /\ db'.durable \ {ExitSQL} = db.durable \ {ExitSQL}
              /\ reply.by = "batch" => db'.durable = db.durable
<1>1. pc = "exit" /\ pc' = "close" /\ UNCHANGED <<request, position, outcome, commit, failed, unit>>
  BY DEF RunExitSQL
<1>2. Sound(db) BY DEF IInv
<1>3. CASE UNCHANGED <<db, reply>>
  <2> HIDE DEF Sound
  <2> QED BY <1>1, <1>2, <1>3
<1>4. CASE \E r \in Database!Execute(db, {ExitSQL}) :
             /\ db' = r.db
             /\ reply' = IF r.threw = "" THEN reply ELSE [code |-> "false", by |-> "exit"]
  <2>1. PICK r \in Database!Execute(db, {ExitSQL}) :
          /\ db' = r.db
          /\ reply' = IF r.threw = "" THEN reply ELSE [code |-> "false", by |-> "exit"]
    BY <1>4
  <2>2. {ExitSQL} \in SUBSET Effects BY DEF Effects
  <2>3. Executed(db, {ExitSQL}, r) BY <1>2, <2>1, <2>2, ExecuteResults
  <2>4. /\ db.alive \in BOOLEAN /\ db.transaction \in {"none", "open", "poisoned"}
        /\ db.transaction = "none" => db.pending = {}
    BY <1>2 DEF Sound, Connections, Database!Connection
  <2> HIDE DEF Sound
  <2>5. /\ Sound(db') /\ db.durable \subseteq db'.durable
        /\ db'.durable \subseteq db.durable \union db.pending \union {ExitSQL}
    BY <2>1, <2>3 DEF Executed
  <2>6. ASSUME ~request.commitEach
        PROVE  /\ db'.durable \ {ExitSQL} = db.durable \ {ExitSQL}
               /\ reply.by = "batch" => db'.durable = db.durable
    <3>1. /\ db.alive => ~db.autoCommit
          /\ reply.by = "batch" => ~db.autoCommit /\ db.transaction = "open"
      BY <1>1, <2>6 DEF IInv, AtExit
    <3>2. CASE ~db.alive BY <2>1, <2>3, <3>2 DEF Executed
    <3>3. CASE db.alive /\ db.transaction # "none" BY <2>1, <2>3, <3>1, <3>3 DEF Executed
    <3>4. CASE db.alive /\ db.transaction = "none" BY <2>4, <2>5, <3>1, <3>4
    <3> QED BY <2>4, <3>2, <3>3, <3>4
  <2> QED BY <1>1, <2>1, <2>5, <2>6
<1> QED BY <1>3, <1>4 DEF RunExitSQL

LEMMA RunExitSQLPreserves == IInv /\ RunExitSQL => IInv'
<1> SUFFICES ASSUME IInv, RunExitSQL PROVE IInv' OBVIOUS
<1>1. /\ pc = "exit" /\ pc' = "close" /\ UNCHANGED <<request, position, outcome, commit, failed, unit>>
      /\ Sound(db')
      /\ reply' = reply \/ reply' = [code |-> "false", by |-> "exit"]
      /\ db.durable \subseteq db'.durable
      /\ db'.durable \subseteq db.durable \union db.pending \union {ExitSQL}
      /\ ~request.commitEach /\ reply.by = "batch" => db'.durable = db.durable
  BY RunExitSQLEffect
<1>2. TypeOK' BY <1>1 DEF IInv, TypeOK, Labels, Sound, Connections
<1> HIDE DEF Sound
<1>3. (Replies /\ Fresh /\ InUnit /\ InEach /\ AtExit)'
  BY <1>1 DEF IInv, Replies, Fresh, InUnit, InEach, AtExit, Running
<1>4. AtEnd'
  <2>1. CASE reply' = reply
    <3>1. reply.code = "true" /\ failed = {} =>
            db.pending = {} /\ db.durable \ {ExitSQL} = 1..position
      BY <1>1 DEF IInv, AtExit, AtEnd, Over
    <3>2. reply = [code |-> "false", by |-> "batch"] /\ ~request.commitEach /\ ~commit
            => db.durable = {}
      BY <1>1 DEF IInv, AtEnd, Over
    <3>3. reply = [code |-> "false", by |-> "batch"] => reply.by = "batch" OBVIOUS
    <3> QED BY <1>1, <2>1, <3>1, <3>2, <3>3 DEF AtEnd
  <2>2. CASE reply' = [code |-> "false", by |-> "exit"] BY <2>2 DEF AtEnd
  <2> QED BY <1>1, <2>1, <2>2
<1> QED BY <1>1, <1>2, <1>3, <1>4 DEF IInv

LEMMA ClosePreserves == IInv /\ Close => IInv'
<1> SUFFICES ASSUME IInv, Close PROVE IInv' OBVIOUS
<1>1. /\ pc = "close" /\ pc' = "closed" /\ db' = Database!Closed(db)
      /\ UNCHANGED <<request, position, outcome, commit, reply, failed, unit>>
  BY DEF Close
<1>2. Sound(db') /\ db' \in Database!Connection /\ db'.durable = db.durable
  BY <1>1 DEF IInv, Sound, Connections, Database!Connection, Database!Closed
<1>3. TypeOK' BY <1>1, <1>2 DEF IInv, TypeOK, Labels
<1> HIDE DEF Sound
<1>4. (Replies /\ Fresh /\ InUnit /\ InEach /\ AtExit)'
  BY <1>1 DEF IInv, Replies, Fresh, InUnit, InEach, AtExit, Running
<1>5. AtEnd' BY <1>1, <1>2 DEF IInv, AtEnd, Over
<1> QED BY <1>2, <1>3, <1>4, <1>5 DEF IInv

LEMMA NextPreserves == IInv /\ [Next]_vars => IInv'
<1> SUFFICES ASSUME IInv, [Next]_vars PROVE IInv' OBVIOUS
<1>1. CASE UNCHANGED vars
  BY <1>1 DEF vars, IInv, TypeOK, Sound, Replies, Fresh, InUnit, InEach, AtExit, AtEnd, Running, Over
<1>2. CASE Next
  BY <1>2, SetAutoCommitPreserves, SetQueryOptimizationPreserves, RunStatementPreserves,
     StatementThrowsPreserves, ApplyConditionsPreserves, AllRunPreserves, EndUnitOfWorkPreserves,
     RunExitSQLPreserves, ClosePreserves
     DEF Next
<1> QED BY <1>1, <1>2

(* The connection, the reply and the histories of a request agree at every  *)
(* point of run(), for every batch, every condition and every vendor.       *)
THEOREM InvariantHolds == Spec => []IInv
BY InitIInv, NextPreserves, PTL DEF Spec

THEOREM TypeCorrect == Spec => []TypeOK
<1>1. IInv => TypeOK BY DEF IInv
<1> QED BY <1>1, InvariantHolds, PTL

(* No reply of success is given for statements that all succeeded and whose *)
(* work the database undoes when the request closes the connection.         *)
THEOREM SuccessIsKept == Spec => []SuccessIsDurable
<1>1. IInv => SuccessIsDurable BY DEF IInv, AtEnd, Over, SuccessIsDurable
<1> QED BY <1>1, InvariantHolds, PTL

(* A batch that its statements or conditions made fail left nothing in the  *)
(* database, unless a condition asked for a commit, whatever the exit SQL   *)
(* did after it.                                                            *)
THEOREM FailureIsUndone == Spec => []FailureLeavesNothing
<1>1. IInv => FailureLeavesNothing BY DEF IInv, AtEnd, Over, FailureLeavesNothing
<1> QED BY <1>1, InvariantHolds, PTL
-------------------------------------------------------------------------------
(* The batch is one unit of work.                                           *)

(* A step of run() before the end of the unit is a step of the unit when    *)
(* nothing of it becomes durable, and its end when an error ends the run.   *)
LEMMA WorkStep ==
  ASSUME IInv, Running, request' = request, db' \in Connections, unit' \in SUBSET Effects,
         ~request.commitEach => db'.durable = db.durable,
         db.durable \subseteq db'.durable,
         Running' \/ (Over' /\ unit' = unit)
  PROVE  Unit!Next
<1>1. /\ request.commitEach \in BOOLEAN /\ ~Over BY DEF IInv, TypeOK, Requests, Running, Over
<1>2. db'.durable \ {ExitSQL} \in SUBSET Effects BY DEF Connections, Database!Connection
<1>3. CASE request.commitEach
  <2>1. Over' \in {Over, TRUE}
    <3>1. Over' \in BOOLEAN BY DEF Over
    <3>2. Over = FALSE BY <1>1 DEF Over
    <3> QED BY <3>1, <3>2
  <2>2. unit' \in SUBSET Effects /\ db.durable \ {ExitSQL} \subseteq db'.durable \ {ExitSQL}
    OBVIOUS
  <2>3. Unit!EachByItself BY <1>1, <1>2, <1>3, <2>1, <2>2 DEF Unit!EachByItself, Over
  <2> QED BY <2>3 DEF Unit!Next
<1>4. CASE ~request.commitEach /\ Running'
  BY <1>1, <1>4 DEF Unit!Next, Unit!Work, Over, Running
<1>5. CASE ~request.commitEach /\ Over' /\ unit' = unit
  BY <1>1, <1>5 DEF Unit!Next, Unit!End, Over
<1> QED BY <1>3, <1>4, <1>5

(* The same for the steps that run() takes before it ends the unit.  *)
LEMMA RunningStep ==
  ASSUME IInv, IInv', Running, Running' \/ (Over' /\ unit' = unit),
         request' = request, db.durable \subseteq db'.durable,
         ~request.commitEach => db'.durable = db.durable
  PROVE  Unit!Next
BY WorkStep DEF IInv, TypeOK, Connections

LEMMA CaughtOrGoesOn ==
  ASSUME Caught \/ pc' \in {"queryOptimization", "run", "check", "end"}
  PROVE  Running' \/ Over'
BY DEF Caught, Running, Over

LEMMA SetAutoCommitStep ==
  ASSUME IInv, IInv', SetAutoCommit
  PROVE  [Unit!Next]_Unit!vars
<1>1. PICK r \in Database!SetAutoCommit(db, request.commitEach) :
        /\ db' = r.db
        /\ IF r.threw = "" THEN pc' = "queryOptimization" /\ UNCHANGED <<commit, reply>> ELSE Caught
  BY DEF SetAutoCommit, Calls
<1>2. pc = "setAutoCommit" /\ UNCHANGED <<request, unit>> BY DEF SetAutoCommit
<1>3. PICK vendor \in Database!AllVendors : db = Database!Opened(vendor)
  BY <1>2 DEF IInv, Fresh
<1>4. request.commitEach \in BOOLEAN /\ db.durable = {} /\ unit = {}
  BY <1>2, <1>3 DEF IInv, TypeOK, Requests, Fresh, Database!Opened
<1>5. db'.durable = {} BY <1>1, <1>3, <1>4, SetAutoCommitResults
<1>6. Running' \/ Over' BY <1>1, CaughtOrGoesOn
<1>7. ~Over BY <1>2 DEF Over
<1>8. CASE Running'
  <2>1. ~Over' BY <1>8 DEF Running, Over
  <2> QED BY <1>2, <1>4, <1>5, <1>7, <2>1 DEF Unit!vars, Over
<1>9. CASE Over'
  <2>1. CASE request.commitEach
    <3>1. db.durable \ {ExitSQL} = {} /\ db'.durable \ {ExitSQL} = {} BY <1>4, <1>5
    <3>2. unit' \in SUBSET Effects BY <1>2, <1>4
    <3>3. Over' \in {Over, TRUE}
      <4>1. Over' \in BOOLEAN BY DEF Over
      <4> QED BY <1>9, <4>1
    <3> QED BY <1>2, <2>1, <3>1, <3>2, <3>3 DEF Unit!Next, Unit!EachByItself, Over
  <2>2. CASE ~request.commitEach
    BY <1>2, <1>4, <1>5, <1>7, <1>9, <2>2 DEF Unit!Next, Unit!End, Over
  <2> QED BY <1>4, <2>1, <2>2
<1> QED BY <1>6, <1>8, <1>9

LEMMA SetQueryOptimizationStep ==
  ASSUME IInv, IInv', SetQueryOptimization
  PROVE  Unit!Next
<1>1. pc = "queryOptimization" /\ UNCHANGED <<request, unit>> BY DEF SetQueryOptimization
<1>2. Running BY <1>1 DEF Running
<1>3. Sound(db) /\ db.autoCommit = request.commitEach BY <1>2, RunningFacts
<1>4. request.queryOpt \in {"none", "valid", "invalid"} BY DEF IInv, TypeOK, Requests
<1>5. db.durable \subseteq db'.durable /\ (~request.commitEach => db'.durable = db.durable)
  <2>1. CASE request.queryOpt \in {"none", "invalid"}
    <3>1. PICK r \in {Database!Throws(db), Database!Returns(db)} : db' = r.db
      BY <2>1 DEF SetQueryOptimization, Calls, Received
    <3>2. r.db = db
      <4>1. CASE r = [db |-> db, threw |-> "error"] BY <4>1
      <4>2. CASE r = [db |-> db, threw |-> ""] BY <4>2
      <4> QED BY <3>1, <4>1, <4>2 DEF Database!Throws, Database!Returns
    <3> QED BY <3>1, <3>2
  <2>2. CASE request.queryOpt = "valid"
    <3>1. PICK r \in Database!Execute(db, {}) : db' = r.db BY <2>2 DEF SetQueryOptimization
    <3>2. {} \in SUBSET Effects OBVIOUS
    <3>3. Executed(db, {}, r) BY <1>3, <3>1, <3>2, ExecuteResults
    <3>4. ~request.commitEach => (db.alive => db.transaction # "none")
      BY <1>2 DEF IInv, InUnit
    <3> HIDE DEF Sound
    <3> QED BY <1>3, <3>1, <3>3, <3>4 DEF Executed
  <2> QED BY <1>4, <2>1, <2>2
<1>6. Caught \/ pc' = "run"
  <2>1. CASE request.queryOpt = "none" BY <2>1 DEF SetQueryOptimization, Calls
  <2>2. CASE request.queryOpt = "invalid" BY <2>2 DEF SetQueryOptimization, Calls
  <2>3. CASE request.queryOpt = "valid" BY <2>3 DEF SetQueryOptimization
  <2> QED BY <1>4, <2>1, <2>2, <2>3
<1>7. Running' \/ Over' BY <1>6, CaughtOrGoesOn
<1> HIDE DEF Sound
<1> QED BY <1>1, <1>2, <1>5, <1>7, RunningStep

LEMMA RunStatementStep ==
  ASSUME IInv, IInv', RunStatement
  PROVE  Unit!Next
<1>1. pc = "run" /\ request' = request /\ pc' \in {"end", "check"} /\ position' \in Statements
  <2>1. pc = "run" /\ position < request.count /\ position' = position + 1 /\ request' = request
    BY DEF RunStatement
  <2>2. pc' \in {"end", "check"} BY DEF RunStatement
  <2>3. position' \in Statements BY <2>1 DEF IInv, TypeOK, Requests, Statements
  <2> QED BY <2>1, <2>2, <2>3
<1>2. Running /\ Running' BY <1>1 DEF Running
<1>3. Sound(db) /\ db.autoCommit = request.commitEach BY <1>2, RunningFacts
<1>4. PICK r \in Database!Execute(db, {position'}) : db' = r.db BY DEF RunStatement
<1>5. Executed(db, {position'}, r)
  <2>1. {position'} \in SUBSET Effects BY <1>1 DEF Effects
  <2> QED BY <1>3, <1>4, <2>1, ExecuteResults
<1>6. ~request.commitEach => (db.alive => db.transaction # "none")
  BY <1>2 DEF IInv, InUnit
<1> HIDE DEF Sound
<1>7. db.durable \subseteq db'.durable /\ (~request.commitEach => db'.durable = db.durable)
  BY <1>3, <1>4, <1>5, <1>6 DEF Executed
<1> QED BY <1>1, <1>2, <1>7, RunningStep

LEMMA EndUnitOfWorkStep ==
  ASSUME IInv, IInv', EndUnitOfWork
  PROVE  Unit!Next
<1>1. /\ pc = "end" /\ UNCHANGED <<request, position, outcome, failed, unit>>
      /\ Caught \/ (pc' = "exit" /\ UNCHANGED <<commit, reply>>)
      /\ request.commitEach => db' = db
      /\ ~request.commitEach => db'.durable \in {{}, unit}
  BY EndUnitOfWorkEffect
<1>2. Running /\ Over' /\ ~Over BY <1>1 DEF Running, Over, Caught
<1>3. request.commitEach \in BOOLEAN BY <1>2, RunningFacts
<1>4. CASE request.commitEach
  BY <1>1, <1>2, <1>4, RunningStep
<1>5. CASE ~request.commitEach
  <2>1. db.durable = {} /\ unit \subseteq Statements BY <1>2, <1>5 DEF IInv, InUnit
  <2>2. ExitSQL \notin unit BY <2>1 DEF Statements, ExitSQL
  <2>3. db'.durable \ {ExitSQL} \in {db.durable \ {ExitSQL}, unit} BY <1>1, <1>5, <2>1, <2>2
  <2> QED BY <1>1, <1>2, <1>5, <2>3 DEF Unit!Next, Unit!End, Over
<1> QED BY <1>3, <1>4, <1>5

LEMMA RunExitSQLStep ==
  ASSUME IInv, IInv', RunExitSQL
  PROVE  [Unit!Next]_Unit!vars
<1>1. /\ pc = "exit" /\ pc' = "close" /\ UNCHANGED <<request, position, outcome, commit, failed, unit>>
      /\ db.durable \subseteq db'.durable
      /\ ~request.commitEach => db'.durable \ {ExitSQL} = db.durable \ {ExitSQL}
  BY RunExitSQLEffect
<1>2. request.commitEach \in BOOLEAN /\ unit \in SUBSET Effects /\ db'.durable \in SUBSET Effects
  BY DEF IInv, TypeOK, Requests, Database!Connection
<1>3. CASE ~request.commitEach BY <1>1, <1>3 DEF Unit!vars
<1>4. CASE request.commitEach
  BY <1>1, <1>2, <1>4 DEF Unit!Next, Unit!EachByItself
<1> QED BY <1>2, <1>3, <1>4

LEMMA UnitStep ==
  ASSUME IInv, IInv', [Next]_vars
  PROVE  [Unit!Next]_Unit!vars
<1>1. CASE UNCHANGED vars BY <1>1 DEF vars, Unit!vars
<1>2. CASE SetAutoCommit BY <1>2, SetAutoCommitStep
<1>3. CASE SetQueryOptimization BY <1>3, SetQueryOptimizationStep
<1>4. CASE RunStatement BY <1>4, RunStatementStep
<1>5. CASE StatementThrows
  <2>1. pc = "run" /\ Caught /\ UNCHANGED <<request, db, unit>> BY <1>5 DEF StatementThrows
  <2>2. Running /\ Over' BY <2>1 DEF Running, Over, Caught
  <2> QED BY <2>1, <2>2, RunningStep
<1>6. CASE ApplyConditions
  <2>1. pc = "check" /\ db' = db /\ UNCHANGED <<request, unit>> /\ pc' \in {"run", "end"}
    BY <1>6, ApplyConditionsEffect
  <2>2. Running /\ Running' BY <2>1 DEF Running
  <2> QED BY <2>1, <2>2, RunningStep
<1>7. CASE AllRun
  <2>1. pc = "run" /\ pc' = "end" /\ UNCHANGED <<request, db, unit>> BY <1>7 DEF AllRun
  <2>2. Running /\ Running' BY <2>1 DEF Running
  <2> QED BY <2>1, <2>2, RunningStep
<1>8. CASE EndUnitOfWork BY <1>8, EndUnitOfWorkStep
<1>9. CASE RunExitSQL BY <1>9, RunExitSQLStep
<1>10. CASE Close
  <2>1. pc = "close" /\ pc' = "closed" /\ db' = Database!Closed(db) /\ UNCHANGED <<request, unit>>
    BY <1>10 DEF Close
  <2>2. db'.durable = db.durable
    BY <2>1 DEF IInv, Sound, Connections, Database!Connection, Database!Closed
  <2> QED BY <2>1, <2>2 DEF Unit!vars
<1> QED BY <1>1, <1>2, <1>3, <1>4, <1>5, <1>6, <1>7, <1>8, <1>9, <1>10 DEF Next

LEMMA UnitInit == Init => Unit!Init
<1> SUFFICES ASSUME Init PROVE Unit!Init OBVIOUS
<1>1. request.commitEach \in BOOLEAN BY DEF Init, Requests
<1>2. db.durable = {} BY DEF Init, Database!Opened
<1>3. (pc \in {"exit", "close", "closed"}) = FALSE BY DEF Init
<1> QED BY <1>1, <1>2, <1>3 DEF Init, Unit!Init

(* "Run as one unit of work unless each statement is committed": nothing of *)
(* a batch is durable before its end, and then all that the database has    *)
(* done for it or nothing, whatever throws, breaks or follows.              *)
THEOREM BatchIsUnitOfWork == Spec => ImplementsUnitOfWork
<1>1. IInv /\ IInv' /\ [Next]_vars => [Unit!Next]_Unit!vars BY UnitStep
<1> QED BY <1>1, UnitInit, InvariantHolds, PTL DEF Spec, ImplementsUnitOfWork, Unit!Spec
================================================================================
