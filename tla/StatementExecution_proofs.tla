----------------------- MODULE StatementExecution_proofs -----------------------
(***************************************************************************)
(* Proofs about the execution of a statement over the cursors of MySQL,    *)
(* PostgreSQL, SQLite and of results in memory, for any numbers of rows,   *)
(* any batch, any look-ahead and any window that a request asks for.       *)
(***************************************************************************)
EXTENDS StatementExecution, TLAPS

-------------------------------------------------------------------------------
(* What is executed, and what is in the place that was read to.             *)
Executed ==
  /\ driver \in Drivers /\ produced \in Produced /\ Possible(driver, produced)
  /\ result = Returned(driver, produced)
  /\ options \in Options

Placed == place \in [set: DOMAIN result.sets, given: Nat] /\ place.given <= Rows

(* Which call the runner waits for, and what may be answered.               *)
Conversation ==
  /\ pc \in Labels
  /\ message \in
       CASE pc = "start"             -> {Answer("none")}
         [] pc = "execute"           -> {Ask("open"), Answer("opened"), Answer("error")}
         [] pc \in {"read", "count"} -> {Ask("next"), AnswerRow(place.given), Answer("null"), Answer("error")}
         [] pc = "nextResultSet"     -> {Ask("nextResultSet"), Answer("true"), Answer("false")}
         [] pc = "close"             -> {Ask("close"), Answer("closed"), Answer("error")}
         [] pc = "done"              -> {Answer("closed"), Answer("error")}

(* The answers are true.                                                    *)
Truthful ==
  /\ Answered("opened") => result.ok \/ result.sets[1].columns
  /\ Answered("row") => place.given > 0
  /\ Answered("null") => place.given = Rows /\ (result.ok \/ ~LastSet)
  /\ Answered("true") => place.given = 0 /\ result.ok
  /\ Answered("false") => LastSet

(* The rows from one on, in order.                                          *)
RowsAfter(rows, g) == rows = [i \in 1..Len(rows) |-> g + i]

(* What the runner has read of the set, and of the sets before it.          *)
Last == options.fromRow + options.maxRows

Reading ==
  /\ read \in Nat /\ data \in Seq(Nat)
  /\ pc \in {"read", "count"} =>
       /\ result.sets[place.set].columns
       /\ place.given = read + (IF Answered("row") THEN 1 ELSE 0)
       /\ RowsAfter(data, options.fromRow)
  /\ pc = "read" =>
       /\ Len(data) = IF read <= options.fromRow THEN 0 ELSE read - options.fromRow
       /\ Len(data) <= options.maxRows
  /\ pc = "count" => Len(data) = options.maxRows /\ read > Last /\ read < Limit /\ options.countRows

Reported ==
  /\ resultSet \in Seq([data: Seq(Nat), rowsFound: Nat, endFound: BOOLEAN])
  /\ Len(resultSet) <= Len(result.sets)
  /\ error \in {"", "open", "next", "close"}
  /\ pc \notin {"close", "done"} =>
       /\ error = ""
       /\ Len(resultSet) = IF pc = "nextResultSet" /\ ~Answered("true") THEN place.set ELSE place.set - 1
  /\ pc \in {"start", "execute"} => place = [set |-> 1, given |-> 0]
  /\ pc \in {"close", "done"} /\ error = "" => Len(resultSet) = Len(result.sets)
  /\ ~result.ok => \A i \in DOMAIN resultSet : i = Len(result.sets) => ~resultSet[i].endFound

-------------------------------------------------------------------------------
(* The cursor of PostgreSQL: a batch that was read is what follows the rows *)
(* given; when it was the last one nothing follows it.                      *)
Batched(c, given, all, ok) ==
  /\ c \in [rows: Seq(Nat), done: BOOLEAN, reading: BOOLEAN]
  /\ RowsAfter(c.rows, given)
  /\ Len(c.rows) <= BatchSize /\ given + Len(c.rows) <= all
  /\ c.done => given + Len(c.rows) = all /\ ok

PostgresBatch ==
  driver = "POSTGRESQL" =>
    /\ Batched(cursor, place.given, Rows, result.ok)
    /\ cursor.reading => (Asked("open") \/ Asked("next")) /\ cursor.rows = <<>>
    /\ pc = "start" \/ Asked("open") => cursor.rows = <<>>

(* The cursor of MySQL: how much of the answer has arrived says what it     *)
(* holds, until it is closing.                                              *)
PacketType == [kind: {"fields", "row", "ok", "error", "end"}, row: Nat]
CursorType ==
  [rows: Seq(Nat), sets: 0..2, started: BOOLEAN, ended: BOOLEAN, paused: BOOLEAN,
   discard: BOOLEAN, error: BOOLEAN, wake: {"none", "armed", "fired"}, at: {"idle", "waiting"}]

Columns(r)  == r.sets[1].columns
FirstSet(r) == r.sets[1].rows

Arrived(r, w) == Len(MySql!Packets(r)) - Len(w)
Got(r, k)     == IF k = 0 THEN 0 ELSE IF k <= FirstSet(r) THEN k - 1 ELSE FirstSet(r)

IsRest(w, all) ==
  /\ w \in Seq(PacketType) /\ Len(w) <= Len(all)
  /\ \A i \in 1..Len(w) : w[i] = all[Len(all) - Len(w) + i]

(* left: packets that have not arrived, after the first k.                  *)
Follows(c, r, k, left) ==
  /\ c.started <=> k > 0
  /\ c.sets = IF ~Columns(r) \/ k = 0 THEN 0
              ELSE IF Len(r.sets) = 1 \/ k <= FirstSet(r) + 1 THEN 1 ELSE 2
  /\ c.ended <=> left = 0
  /\ c.error <=> ~r.ok /\ Columns(r) /\ left <= 1

Holds(c, given, got, label) ==
  /\ Len(c.rows) <= BatchSize
  /\ ~c.paused => Len(c.rows) < BatchSize
  /\ c.paused => ~c.ended /\ ~c.error
  /\ RowsAfter(c.rows, given)
  /\ ~c.discard => given + Len(c.rows) = got
  /\ c.discard => c.rows = <<>> /\ label \in {"close", "done"}

(* Once the statement is over, or was refused.                              *)
Over(label, answer) ==
  label = "done" \/ (label \in {"execute", "close"} /\ answer \in {Answer("error"), Answer("closed")})

MySqlStream ==
  driver = "MYSQL" =>
    /\ cursor \in CursorType /\ IsRest(wire, MySql!Packets(produced))
    /\ Follows(cursor, produced, Arrived(produced, wire), Len(wire))
    /\ Holds(cursor, place.given, Got(produced, Arrived(produced, wire)), pc)
    /\ Over(pc, message) => Len(wire) <= 1 /\ ~cursor.paused

IInv ==
  /\ Executed /\ Placed /\ Conversation /\ Truthful /\ Reading /\ Reported /\ WindowIsTrue
  /\ PostgresBatch /\ MySqlStream

USE ExecutionAssumption, RunnerAssumption

-------------------------------------------------------------------------------
(* What the database may produce, and the driver returns of it.             *)
IsResult(r) ==
  /\ r.ok \in BOOLEAN /\ r.reliable \in BOOLEAN
  /\ Len(r.sets) \in {1, 2} /\ DOMAIN r.sets = 1..Len(r.sets)
  /\ \A i \in DOMAIN r.sets :
       /\ r.sets[i].columns \in BOOLEAN /\ r.sets[i].rows \in 0..MaxRows
       /\ ~r.sets[i].columns => r.sets[i].rows = 0 /\ Len(r.sets) = 1

LEMMA ProducedIsResult == ASSUME NEW r \in Produced PROVE IsResult(r)
<1>1. /\ r.ok \in BOOLEAN /\ r.reliable \in BOOLEAN
      /\ r.sets \in {<<NoColumns>>} \union {<<ResultSet(n)>> : n \in 0..MaxRows}
                      \union {<<ResultSet(n), ResultSet(m)>> : n, m \in 0..MaxRows \ {0}}
  BY DEF Produced
<1>2. CASE r.sets = <<NoColumns>>
  <2>1. Len(r.sets) = 1 /\ DOMAIN r.sets = 1..1 /\ r.sets[1] = NoColumns BY <1>2
  <2>2. NoColumns.columns = FALSE /\ NoColumns.rows = 0 /\ 0 \in 0..MaxRows BY DEF NoColumns
  <2>3. \A i \in 1..1 : i = 1 OBVIOUS
  <2>4. \A i \in DOMAIN r.sets : r.sets[i] = NoColumns BY <2>1, <2>3
  <2>5. \A i \in DOMAIN r.sets :
          /\ r.sets[i].columns \in BOOLEAN /\ r.sets[i].rows \in 0..MaxRows
          /\ ~r.sets[i].columns => r.sets[i].rows = 0 /\ Len(r.sets) = 1
    BY <2>1, <2>2, <2>4
  <2>6. Len(r.sets) \in {1, 2} /\ DOMAIN r.sets = 1..Len(r.sets) BY <2>1
  <2> QED BY <1>1, <2>5, <2>6 DEF IsResult
<1>3. ASSUME NEW n \in 0..MaxRows, r.sets = <<ResultSet(n)>> PROVE IsResult(r)
  <2>1. Len(r.sets) = 1 /\ DOMAIN r.sets = 1..1 /\ r.sets[1] = ResultSet(n) BY <1>3
  <2>2. ResultSet(n).columns = TRUE /\ ResultSet(n).rows = n BY DEF ResultSet
  <2>3. \A i \in 1..1 : i = 1 OBVIOUS
  <2>4. \A i \in DOMAIN r.sets : r.sets[i] = ResultSet(n) BY <2>1, <2>3
  <2>5. \A i \in DOMAIN r.sets :
          /\ r.sets[i].columns \in BOOLEAN /\ r.sets[i].rows \in 0..MaxRows
          /\ ~r.sets[i].columns => r.sets[i].rows = 0 /\ Len(r.sets) = 1
    BY <2>1, <2>2, <2>4
  <2>6. Len(r.sets) \in {1, 2} /\ DOMAIN r.sets = 1..Len(r.sets) BY <2>1
  <2> QED BY <1>1, <2>5, <2>6 DEF IsResult
<1>4. ASSUME NEW n \in 0..MaxRows, NEW m \in 0..MaxRows, r.sets = <<ResultSet(n), ResultSet(m)>>
      PROVE  IsResult(r)
  <2>1. Len(r.sets) = 2 /\ DOMAIN r.sets = 1..2 /\ r.sets[1] = ResultSet(n) /\ r.sets[2] = ResultSet(m)
    BY <1>4
  <2>2. \A k : ResultSet(k).columns = TRUE /\ ResultSet(k).rows = k BY DEF ResultSet
  <2>3. \A i \in 1..2 : i = 1 \/ i = 2 OBVIOUS
  <2>4. \A i \in DOMAIN r.sets : \E k \in 0..MaxRows : r.sets[i] = ResultSet(k) BY <2>1, <2>3
  <2>5. \A i \in DOMAIN r.sets :
          /\ r.sets[i].columns \in BOOLEAN /\ r.sets[i].rows \in 0..MaxRows
          /\ ~r.sets[i].columns => r.sets[i].rows = 0 /\ Len(r.sets) = 1
    BY <2>2, <2>4
  <2> QED BY <1>1, <2>1, <2>5 DEF IsResult
<1> QED BY <1>1, <1>2, <1>3, <1>4

LEMMA ResultFacts ==
  ASSUME Executed
  PROVE  /\ IsResult(result) /\ IsResult(produced)
         /\ driver # "memory" => Len(result.sets) = 1
         /\ driver = "memory" => result.ok
         /\ driver # "POSTGRESQL" => result.reliable
         /\ result.ok = produced.ok /\ result.sets[1] = produced.sets[1]
<1>1. IsResult(produced) BY ProducedIsResult DEF Executed
<1>2. CASE driver = "MYSQL"
  <2>1. result = [produced EXCEPT !.sets = <<Head(produced.sets)>>] BY <1>2 DEF Executed, Returned
  <2>2. produced.sets # <<>> /\ Head(produced.sets) = produced.sets[1] BY <1>1, SMTT(30) DEF IsResult
  <2>3. /\ result.sets = <<produced.sets[1]>> /\ result.ok = produced.ok
        /\ result.reliable = produced.reliable
    BY <2>1, <2>2 DEF Executed, Produced
  <2>4. Len(result.sets) = 1 /\ DOMAIN result.sets = 1..1 /\ result.sets[1] = produced.sets[1] BY <2>3
  <2>5. 1 \in DOMAIN produced.sets
    <3>1. DOMAIN produced.sets = 1..Len(produced.sets) /\ Len(produced.sets) \in {1, 2}
      BY <1>1 DEF IsResult
    <3> QED BY <3>1, SMTT(30)
  <2>6. IsResult(result) BY <1>1, <2>3, <2>4, <2>5 DEF IsResult
  <2> QED BY <1>1, <1>2, <2>3, <2>4, <2>6 DEF Executed, Possible
<1>3. CASE driver # "MYSQL"
  <2>1. result = produced BY <1>3 DEF Executed, Returned
  <2>2. Len(produced.sets) \in {1, 2} BY <1>1 DEF IsResult
  <2>3. driver # "memory" => ~(Len(produced.sets) > 1) BY <1>3 DEF Executed, Possible
  <2>4. driver = "memory" => produced.ok BY DEF Executed, Possible
  <2>5. driver # "POSTGRESQL" => produced.reliable BY DEF Executed, Possible
  <2>6. driver # "memory" => Len(produced.sets) = 1 BY <2>2, <2>3
  <2> QED BY <1>1, <2>1, <2>4, <2>5, <2>6
<1> QED BY <1>2, <1>3

LEMMA PlaceFacts ==
  ASSUME Executed, Placed
  PROVE  /\ place.set \in DOMAIN result.sets /\ place.given \in Nat
         /\ place = [set |-> place.set, given |-> place.given]
         /\ Rows \in 0..MaxRows /\ place.given <= Rows
         /\ LastSet <=> place.set = Len(result.sets)
         /\ driver # "memory" => LastSet
         /\ ~LastSet => place.set = 1 /\ Len(result.sets) = 2
<1>1. place \in [set: DOMAIN result.sets, given: Nat] /\ place.given <= Rows BY DEF Placed
<1>2. /\ Len(result.sets) \in {1, 2} /\ DOMAIN result.sets = 1..Len(result.sets)
      /\ \A i \in DOMAIN result.sets : result.sets[i].rows \in 0..MaxRows
      /\ driver # "memory" => Len(result.sets) = 1
  BY ResultFacts DEF IsResult
<1>3. place.set \in DOMAIN result.sets /\ place.set \in 1..2 /\ Rows \in 0..MaxRows BY <1>1, <1>2 DEF Rows
<1>4. driver # "memory" => place.set = 1 BY <1>2, <1>3
<1>5. LastSet <=> place.set = Len(result.sets) BY DEF LastSet
<1>6. ~LastSet => place.set = 1 /\ Len(result.sets) = 2
  <2> DEFINE n == Len(result.sets)
  <2>1. n \in {1, 2} /\ place.set \in 1..n /\ (LastSet <=> place.set = n) BY <1>2, <1>3, <1>5
  <2> HIDE DEF n
  <2>2. ~LastSet => place.set = 1 /\ n = 2 BY <2>1
  <2> QED BY <2>2 DEF n
<1> QED BY <1>1, <1>2, <1>3, <1>4, <1>5, <1>6

(* Who is asked for what, by pc.                                            *)
LEMMA Calling ==
  ASSUME Conversation
  PROVE  /\ Asked("open") => pc = "execute"
         /\ Asked("next") => pc \in {"read", "count"}
         /\ Asked("nextResultSet") => pc = "nextResultSet"
         /\ Asked("close") => pc = "close"
BY DEF Conversation, Labels, Asked, Ask, Answer, AnswerRow

-------------------------------------------------------------------------------
(* Each step of a cursor is one that ResultCursor allows, or none that its  *)
(* reader sees.  And no cursor says that a statement without columns was    *)
(* executed when it was not.                                                *)
Keeps ==
  /\ Promise!Settling \/ UNCHANGED cursorVars
  /\ Asked("open") /\ message' = Answer("opened") => result.ok \/ result.sets[1].columns

LEMMA LocalKeeps ==
  ASSUME Executed, Placed, driver \in {"SQLITE", "memory"}, Local!IteratorNext
  PROVE  Keeps
<1> USE DEF Asked, Ask, Answer, AnswerRow, Promise!Asked, Promise!Ask, Promise!Answer, Promise!AnswerRow,
            Promise!Rows, Promise!LastSet, Promise!MayFail, Promise!Settling,
            Local!Asked, Local!Ask, Local!Answer, Local!AnswerRow, Local!Rows, Local!LastSet
<1>1. /\ place.given \in Nat /\ Rows \in Nat /\ place.given <= Rows /\ result.ok \in BOOLEAN
  BY PlaceFacts, ResultFacts DEF IsResult
<1>2. CASE Local!ExecuteReturns
  BY <1>2 DEF Local!ExecuteReturns, Keeps, Promise!Open
<1>3. CASE Local!NextReturns
  <2>1. ~(place.given < Rows) => place.given = Rows BY <1>1
  <2> QED BY <1>1, <1>3, <2>1 DEF Local!NextReturns, Keeps, Promise!NextRow, Promise!NoMoreRows, Promise!Fail, Rows
<1>4. CASE Local!NextSetReturns
  BY <1>4 DEF Local!NextSetReturns, Keeps, Promise!NextResultSet
<1>5. CASE Local!CloseReturns
  BY <1>5 DEF Local!CloseReturns, Keeps, Promise!Close
<1> QED BY <1>2, <1>3, <1>4, <1>5 DEF Local!IteratorNext

LEMMA OnlyResultSet ==
  ASSUME Executed, Placed, driver # "memory", Asked("nextResultSet"), message' = Answer("false"),
         UNCHANGED <<result, place>>
  PROVE  Keeps
<1>1. LastSet BY PlaceFacts
<1> QED BY <1>1 DEF Keeps, Promise!Settling, Promise!NextResultSet, Promise!Asked, Promise!Ask, Promise!Answer,
                    Promise!LastSet, LastSet, Asked, Ask, Answer

(* A batch that arrives is the rows from the next one on.                   *)
BatchOf(left) == [i \in 1..(IF left < BatchSize THEN left ELSE BatchSize) |-> place.given + i]

LEMMA BatchFacts ==
  ASSUME Executed, Placed
  PROVE  LET rows == BatchOf(Rows - place.given)
         IN  /\ rows \in Seq(Nat) /\ RowsAfter(rows, place.given)
             /\ Len(rows) <= BatchSize /\ place.given + Len(rows) <= Rows
             /\ Len(rows) < BatchSize => place.given + Len(rows) = Rows
             /\ Len(rows) = BatchSize => Rows > 0
<1> DEFINE left == Rows - place.given
           n == IF left < BatchSize THEN left ELSE BatchSize
<1>1. place.given \in Nat /\ Rows \in Nat /\ left \in Nat /\ n \in Nat /\ n <= BatchSize /\ n <= left
  BY PlaceFacts
<1>2. BatchOf(left) = [i \in 1..n |-> place.given + i] BY DEF BatchOf
<1>3. BatchOf(left) \in Seq(Nat) /\ Len(BatchOf(left)) = n
  <2> HIDE DEF n
  <2>1. [i \in 1..n |-> place.given + i] \in Seq(Nat) BY <1>1
  <2>2. Len([i \in 1..n |-> place.given + i]) = n BY <1>1, <2>1
  <2> QED BY <1>2, <2>1, <2>2
<1>4. n < BatchSize => n = left BY <1>1
<1>5. RowsAfter(BatchOf(left), place.given) BY <1>2, <1>3 DEF RowsAfter
<1>6. n = BatchSize => Rows > 0 BY <1>1
<1>7. place.given + n <= Rows /\ (n < BatchSize => place.given + n = Rows) BY <1>1, <1>4
<1> HIDE DEF n
<1> QED BY <1>1, <1>3, <1>5, <1>6, <1>7

LEMMA HeadOfRows ==
  ASSUME NEW rows \in Seq(Nat), NEW g \in Nat, RowsAfter(rows, g), rows # <<>>
  PROVE  /\ Head(rows) = g + 1 /\ Len(rows) > 0
         /\ Tail(rows) \in Seq(Nat) /\ Len(Tail(rows)) = Len(rows) - 1
         /\ RowsAfter(Tail(rows), g + 1)
<1>1. Len(rows) \in Nat /\ Len(rows) > 0 /\ \A i \in 1..Len(rows) : rows[i] = g + i BY DEF RowsAfter
<1>2. Head(rows) = g + 1 BY <1>1
<1>3. /\ Tail(rows) \in Seq(Nat) /\ Len(Tail(rows)) = Len(rows) - 1
      /\ \A i \in 1..Len(rows) - 1 : Tail(rows)[i] = rows[i + 1]
  BY <1>1
<1> DEFINE t == Tail(rows)
           n == Len(rows) - 1
<1>4. n \in Nat /\ t \in Seq(Nat) /\ Len(t) = n /\ \A i \in 1..n : t[i] = (g + 1) + i BY <1>1, <1>3
<1> HIDE DEF t, n
<1>5. t = [i \in 1..n |-> t[i]] BY <1>4
<1>6. t = [i \in 1..Len(t) |-> (g + 1) + i] BY <1>4, <1>5
<1> QED BY <1>1, <1>2, <1>3, <1>6 DEF t, RowsAfter

LEMMA AppendToRows ==
  ASSUME NEW rows \in Seq(Nat), NEW g \in Nat, RowsAfter(rows, g)
  PROVE  LET more == Append(rows, g + Len(rows) + 1)
         IN  more \in Seq(Nat) /\ Len(more) = Len(rows) + 1 /\ RowsAfter(more, g)
<1> DEFINE n == Len(rows)
           more == Append(rows, g + n + 1)
<1>1. n \in Nat /\ g + n + 1 \in Nat /\ \A i \in 1..n : rows[i] = g + i BY DEF RowsAfter
<1>2. more \in Seq(Nat) /\ Len(more) = n + 1 /\ more[n + 1] = g + n + 1 /\ \A i \in 1..n : more[i] = rows[i]
  BY <1>1
<1> HIDE DEF more, n
<1>3. \A i \in 1..n + 1 : more[i] = g + i
  <2> TAKE i \in 1..n + 1
  <2>1. CASE i \in 1..n BY <1>1, <1>2, <2>1
  <2>2. CASE i = n + 1 BY <1>1, <1>2, <2>2
  <2> QED BY <1>1, <2>1, <2>2
<1>4. more = [i \in 1..n + 1 |-> more[i]] BY <1>1, <1>2
<1> QED BY <1>1, <1>2, <1>3, <1>4 DEF RowsAfter, more, n

LEMMA PostgresRows ==
  ASSUME Executed, Placed, PostgresBatch, driver = "POSTGRESQL", cursor.rows # <<>>
  PROVE  /\ Head(cursor.rows) = place.given + 1 /\ place.given < Rows
         /\ Tail(cursor.rows) \in Seq(Nat) /\ Len(Tail(cursor.rows)) = Len(cursor.rows) - 1
         /\ RowsAfter(Tail(cursor.rows), place.given + 1)
<1>1. /\ cursor.rows \in Seq(Nat) /\ RowsAfter(cursor.rows, place.given)
      /\ place.given + Len(cursor.rows) <= Rows
  BY DEF PostgresBatch, Batched
<1>2. place.given \in Nat /\ Rows \in Nat BY PlaceFacts
<1>3. Len(cursor.rows) > 0 /\ Len(cursor.rows) \in Nat BY <1>1, <1>2, HeadOfRows
<1>4. place.given < Rows BY <1>1, <1>2, <1>3
<1> QED BY <1>1, <1>2, <1>4, HeadOfRows

LEMMA PostgresKeeps ==
  ASSUME Executed, Placed, PostgresBatch, driver = "POSTGRESQL", Postgres!PostgresNext
  PROVE  Keeps
<1> USE DEF Asked, Ask, Answer, AnswerRow, Promise!Asked, Promise!Ask, Promise!Answer, Promise!AnswerRow,
            Promise!Rows, Promise!LastSet, Promise!MayFail, Promise!Settling,
            Postgres!Asked, Postgres!Ask, Postgres!Answer, Postgres!AnswerRow, Postgres!Rows
<1>1. place.given \in Nat /\ Rows \in Nat /\ LastSet BY PlaceFacts
<1>2. CASE Postgres!AskBatch
  BY <1>2 DEF Postgres!AskBatch, Keeps, cursorVars
<1>3. CASE Postgres!BatchArrives
  <2>1. Len(BatchOf(Rows - place.given)) = BatchSize \/ result.ok
    BY <1>3 DEF Postgres!BatchArrives, BatchOf, Rows
  <2>2. Rows > 0 \/ result.ok BY <2>1, BatchFacts
  <2>3. result.sets[1].columns \/ result.ok
    <3>1. place.set = 1 BY PlaceFacts, ResultFacts DEF LastSet
    <3>2. 1 \in DOMAIN result.sets BY <3>1, PlaceFacts
    <3>3. ~result.sets[1].columns => result.sets[1].rows = 0 BY <3>2, ResultFacts DEF IsResult
    <3> QED BY <2>2, <3>1, <3>3 DEF Rows
  <2> QED BY <1>3, <2>3 DEF Postgres!BatchArrives, Keeps, Promise!Open, cursorVars
<1>4. CASE Postgres!BatchFails
  <2>1. Asked("open") \/ Asked("next") BY <1>4 DEF PostgresBatch, Postgres!BatchFails
  <2> QED BY <1>4, <2>1 DEF Postgres!BatchFails, Keeps, Promise!Open, Promise!Fail
<1>5. CASE Postgres!NextReturns
  <2>1. CASE cursor.rows # <<>>
    <3>1. Head(cursor.rows) = place.given + 1 /\ place.given < Rows BY <2>1, PostgresRows
    <3> QED BY <1>5, <2>1, <3>1, PlaceFacts DEF Postgres!NextReturns, Keeps, Promise!NextRow, Rows
  <2>2. CASE cursor.rows = <<>>
    <3>1. cursor.done BY <1>5, <2>2 DEF Postgres!NextReturns
    <3>2. Len(cursor.rows) = 0 BY <2>2
    <3>3. place.given = Rows /\ result.ok BY <1>1, <3>1, <3>2 DEF PostgresBatch, Batched
    <3> QED BY <1>5, <2>2, <3>3 DEF Postgres!NextReturns, Keeps, Promise!NoMoreRows, Rows
  <2> QED BY <2>1, <2>2
<1>6. CASE Postgres!CloseReturns
  BY <1>6 DEF Postgres!CloseReturns, Keeps, Promise!Close
<1>7. CASE Postgres!NoNextResultSet
  BY <1>7, OnlyResultSet DEF Postgres!NoNextResultSet
<1> QED BY <1>2, <1>3, <1>4, <1>5, <1>6, <1>7 DEF Postgres!PostgresNext

LEMMA PostgresBatchNext ==
  ASSUME Executed, Placed, Conversation, PostgresBatch, driver = "POSTGRESQL", Postgres!PostgresNext,
         UNCHANGED <<driver, pc>>
  PROVE  PostgresBatch'
<1>1. /\ place.given \in Nat /\ Rows \in Nat /\ place = [set |-> place.set, given |-> place.given]
      /\ result.ok \in BOOLEAN
  BY PlaceFacts, ResultFacts DEF IsResult
<1>2. /\ Batched(cursor, place.given, Rows, result.ok)
      /\ cursor \in [rows: Seq(Nat), done: BOOLEAN, reading: BOOLEAN]
  BY DEF PostgresBatch, Batched
<1>3. ASSUME UNCHANGED <<result, place>>, NEW c, cursor' = c, Batched(c, place.given, Rows, result.ok),
             c.reading => (message' = Ask("open") \/ message' = Ask("next")) /\ c.rows = <<>>,
             pc = "start" \/ message' = Ask("open") => c.rows = <<>>
      PROVE  PostgresBatch'
  BY <1>3 DEF PostgresBatch, Rows, Asked
<1> USE DEF Postgres!Asked, Postgres!Ask, Postgres!Answer, Postgres!AnswerRow, Postgres!Rows
<1>4. CASE Postgres!AskBatch
  <2> DEFINE c == [cursor EXCEPT !.reading = TRUE]
  <2>1. cursor' = c /\ UNCHANGED <<result, message, place>> BY <1>4 DEF Postgres!AskBatch
  <2>2. (Asked("open") \/ Asked("next")) /\ cursor.rows = <<>>
    BY <1>4 DEF Postgres!AskBatch, PostgresBatch, Asked, Ask
  <2>3. Batched(c, place.given, Rows, result.ok) /\ c.rows = cursor.rows BY <1>2 DEF Batched
  <2> QED BY <1>3, <2>1, <2>2, <2>3 DEF Asked
<1>5. CASE Postgres!BatchArrives
  <2> DEFINE rows == BatchOf(Rows - place.given)
             last == Len(rows) < BatchSize
             c == [rows |-> rows, done |-> last, reading |-> FALSE]
  <2>1. cursor' = c BY <1>5 DEF Postgres!BatchArrives, Postgres!LastBatch, BatchOf, Rows
  <2>2. UNCHANGED <<result, place>> /\ message' = (IF Asked("open") THEN Answer("opened") ELSE message)
    BY <1>5 DEF Postgres!BatchArrives, Asked, Ask, Answer
  <2>3. (Len(rows) = BatchSize \/ result.ok) /\ cursor.reading
    BY <1>5 DEF Postgres!BatchArrives, BatchOf, Rows
  <2>4. /\ rows \in Seq(Nat) /\ RowsAfter(rows, place.given) /\ Len(rows) \in Nat
        /\ Len(rows) <= BatchSize /\ place.given + Len(rows) <= Rows
        /\ last => place.given + Len(rows) = Rows
    BY BatchFacts
  <2>5. last => result.ok BY <2>3, <2>4
  <2>6. last \in BOOLEAN OBVIOUS
  <2>7. message' # Ask("open") BY <2>2 DEF Asked, Ask, Answer
  <2>8. pc # "start" BY <2>3, Calling DEF PostgresBatch
  <2> HIDE DEF last, rows
  <2>9. c \in [rows: Seq(Nat), done: BOOLEAN, reading: BOOLEAN] BY <2>4, <2>6
  <2>10. c.rows = rows /\ c.done = last /\ c.reading = FALSE OBVIOUS
  <2> HIDE DEF c
  <2>11. Batched(c, place.given, Rows, result.ok) BY <2>4, <2>5, <2>9, <2>10 DEF Batched
  <2> QED BY <1>3, <2>1, <2>2, <2>7, <2>8, <2>10, <2>11
<1>6. CASE Postgres!BatchFails
  <2> DEFINE c == [cursor EXCEPT !.reading = FALSE]
  <2>1. cursor' = c /\ message' = Answer("error") /\ UNCHANGED <<result, place>> /\ cursor.reading
    BY <1>6 DEF Postgres!BatchFails, Answer
  <2>2. Batched(c, place.given, Rows, result.ok) /\ c.rows = <<>> /\ ~c.reading
    BY <1>2, <2>1 DEF Batched, PostgresBatch
  <2> QED BY <1>3, <2>1, <2>2
<1>7. CASE Postgres!NextReturns
  <2>1. Asked("next") /\ pc # "start" BY <1>7, Calling DEF Postgres!NextReturns, Asked, Ask
  <2>2. CASE cursor.rows # <<>>
    <3> DEFINE c == [cursor EXCEPT !.rows = Tail(cursor.rows)]
               given == place.given + 1
    <3>1. /\ cursor' = c /\ place' = [place EXCEPT !.given = given] /\ ~cursor.reading
          /\ message'.what = "row" /\ UNCHANGED result
      BY <1>7, <2>2 DEF Postgres!NextReturns
    <3>2. place'.set = place.set /\ place'.given = given BY <1>1, <3>1
    <3>3. Rows' = Rows BY <3>1, <3>2 DEF Rows
    <3>4. /\ Tail(cursor.rows) \in Seq(Nat) /\ Len(Tail(cursor.rows)) = Len(cursor.rows) - 1
          /\ RowsAfter(Tail(cursor.rows), given) /\ Len(cursor.rows) \in Nat
      BY <1>2, <2>2, PostgresRows
    <3>5. Batched(c, given, Rows, result.ok) /\ ~c.reading
      <4>1. given + Len(Tail(cursor.rows)) = place.given + Len(cursor.rows) BY <1>1, <3>4
      <4>2. c.rows = Tail(cursor.rows) /\ c.done = cursor.done /\ c.reading = cursor.reading BY <1>2
      <4>3. c \in [rows: Seq(Nat), done: BOOLEAN, reading: BOOLEAN] BY <1>2, <3>4
      <4>4. Len(c.rows) <= BatchSize BY <1>2, <3>4, <4>2 DEF Batched
      <4> HIDE DEF c, given
      <4> QED BY <1>2, <3>1, <3>4, <4>1, <4>2, <4>3, <4>4 DEF Batched
    <3>6. message' # Ask("open") BY <3>1 DEF Ask
    <3> QED BY <2>1, <3>1, <3>2, <3>3, <3>5, <3>6 DEF PostgresBatch, Asked
  <2>3. CASE cursor.rows = <<>>
    BY <1>2, <1>3, <1>7, <2>1, <2>3 DEF Postgres!NextReturns, Ask
  <2> QED BY <2>2, <2>3
<1>8. CASE Postgres!CloseReturns \/ (Postgres!NoNextResultSet /\ UNCHANGED cursor)
  <2>1. /\ UNCHANGED <<result, place>> /\ ~(message' = Ask("open")) /\ ~Asked("open") /\ ~Asked("next")
        /\ pc # "start"
    BY <1>8, Calling DEF Postgres!CloseReturns, Postgres!NoNextResultSet, Asked, Ask
  <2>2. UNCHANGED cursor BY <1>8 DEF Postgres!CloseReturns
  <2> QED BY <1>2, <1>3, <2>1, <2>2 DEF PostgresBatch
<1> QED BY <1>4, <1>5, <1>6, <1>7, <1>8 DEF Postgres!PostgresNext

-------------------------------------------------------------------------------
(* The packets of MySQL.                                                    *)
Flat(s) == CHOOSE f : f = [i \in 1..Len(s) |-> IF i = 1 THEN s[i] ELSE f[i - 1] \o s[i]]

LEMMA FlattenOne == ASSUME NEW s, Len(s) = 1 PROVE MySql!FlattenSeq(s) = s[1]
<1>1. MySql!FlattenSeq(s) = Flat(s)[1] BY DEF MySql!FlattenSeq, Flat
<1> DEFINE g == [i \in 1..Len(s) |-> s[1]]
<1>2. g = [i \in 1..Len(s) |-> IF i = 1 THEN s[i] ELSE g[i - 1] \o s[i]] OBVIOUS
<1> HIDE DEF g
<1>3. Flat(s) = [i \in 1..Len(s) |-> IF i = 1 THEN s[i] ELSE Flat(s)[i - 1] \o s[i]] BY <1>2 DEF Flat
<1> HIDE DEF Flat
<1> QED BY <1>1, <1>3

LEMMA FlattenTwo == ASSUME NEW s, Len(s) = 2 PROVE MySql!FlattenSeq(s) = s[1] \o s[2]
<1>1. MySql!FlattenSeq(s) = Flat(s)[2] BY DEF MySql!FlattenSeq, Flat
<1> DEFINE g == [i \in 1..Len(s) |-> IF i = 1 THEN s[1] ELSE s[1] \o s[2]]
<1>2. g = [i \in 1..Len(s) |-> IF i = 1 THEN s[i] ELSE g[i - 1] \o s[i]]
  <2>1. \A i \in 1..Len(s) : g[i] = IF i = 1 THEN s[i] ELSE g[i - 1] \o s[i]
    <3> TAKE i \in 1..Len(s)
    <3>1. i = 1 \/ i = 2 OBVIOUS
    <3>2. g[1] = s[1] /\ g[2] = s[1] \o s[2] OBVIOUS
    <3> QED BY <3>1, <3>2
  <2> QED BY <2>1
<1> HIDE DEF g
<1>3. Flat(s) = [i \in 1..Len(s) |-> IF i = 1 THEN s[i] ELSE Flat(s)[i - 1] \o s[i]] BY <1>2 DEF Flat
<1> HIDE DEF Flat
<1>4. Flat(s)[1] = s[1] BY <1>3
<1> QED BY <1>1, <1>3, <1>4

LEMMA Concatenated ==
  ASSUME NEW S, NEW s, NEW t, s \in Seq(S), t \in Seq(S)
  PROVE  /\ s \o t \in Seq(S) /\ Len(s) \in Nat /\ Len(t) \in Nat /\ Len(s \o t) = Len(s) + Len(t)
         /\ \A i \in 1..Len(s) : (s \o t)[i] = s[i]
         /\ \A i \in 1..Len(t) : (s \o t)[Len(s) + i] = t[i]
OBVIOUS

LEMMA SetPackets ==
  ASSUME NEW n \in Nat
  PROVE  LET s == <<MySql!Packet("fields", 0)>> \o [i \in 1..n |-> MySql!Packet("row", i)]
         IN  /\ s \in Seq(PacketType) /\ Len(s) = n + 1 /\ s[1] = MySql!Packet("fields", 0)
             /\ \A k \in 2..n + 1 : s[k] = MySql!Packet("row", k - 1)
<1> DEFINE first == <<MySql!Packet("fields", 0)>>
           rows == [i \in 1..n |-> MySql!Packet("row", i)]
<1>1. first \in Seq(PacketType) /\ Len(first) = 1 /\ first[1] = MySql!Packet("fields", 0)
  BY DEF MySql!Packet, PacketType
<1>2. rows \in Seq(PacketType) /\ Len(rows) = n /\ \A i \in 1..n : rows[i] = MySql!Packet("row", i)
  <2>1. \A i \in 1..n : MySql!Packet("row", i) \in PacketType BY DEF MySql!Packet, PacketType
  <2> QED BY <2>1
<1> HIDE DEF first, rows
<1> DEFINE s == first \o rows
<1>3. /\ s \in Seq(PacketType) /\ Len(s) = 1 + n
      /\ \A i \in 1..1 : s[i] = first[i]
      /\ \A i \in 1..n : s[1 + i] = rows[i]
  <2>1. /\ s \in Seq(PacketType) /\ Len(s) = Len(first) + Len(rows)
        /\ \A i \in 1..Len(first) : s[i] = first[i]
        /\ \A i \in 1..Len(rows) : s[Len(first) + i] = rows[i]
    <3>1. first \in Seq(PacketType) /\ rows \in Seq(PacketType) BY <1>1, <1>2
    <3> QED BY <3>1, Concatenated, SMT
  <2> HIDE DEF s
  <2> QED BY <1>1, <1>2, <2>1
<1> HIDE DEF s
<1>4. s[1] = first[1] BY <1>3
<1>5. ASSUME NEW k \in 2..n + 1 PROVE s[k] = MySql!Packet("row", k - 1)
  <2> DEFINE i == k - 1
  <2>1. i \in 1..n /\ k = 1 + i OBVIOUS
  <2> HIDE DEF i
  <2>2. s[1 + i] = MySql!Packet("row", i) BY <1>2, <1>3, <2>1
  <2> QED BY <2>1, <2>2 DEF i
<1> QED BY <1>1, <1>3, <1>4, <1>5 DEF s, first, rows

LEMMA EndPackets ==
  ASSUME NEW body \in Seq(PacketType), NEW ok \in BOOLEAN
  PROVE  LET all == body \o (IF ok THEN <<>> ELSE <<MySql!Packet("error", 0)>>) \o <<MySql!Packet("end", 0)>>
         IN  /\ all \in Seq(PacketType) /\ Len(all) = Len(body) + (IF ok THEN 1 ELSE 2)
             /\ \A k \in 1..Len(body) : all[k] = body[k]
             /\ ~ok => all[Len(body) + 1].kind = "error"
             /\ all[Len(all)].kind = "end"
<1> DEFINE fails == <<MySql!Packet("error", 0)>>
           final == <<MySql!Packet("end", 0)>>
           most == body \o (IF ok THEN <<>> ELSE fails)
           all == most \o final
<1>1. fails \in Seq(PacketType) /\ Len(fails) = 1 /\ fails[1].kind = "error" BY DEF MySql!Packet, PacketType
<1>2. final \in Seq(PacketType) /\ Len(final) = 1 /\ final[1].kind = "end" BY DEF MySql!Packet, PacketType
<1> HIDE DEF fails, final
<1>3. /\ most \in Seq(PacketType) /\ Len(most) = Len(body) + (IF ok THEN 0 ELSE 1)
      /\ \A k \in 1..Len(body) : most[k] = body[k]
      /\ ~ok => most[Len(body) + 1] = fails[1]
  <2>1. CASE ok
    <3>1. most = body BY <2>1
    <3>2. Len(body) \in Nat OBVIOUS
    <3> QED BY <2>1, <3>1, <3>2
  <2>2. CASE ~ok
    <3>1. most = body \o fails BY <2>2
    <3>2. /\ most \in Seq(PacketType) /\ Len(most) = Len(body) + Len(fails)
          /\ \A k \in 1..Len(body) : most[k] = body[k]
          /\ \A k \in 1..Len(fails) : most[Len(body) + k] = fails[k]
      <4>1. fails \in Seq(PacketType) /\ body \in Seq(PacketType) BY <1>1
      <4> HIDE DEF most
      <4> QED BY <3>1, <4>1, Concatenated, SMT
    <3>3. Len(body) \in Nat OBVIOUS
    <3> HIDE DEF most
    <3>4. most[Len(body) + 1] = fails[1] BY <1>1, <3>2
    <3> QED BY <1>1, <2>2, <3>2, <3>3, <3>4
  <2> QED BY <2>1, <2>2
<1> HIDE DEF most
<1>4. /\ all \in Seq(PacketType) /\ Len(all) = Len(most) + 1 /\ \A k \in 1..Len(most) : all[k] = most[k]
      /\ all[Len(most) + 1] = final[1]
  <2>1. /\ all \in Seq(PacketType) /\ Len(all) = Len(most) + Len(final)
        /\ \A k \in 1..Len(most) : all[k] = most[k]
        /\ \A k \in 1..Len(final) : all[Len(most) + k] = final[k]
    <3>1. most \in Seq(PacketType) /\ final \in Seq(PacketType) BY <1>2, <1>3
    <3> QED BY <3>1, Concatenated, SMT
  <2> HIDE DEF all
  <2> QED BY <1>2, <2>1
<1> HIDE DEF all
<1>5. Len(all) = Len(body) + (IF ok THEN 1 ELSE 2) BY <1>3, <1>4
<1>6. \A k \in 1..Len(body) : all[k] = body[k] BY <1>3, <1>4
<1>7. ~ok => all[Len(body) + 1].kind = "error" BY <1>1, <1>3, <1>4
<1>8. all[Len(all)].kind = "end" BY <1>2, <1>4
<1> QED BY <1>4, <1>5, <1>6, <1>7, <1>8 DEF all, most, fails, final

(* Where in the answer which packet is: of its body, and behind that.       *)
Body(r) == IF ~Columns(r) THEN (IF r.ok THEN 1 ELSE 0)
           ELSE IF Len(r.sets) = 1 THEN FirstSet(r) + 1
           ELSE FirstSet(r) + 1 + r.sets[2].rows + 1

KindAt(r, k) == IF k <= Body(r)
                  THEN IF ~Columns(r) THEN "ok"
                       ELSE IF k \in {1, FirstSet(r) + 2} THEN "fields" ELSE "row"
                  ELSE IF ~r.ok /\ k = Body(r) + 1 THEN "error" ELSE "end"

AnswerIs(r, all) ==
  /\ all \in Seq(PacketType) /\ Len(all) = Body(r) + (IF r.ok THEN 1 ELSE 2)
  /\ \A k \in 1..Len(all) : all[k].kind = KindAt(r, k)
  /\ Columns(r) => \A k \in 2..FirstSet(r) + 1 : all[k].row = k - 1

LEMMA AnswerOfBody ==
  ASSUME NEW r \in Produced, NEW body \in Seq(PacketType), Len(body) = Body(r),
         \A k \in 1..Len(body) : body[k].kind = KindAt(r, k),
         Columns(r) => \A k \in 2..FirstSet(r) + 1 : body[k].row = k - 1,
         Columns(r) => FirstSet(r) \in Nat /\ FirstSet(r) + 1 <= Len(body),
         MySql!Packets(r) = body \o (IF r.ok THEN <<>> ELSE <<MySql!Packet("error", 0)>>)
                                 \o <<MySql!Packet("end", 0)>>
  PROVE  AnswerIs(r, MySql!Packets(r))
<1> DEFINE all == MySql!Packets(r)
           n == Len(body)
<1>1. r.ok \in BOOLEAN BY ProducedIsResult DEF IsResult
<1>2. /\ all \in Seq(PacketType) /\ Len(all) = n + (IF r.ok THEN 1 ELSE 2)
      /\ \A k \in 1..n : all[k] = body[k]
      /\ ~r.ok => all[n + 1].kind = "error"
      /\ all[Len(all)].kind = "end"
  <2> DEFINE ended == body \o (IF r.ok THEN <<>> ELSE <<MySql!Packet("error", 0)>>) \o <<MySql!Packet("end", 0)>>
  <2>1. /\ ended \in Seq(PacketType) /\ Len(ended) = Len(body) + (IF r.ok THEN 1 ELSE 2)
        /\ \A k \in 1..Len(body) : ended[k] = body[k]
        /\ ~r.ok => ended[Len(body) + 1].kind = "error"
        /\ ended[Len(ended)].kind = "end"
    BY <1>1, EndPackets, Zenon
  <2>2. all = ended OBVIOUS
  <2> HIDE DEF ended, all
  <2> QED BY <2>1, <2>2
<1>3. n \in Nat /\ n = Body(r) OBVIOUS
<1> HIDE DEF all, n
<1>4. ASSUME NEW k \in 1..Len(all) PROVE all[k].kind = KindAt(r, k)
  <2>1. CASE k <= n
    <3>1. k \in 1..n BY <1>3, <2>1
    <3> QED BY <1>2, <3>1 DEF n
  <2>2. CASE k = n + 1 /\ ~r.ok BY <1>2, <1>3, <2>2 DEF KindAt
  <2>3. CASE k > n /\ ~(k = n + 1 /\ ~r.ok)
    <3>1. k = Len(all) BY <1>2, <1>3, <2>3
    <3> QED BY <1>2, <1>3, <2>3, <3>1 DEF KindAt
  <2> QED BY <1>3, <2>1, <2>2, <2>3
<1>5. Columns(r) => \A k \in 2..FirstSet(r) + 1 : all[k].row = k - 1
  <2> SUFFICES ASSUME Columns(r), NEW k \in 2..FirstSet(r) + 1 PROVE all[k].row = k - 1 OBVIOUS
  <2>1. k \in 1..n BY <1>3 DEF n
  <2> QED BY <1>2, <2>1
<1> QED BY <1>2, <1>3, <1>4, <1>5 DEF AnswerIs, all

LEMMA AnswerFacts == ASSUME NEW r \in Produced PROVE AnswerIs(r, MySql!Packets(r))
<1> DEFINE of(set) == IF set.columns
                        THEN <<MySql!Packet("fields", 0)>> \o [i \in 1..set.rows |-> MySql!Packet("row", i)]
                        ELSE <<MySql!Packet("ok", 0)>>
           part(i) == IF r.sets[i].columns \/ r.ok THEN of(r.sets[i]) ELSE <<>>
           parts == [i \in DOMAIN r.sets |-> part(i)]
           body == MySql!FlattenSeq(parts)
           m == Len(r.sets)
<1>1. IsResult(r) BY ProducedIsResult
<1>2. /\ m \in {1, 2} /\ DOMAIN r.sets = 1..m /\ r.ok \in BOOLEAN /\ r.sets[1].columns \in BOOLEAN
      /\ \A i \in 1..m : r.sets[i].rows \in Nat
      /\ m = 2 => r.sets[1].columns /\ r.sets[2].columns
      /\ ~r.sets[1].columns => r.sets[1].rows = 0
  BY <1>1 DEF IsResult
<1>3. MySql!Packets(r) = body \o (IF r.ok THEN <<>> ELSE <<MySql!Packet("error", 0)>>)
                              \o <<MySql!Packet("end", 0)>>
  BY DEF MySql!Packets
<1>4. Len(parts) = m /\ \A i \in 1..m : parts[i] = part(i)
  <2> HIDE DEF part, m
  <2>1. parts = [i \in 1..m |-> part(i)] /\ m \in Nat BY <1>2
  <2> QED BY <2>1
<1>5. ASSUME NEW i \in 1..m, r.sets[i].columns
      PROVE  LET n == r.sets[i].rows
             IN  /\ n \in Nat /\ part(i) \in Seq(PacketType) /\ Len(part(i)) = n + 1
                 /\ part(i)[1] = MySql!Packet("fields", 0)
                 /\ \A k \in 2..n + 1 : part(i)[k] = MySql!Packet("row", k - 1)
  <2> DEFINE n == r.sets[i].rows
             s == <<MySql!Packet("fields", 0)>> \o [j \in 1..n |-> MySql!Packet("row", j)]
  <2>1. n \in Nat /\ part(i) = s BY <1>2, <1>5
  <2>2. /\ s \in Seq(PacketType) /\ Len(s) = n + 1 /\ s[1] = MySql!Packet("fields", 0)
        /\ \A k \in 2..n + 1 : s[k] = MySql!Packet("row", k - 1)
    BY <2>1, SetPackets
  <2> HIDE DEF s, part
  <2> QED BY <2>1, <2>2
<1>6. \A k : MySql!Packet("fields", 0).kind = "fields" /\ MySql!Packet("row", k).kind = "row"
             /\ MySql!Packet("row", k).row = k /\ MySql!Packet("ok", 0).kind = "ok"
  BY DEF MySql!Packet
<1>10. ~Columns(r) => part(1) = IF r.ok THEN <<MySql!Packet("ok", 0)>> ELSE <<>> BY DEF Columns
<1>11. Body(r) = IF ~Columns(r) THEN (IF r.ok THEN 1 ELSE 0)
                 ELSE IF m = 1 THEN FirstSet(r) + 1 ELSE FirstSet(r) + 1 + r.sets[2].rows + 1
  BY DEF Body
<1> HIDE DEF part, parts, m
<1>12. /\ m = 1 => body = part(1) /\ 1 \in 1..m
       /\ m = 2 => body = part(1) \o part(2) /\ 1 \in 1..m /\ 2 \in 1..m
  <2>1. Len(parts) = 1 => body = parts[1] BY FlattenOne
  <2>2. Len(parts) = 2 => body = parts[1] \o parts[2] BY FlattenTwo
  <2>3. m = 1 => 1 \in 1..m /\ parts[1] = part(1) BY <1>4
  <2>4. m = 2 => 1 \in 1..m /\ 2 \in 1..m /\ parts[1] = part(1) /\ parts[2] = part(2) BY <1>4
  <2> HIDE DEF body
  <2> QED BY <1>4, <2>1, <2>2, <2>3, <2>4
<1> HIDE DEF body
<1>7. CASE ~Columns(r)
  <2>1. m = 1 /\ body = part(1) BY <1>2, <1>7, <1>12 DEF Columns
  <2>2. CASE r.ok
    <3>1. body = <<MySql!Packet("ok", 0)>> BY <1>7, <1>10, <2>1, <2>2
    <3>2. MySql!Packet("ok", 0) \in PacketType BY DEF MySql!Packet, PacketType
    <3>3. body \in Seq(PacketType) /\ Len(body) = 1 /\ body[1] = MySql!Packet("ok", 0) BY <3>1, <3>2
    <3>4. Body(r) = 1 BY <1>7, <1>11, <2>2
    <3>5. \A k \in 1..Len(body) : k = 1 BY <3>3
    <3>6. KindAt(r, 1) = "ok" BY <1>7, <3>4 DEF KindAt
    <3> QED BY <1>3, <1>6, <1>7, <3>3, <3>4, <3>5, <3>6, AnswerOfBody
  <2>3. CASE ~r.ok
    <3>1. body = <<>> BY <1>7, <1>10, <2>1, <2>3
    <3>2. body \in Seq(PacketType) /\ Len(body) = 0 BY <3>1
    <3>3. Body(r) = 0 BY <1>7, <1>11, <2>3
    <3>4. \A k \in 1..Len(body) : FALSE BY <3>2
    <3> QED BY <1>3, <1>7, <3>2, <3>3, <3>4, AnswerOfBody
  <2> QED BY <2>2, <2>3
<1>8. CASE Columns(r) /\ m = 1
  <2> DEFINE n == r.sets[1].rows
  <2>1. body = part(1) /\ 1 \in 1..m BY <1>8, <1>12
  <2>2. /\ n \in Nat /\ body \in Seq(PacketType) /\ Len(body) = n + 1
        /\ body[1] = MySql!Packet("fields", 0)
        /\ \A k \in 2..n + 1 : body[k] = MySql!Packet("row", k - 1)
    BY <1>5, <1>8, <2>1 DEF Columns
  <2>3. FirstSet(r) = n /\ Body(r) = n + 1 BY <1>8, <1>11 DEF FirstSet
  <2> HIDE DEF n
  <2>4. ASSUME NEW k \in 1..Len(body) PROVE body[k].kind = KindAt(r, k)
    <3>1. CASE k = 1 BY <1>6, <1>8, <2>2, <2>3, <3>1 DEF KindAt
    <3>2. CASE k \in 2..n + 1 BY <1>6, <1>8, <2>2, <2>3, <3>2 DEF KindAt
    <3> QED BY <2>2, <3>1, <3>2
  <2>5. \A k \in 2..FirstSet(r) + 1 : body[k].row = k - 1 BY <1>6, <2>2, <2>3
  <2>6. Len(body) = Body(r) /\ FirstSet(r) \in Nat /\ FirstSet(r) + 1 <= Len(body) BY <2>2, <2>3
  <2> QED BY <1>3, <2>2, <2>4, <2>5, <2>6, AnswerOfBody
<1>9. CASE Columns(r) /\ m = 2
  <2> DEFINE n == r.sets[1].rows
             l == r.sets[2].rows
             p == part(1)
             q == part(2)
  <2>1. body = p \o q /\ 1 \in 1..m /\ 2 \in 1..m /\ r.sets[2].columns BY <1>2, <1>9, <1>12
  <2>2. /\ n \in Nat /\ p \in Seq(PacketType) /\ Len(p) = n + 1
        /\ p[1] = MySql!Packet("fields", 0)
        /\ \A k \in 2..n + 1 : p[k] = MySql!Packet("row", k - 1)
    BY <1>5, <1>9, <2>1 DEF Columns
  <2>3. /\ l \in Nat /\ q \in Seq(PacketType) /\ Len(q) = l + 1
        /\ q[1] = MySql!Packet("fields", 0)
        /\ \A k \in 2..l + 1 : q[k] = MySql!Packet("row", k - 1)
    BY <1>5, <1>9, <2>1 DEF Columns
  <2>4. FirstSet(r) = n /\ Body(r) = n + 1 + l + 1 BY <1>9, <1>11 DEF FirstSet
  <2> HIDE DEF p, q
  <2>5. /\ body \in Seq(PacketType) /\ Len(body) = Len(p) + Len(q)
        /\ \A k \in 1..Len(p) : body[k] = p[k]
        /\ \A k \in 1..Len(q) : body[Len(p) + k] = q[k]
    <3>1. p \in Seq(PacketType) /\ q \in Seq(PacketType) BY <2>2, <2>3
    <3>2. body = p \o q BY <2>1
    <3> QED BY <3>1, <3>2, Concatenated, SMT
  <2> HIDE DEF n, l
  <2>6. ASSUME NEW k \in 1..Len(body) PROVE body[k].kind = KindAt(r, k)
    <3>1. CASE k = 1 BY <1>6, <1>9, <2>2, <2>3, <2>4, <2>5, <3>1 DEF KindAt
    <3>2. CASE k \in 2..n + 1
      <4>1. body[k] = MySql!Packet("row", k - 1) BY <2>2, <2>5, <3>2
      <4>2. KindAt(r, k) = "row" BY <1>9, <2>2, <2>3, <2>4, <3>2 DEF KindAt
      <4> QED BY <1>6, <4>1, <4>2
    <3>3. CASE k = n + 2
      <4>1. body[k] = q[1] BY <2>2, <2>3, <2>5, <3>3
      <4>2. KindAt(r, k) = "fields" BY <1>9, <2>2, <2>3, <2>4, <3>3 DEF KindAt
      <4> QED BY <1>6, <2>3, <4>1, <4>2
    <3>4. CASE k \in n + 3..n + l + 2
      <4> DEFINE j == k - (n + 1)
      <4>1. j \in 2..l + 1 /\ k = (n + 1) + j BY <2>2, <2>3, <3>4
      <4> HIDE DEF j
      <4>2. body[k] = q[j] BY <2>2, <2>3, <2>5, <4>1
      <4>3. q[j] = MySql!Packet("row", j - 1) BY <2>3, <4>1
      <4>4. KindAt(r, k) = "row" BY <1>9, <2>2, <2>3, <2>4, <3>4 DEF KindAt
      <4> QED BY <1>6, <4>2, <4>3, <4>4
    <3> QED BY <2>2, <2>3, <2>5, <3>1, <3>2, <3>3, <3>4
  <2>7. \A k \in 2..FirstSet(r) + 1 : body[k].row = k - 1
    <3> TAKE k \in 2..FirstSet(r) + 1
    <3>1. k \in 2..n + 1 /\ k \in 1..Len(p) BY <2>2, <2>4
    <3>2. body[k] = MySql!Packet("row", k - 1) BY <2>2, <2>5, <3>1
    <3> QED BY <1>6, <3>2
  <2>8. Len(body) = Body(r) /\ FirstSet(r) \in Nat /\ FirstSet(r) + 1 <= Len(body)
    BY <2>2, <2>3, <2>4, <2>5
  <2> QED BY <1>3, <2>5, <2>6, <2>7, <2>8, AnswerOfBody
<1> QED BY <1>2, <1>7, <1>8, <1>9

(* What follows from the kind of the k-th packet.                           *)
PlaceOf(r, k, kind, left) ==
  /\ kind = "fields" => /\ Columns(r) /\ left >= 1 /\ (~r.ok => left >= 2)
                        /\ k = 1 \/ (k = FirstSet(r) + 2 /\ Len(r.sets) # 1)
  /\ kind = "row" => /\ Columns(r) /\ left >= 1 /\ (~r.ok => left >= 2)
                     /\ k > 1 /\ k # FirstSet(r) + 2 /\ (Len(r.sets) = 1 => k <= FirstSet(r) + 1)
  /\ kind = "ok" => ~Columns(r) /\ k = 1 /\ r.ok /\ left = 1
  /\ kind = "error" => ~r.ok /\ left = 1 /\ (~Columns(r) => k = 1)
  /\ kind = "end" => left = 0 /\ k > 1
  /\ kind \in {"error", "end"} /\ Columns(r) =>
       k >= FirstSet(r) + 2 /\ (Len(r.sets) # 1 => k >= FirstSet(r) + 3)

LEMMA NextPacket ==
  ASSUME produced \in Produced, IsRest(wire, MySql!Packets(produced)), wire # <<>>
  PROVE  LET k == Arrived(produced, wire) + 1
         IN  /\ k \in Nat /\ k > 0 /\ Head(wire) \in PacketType
             /\ Arrived(produced, Tail(wire)) = k
             /\ IsRest(Tail(wire), MySql!Packets(produced)) /\ Len(Tail(wire)) = Len(wire) - 1
             /\ PlaceOf(produced, k, Head(wire).kind, Len(wire) - 1)
             /\ Columns(produced) /\ k \in 2..FirstSet(produced) + 1 => Head(wire).row = k - 1
             /\ FirstSet(produced) \in Nat /\ Len(produced.sets) \in Nat
<1> DEFINE r == produced
           all == MySql!Packets(r)
           n == Len(all)
           k == Arrived(r, wire) + 1
           left == Len(wire) - 1
           b == Body(r)
           m == Len(r.sets)
<1>1. AnswerIs(r, all) BY AnswerFacts
<1>2. /\ IsResult(r) /\ FirstSet(r) \in Nat /\ m \in {1, 2} /\ r.ok \in BOOLEAN
      /\ ~Columns(r) => FirstSet(r) = 0
      /\ m = 2 => r.sets[2].rows \in Nat
  BY ProducedIsResult DEF IsResult, FirstSet, Columns
<1>3. /\ all \in Seq(PacketType) /\ n \in Nat 
      /\ r.ok => n = b + 1
      /\ ~r.ok => n = b + 2
      /\ \A i \in 1..n : all[i].kind = KindAt(r, i)
      /\ Columns(r) => \A i \in 2..FirstSet(r) + 1 : all[i].row = i - 1
  BY <1>1 DEF AnswerIs
<1>4. /\ wire \in Seq(PacketType) /\ Len(wire) \in Nat /\ Len(wire) > 0 /\ Len(wire) <= n
      /\ \A i \in 1..Len(wire) : wire[i] = all[n - Len(wire) + i]
  BY DEF IsRest
<1>5. k = n - Len(wire) + 1 BY DEF Arrived
<1> HIDE DEF all, n, k, b, m
<1>6. k \in 1..n /\ left = n - k /\ left \in Nat BY <1>3, <1>4, <1>5
<1>7. Head(wire) = all[k] /\ Head(wire) \in PacketType BY <1>4, <1>5
<1>8. Head(wire).kind = KindAt(r, k) BY <1>3, <1>6, <1>7
<1>9. /\ b = Body(r) /\ b \in Nat
      /\ ~Columns(r) /\ r.ok => b = 1
      /\ ~Columns(r) /\ ~r.ok => b = 0
      /\ Columns(r) /\ m = 1 => b = FirstSet(r) + 1
      /\ Columns(r) /\ m # 1 => b >= FirstSet(r) + 2
  <2>1. CASE ~Columns(r) BY <2>1 DEF b, Body
  <2>2. CASE Columns(r) /\ m = 1 BY <1>2, <2>2 DEF b, m, Body
  <2>3. CASE Columns(r) /\ m # 1
    <3> DEFINE f == FirstSet(r)
               l == r.sets[2].rows
    <3>1. b = f + 1 + l + 1 BY <2>3 DEF b, m, Body
    <3>2. f \in Nat /\ l \in Nat BY <1>2, <2>3
    <3> HIDE DEF f, l
    <3>3. b \in Nat /\ b >= f + 2 BY <3>1, <3>2
    <3>4. b = Body(r) BY DEF b
    <3> QED BY <2>3, <3>3, <3>4 DEF f
  <2> QED BY <2>1, <2>2, <2>3
<1>10. PlaceOf(r, k, KindAt(r, k), left)
  <2>1. CASE k <= b
    <3>1. left >= 1 /\ (~r.ok => left >= 2) BY <1>2, <1>3, <1>6, <1>9, <2>1
    <3>2. KindAt(r, k) = IF ~Columns(r) THEN "ok"
                         ELSE IF k \in {1, FirstSet(r) + 2} THEN "fields" ELSE "row"
      BY <2>1 DEF KindAt, b
    <3>3. CASE ~Columns(r)
      <4>1. r.ok BY <1>6, <1>9, <2>1, <3>3
      <4>2. b = 1 /\ n = 2 BY <1>3, <1>9, <3>3, <4>1
      <4>3. k = 1 /\ left = 1 BY <1>6, <2>1, <4>2
      <4> QED BY <3>2, <3>3, <4>1, <4>3 DEF PlaceOf
    <3>4. CASE Columns(r) /\ k \in {1, FirstSet(r) + 2}
      <4>1. k = 1 \/ (k = FirstSet(r) + 2 /\ m # 1) BY <1>2, <1>9, <2>1, <3>4
      <4> QED BY <3>1, <3>2, <3>4, <4>1 DEF PlaceOf, m
    <3>5. CASE Columns(r) /\ k \notin {1, FirstSet(r) + 2}
      <4>1. k > 1 /\ k # FirstSet(r) + 2 /\ (m = 1 => k <= FirstSet(r) + 1)
        BY <1>2, <1>6, <1>9, <2>1, <3>5
      <4> QED BY <3>1, <3>2, <3>5, <4>1 DEF PlaceOf, m
    <3> QED BY <3>3, <3>4, <3>5
  <2>2. CASE k = b + 1 /\ ~r.ok
    <3>1. KindAt(r, k) = "error" BY <1>9, <2>2 DEF KindAt, b
    <3>2. left = 1
      <4>1. n = b + 2 /\ k = b + 1 BY <1>3, <2>2
      <4>2. left = n - k /\ b \in Nat BY <1>6, <1>9
      <4> HIDE DEF left
      <4> QED BY <4>1, <4>2
    <3>4. ~Columns(r) => k = 1 BY <1>9, <2>2
    <3>3. Columns(r) => k >= FirstSet(r) + 2 /\ (m # 1 => k >= FirstSet(r) + 3)
      BY <1>2, <1>9, <2>2
    <3> QED BY <2>2, <3>1, <3>2, <3>3, <3>4 DEF PlaceOf, m
  <2>3. CASE k > b /\ ~(k = b + 1 /\ ~r.ok)
    <3>5. k = n
      <4>1. CASE r.ok
        <5>1. n = b + 1 BY <1>3, <4>1
        <5> QED BY <1>6, <1>9, <2>3, <5>1
      <4>2. CASE ~r.ok
        <5>1. n = b + 2 /\ k # b + 1 BY <1>3, <2>3, <4>2
        <5> QED BY <1>6, <1>9, <2>3, <5>1
      <4> QED BY <4>1, <4>2
    <3>1. KindAt(r, k) = "end"
      <4>1. ~(k <= Body(r)) /\ ~(~r.ok /\ k = Body(r) + 1) BY <1>6, <1>9, <2>3
      <4> QED BY <4>1 DEF KindAt
    <3>2. left = 0 BY <1>6, <3>5
    <3>4. k > 1
      <4>1. CASE Columns(r) BY <1>2, <1>6, <1>9, <2>3, <4>1
      <4>2. CASE ~Columns(r) /\ r.ok BY <1>6, <1>9, <2>3, <4>2
      <4>3. CASE ~Columns(r) /\ ~r.ok
        <5>1. b = 0 /\ k # b + 1 BY <1>9, <2>3, <4>3
        <5> QED BY <1>6, <5>1
      <4> QED BY <4>1, <4>2, <4>3
    <3>3. Columns(r) => k >= FirstSet(r) + 2 /\ (m # 1 => k >= FirstSet(r) + 3)
      BY <1>2, <1>6, <1>9, <2>3
    <3> QED BY <3>1, <3>2, <3>3, <3>4 DEF PlaceOf, m
  <2> QED BY <1>6, <1>9, <2>1, <2>2, <2>3
<1>11. Columns(r) /\ k \in 2..FirstSet(r) + 1 => Head(wire).row = k - 1 BY <1>3, <1>7
<1>12. /\ Tail(wire) \in Seq(PacketType) /\ Len(Tail(wire)) = left
       /\ \A i \in 1..left : Tail(wire)[i] = wire[i + 1]
  BY <1>4
<1>13. IsRest(Tail(wire), all)
  <2>1. ASSUME NEW i \in 1..left PROVE Tail(wire)[i] = all[n - left + i]
    <3>1. i + 1 \in 1..Len(wire) /\ n - Len(wire) + (i + 1) = n - left + i
      <4> DEFINE w == Len(wire)
      <4>1. w \in Nat /\ left = w - 1 /\ i \in 1..left BY <1>4
      <4> HIDE DEF w, left
      <4>2. i + 1 \in 1..w /\ n - w + (i + 1) = n - left + i BY <1>3, <4>1
      <4> QED BY <4>2 DEF w
    <3> QED BY <1>4, <1>12, <3>1
  <2> QED BY <1>6, <1>3, <1>12, <2>1 DEF IsRest, n
<1>14. Arrived(r, Tail(wire)) = k BY <1>3, <1>4, <1>5, <1>12 DEF Arrived, n, all
<1> QED BY <1>2, <1>6, <1>7, <1>8, <1>10, <1>11, <1>12, <1>13, <1>14 DEF k, all, m


LEMMA ArrivedFacts ==
  ASSUME produced \in Produced, IsRest(wire, MySql!Packets(produced))
  PROVE  LET k == Arrived(produced, wire)
         IN  /\ k \in Nat /\ Len(wire) \in Nat /\ FirstSet(produced) \in Nat
             /\ Got(produced, k) \in Nat /\ Got(produced, k) <= FirstSet(produced)
             /\ Len(wire) = 0 => Got(produced, k) = FirstSet(produced)
             /\ k = 0 => wire # <<>>
<1> DEFINE r == produced
           all == MySql!Packets(r)
           n == Len(all)
           w == Len(wire)
           k == Arrived(r, wire)
           f == FirstSet(r)
           b == Body(r)
<1>1. AnswerIs(r, all) BY AnswerFacts
<1>2. /\ f \in Nat /\ r.ok \in BOOLEAN /\ (~Columns(r) => f = 0)
      /\ Len(r.sets) = 2 => r.sets[2].rows \in Nat
      /\ Len(r.sets) \in {1, 2}
  BY ProducedIsResult DEF IsResult, FirstSet, Columns
<1>3. b \in Nat /\ b >= f
  <2>1. CASE ~Columns(r) BY <1>2, <2>1 DEF Body
  <2>2. CASE Columns(r) /\ Len(r.sets) = 1
    <3>1. b = f + 1 BY <2>2 DEF Body
    <3> HIDE DEF b, f
    <3> QED BY <1>2, <3>1
  <2>3. CASE Columns(r) /\ Len(r.sets) # 1
    <3> DEFINE l == r.sets[2].rows
    <3>1. b = f + 1 + l + 1 BY <2>3 DEF Body
    <3>2. l \in Nat BY <1>2, <2>3
    <3> HIDE DEF b, f, l
    <3> QED BY <1>2, <3>1, <3>2
  <2> QED BY <2>1, <2>2, <2>3
<1>4. n \in Nat /\ n > b
  <2>1. n = b + (IF r.ok THEN 1 ELSE 2) BY <1>1 DEF AnswerIs
  <2> HIDE DEF n, b
  <2> QED BY <1>3, <2>1
<1>5. w \in Nat /\ w <= n BY DEF IsRest
<1>6. k = n - w BY DEF Arrived
<1>7. Got(r, k) = IF k = 0 THEN 0 ELSE IF k <= f THEN k - 1 ELSE f BY DEF Got
<1>8. w = 0 => wire = <<>> BY DEF IsRest
<1>9. w > 0 => wire # <<>> BY DEF IsRest
<1> HIDE DEF n, w, k, f, b
<1>10. k \in Nat /\ (w = 0 => k > f) /\ (k = 0 => w > 0) BY <1>2, <1>3, <1>4, <1>5, <1>6
<1> DEFINE g == Got(r, k)
<1> HIDE DEF g
<1>11. g = IF k = 0 THEN 0 ELSE IF k <= f THEN k - 1 ELSE f BY <1>7 DEF g
<1>12. g \in Nat /\ g <= f /\ (w = 0 => g = f) BY <1>2, <1>10, <1>11
<1> QED BY <1>2, <1>5, <1>9, <1>10, <1>12 DEF g, k, w, f

(* Only the first set is returned.                                          *)
LEMMA MySqlResult ==
  ASSUME Executed, Placed, driver = "MYSQL"
  PROVE  /\ place.set = 1 /\ LastSet /\ Rows = FirstSet(produced)
         /\ Columns(produced) = result.sets[1].columns
         /\ produced.ok = result.ok /\ result.ok \in BOOLEAN /\ result.reliable
         /\ place.given \in Nat /\ place = [set |-> place.set, given |-> place.given]
         /\ DOMAIN result.sets = 1..1
<1>1. LastSet /\ place.set = Len(result.sets) BY PlaceFacts
<1>2. Len(result.sets) = 1 BY ResultFacts
<1>3. place.set = 1 BY <1>1, <1>2
<1>4. result.sets[1] = produced.sets[1] /\ IsResult(result) BY ResultFacts
<1> QED BY <1>1, <1>2, <1>3, <1>4, ResultFacts, PlaceFacts DEF IsResult, Rows, FirstSet, Columns

LEMMA MySqlKeeps ==
  ASSUME Executed, Placed, Conversation, Reading, MySqlStream, driver = "MYSQL", MySql!MySqlNext
  PROVE  Keeps
<1> DEFINE k == Arrived(produced, wire)
           got == Got(produced, k)
<1> USE DEF Promise!Asked, Promise!Ask, Promise!Answer, Promise!AnswerRow, Asked, Ask, Answer, AnswerRow,
            Promise!Rows, Promise!LastSet, Promise!MayFail, Promise!Settling,
            MySql!Asked, MySql!Ask, MySql!Answer, MySql!AnswerRow
<1>1. /\ place.set = 1 /\ LastSet /\ Rows = FirstSet(produced) /\ Columns(produced) = result.sets[1].columns
      /\ produced.ok = result.ok /\ result.ok \in BOOLEAN /\ result.reliable
      /\ place.given \in Nat
  BY MySqlResult
<1>2. /\ cursor \in CursorType /\ IsRest(wire, MySql!Packets(produced)) /\ produced \in Produced
      /\ Follows(cursor, produced, k, Len(wire)) /\ Holds(cursor, place.given, got, pc)
  BY DEF MySqlStream, Executed
<1>3. /\ k \in Nat /\ Len(wire) \in Nat /\ got \in Nat /\ got <= Rows /\ (Len(wire) = 0 => got = Rows)
  BY <1>1, <1>2, ArrivedFacts
<1> HIDE DEF k, got
<1>4. CASE MySql!Event
  <2>1. UNCHANGED <<result, place>> BY <1>4 DEF MySql!Event
  <2>2. CASE cursor.started
    <3>2. wire # <<>> BY <1>4 DEF MySql!Event
    <3>3. Head(wire) \in PacketType BY <1>2, <3>2, NextPacket
    <3>4. Head(wire).kind \in {"fields", "row", "ok", "error", "end"} BY <3>3 DEF PacketType
    <3>1. UNCHANGED message BY <1>4, <2>2, <3>4 DEF MySql!Event, MySql!Start
    <3> QED BY <2>1, <3>1 DEF Keeps, cursorVars, Answer
  <2>3. CASE ~cursor.started
    <3>1. Asked("open") /\ k = 0 /\ wire # <<>> BY <1>2, <1>3, <1>4, <2>3 DEF MySql!Event, Follows
    <3>2. /\ Head(wire) \in PacketType /\ PlaceOf(produced, 1, Head(wire).kind, Len(wire) - 1)
      BY <1>2, <3>1, NextPacket DEF k
    <3>3. CASE Head(wire).kind = "fields"
      <4>1. Columns(produced) BY <3>2, <3>3 DEF PlaceOf
      <4>2. message' = Answer("opened") BY <1>4, <2>3, <3>3 DEF MySql!Event
      <4> QED BY <1>1, <2>1, <3>1, <4>1, <4>2 DEF Keeps, Promise!Open
    <3>4. CASE Head(wire).kind = "ok"
      <4>1. produced.ok BY <3>2, <3>4 DEF PlaceOf
      <4>2. message' = Answer("opened") BY <1>4, <2>3, <3>4 DEF MySql!Event, MySql!Start
      <4> QED BY <1>1, <2>1, <3>1, <4>1, <4>2 DEF Keeps, Promise!Open
    <3>5. CASE Head(wire).kind = "error"
      <4>1. ~produced.ok BY <3>2, <3>5 DEF PlaceOf
      <4>2. message' = Answer("error") BY <1>4, <2>3, <3>5 DEF MySql!Event
      <4> QED BY <1>1, <2>1, <3>1, <4>1, <4>2 DEF Keeps, Promise!Open
    <3>6. CASE Head(wire).kind \in {"row", "end"}
      <4>1. UNCHANGED message BY <1>4, <3>6 DEF MySql!Event
      <4> QED BY <2>1, <3>1, <4>1 DEF Keeps, cursorVars
    <3> QED BY <3>2, <3>3, <3>4, <3>5, <3>6 DEF PacketType
  <2> QED BY <1>2, <2>2, <2>3 DEF CursorType
<1>5. CASE MySql!NextReturns
  <2>1. Asked("next") /\ UNCHANGED result BY <1>5 DEF MySql!NextReturns
  <2>2. pc \in {"read", "count"} BY <2>1, Calling
  <2>3. Columns(produced) BY <1>1, <2>2 DEF Reading
  <2>4. ~cursor.discard BY <1>2, <2>2 DEF Holds, CursorType
  <2>5. place.given + Len(cursor.rows) = got /\ RowsAfter(cursor.rows, place.given) /\ cursor.rows \in Seq(Nat)
    BY <1>2, <2>4 DEF Holds, CursorType
  <2>6. CASE cursor.error
    <3>1. ~result.ok BY <1>1, <1>2, <2>6 DEF Follows
    <3> QED BY <1>5, <2>1, <2>6, <3>1 DEF MySql!NextReturns, Keeps, Promise!Fail
  <2>7. CASE ~cursor.error /\ cursor.rows = <<>>
    <3>1. cursor.ended BY <1>5, <2>7 DEF MySql!NextReturns
    <3>2. Len(wire) = 0 BY <1>2, <3>1 DEF Follows
    <3>3. result.ok BY <1>1, <1>2, <2>3, <2>7, <3>2 DEF Follows
    <3>4. Len(cursor.rows) = 0 BY <2>7
    <3>5. place.given = Rows BY <1>1, <1>3, <2>5, <3>2, <3>4
    <3> QED BY <1>5, <2>1, <2>7, <3>3, <3>5 DEF MySql!NextReturns, Keeps, Promise!NoMoreRows, Rows
  <2>8. CASE ~cursor.error /\ cursor.rows # <<>>
    <3>1. Head(cursor.rows) = place.given + 1 /\ Len(cursor.rows) > 0 /\ Len(cursor.rows) \in Nat
      BY <1>1, <2>5, <2>8, HeadOfRows
    <3>2. Rows \in Nat /\ place = [set |-> place.set, given |-> place.given] BY PlaceFacts
    <3>3. place.given < Rows
      <4> DEFINE l == Len(cursor.rows)
      <4>1. place.given + l = got /\ l > 0 /\ l \in Nat BY <2>5, <3>1
      <4> HIDE DEF l
      <4> QED BY <1>1, <1>3, <3>2, <4>1
    <3> QED BY <1>5, <2>1, <2>8, <3>1, <3>2, <3>3 DEF MySql!NextReturns, Keeps, Promise!NextRow, Rows
  <2> QED BY <1>2, <2>6, <2>7, <2>8 DEF CursorType
<1>6. CASE MySql!Discard \/ MySql!Wait
  <2>1. UNCHANGED <<result, message, place>> BY <1>6 DEF MySql!Discard, MySql!Wait
  <2> QED BY <2>1 DEF Keeps, cursorVars
<1>7. CASE MySql!CloseReturns
  BY <1>7 DEF MySql!CloseReturns, Keeps, Promise!Close
<1>8. CASE MySql!NoNextResultSet
  BY <1>8, OnlyResultSet DEF MySql!NoNextResultSet
<1> QED BY <1>4, <1>5, <1>6, <1>7, <1>8 DEF MySql!MySqlNext


(* A packet that arrives.                                                   *)
LEMMA PacketCounts ==
  ASSUME NEW r \in Produced, NEW k \in Nat, k > 0, NEW left \in Nat, NEW c \in CursorType,
         NEW kind \in {"fields", "row", "ok", "error", "end"},
         Follows(c, r, k - 1, left + 1), PlaceOf(r, k, kind, left)
  PROVE  /\ kind \in {"row", "end"} => c.started
         /\ ~c.started <=> k = 1
         /\ kind # "row" => Got(r, k) = Got(r, k - 1)
         /\ kind = "row" /\ c.sets > 1 => Got(r, k) = Got(r, k - 1)
         /\ kind = "row" /\ ~(c.sets > 1) =>
              k \in 2..FirstSet(r) + 1 /\ Got(r, k) = k - 1 /\ Got(r, k - 1) = k - 2
<1> DEFINE f == FirstSet(r)
           one == Len(r.sets) = 1
<1>1. f \in Nat /\ (~Columns(r) => f = 0) BY ProducedIsResult DEF IsResult, FirstSet, Columns
<1>2. /\ c.started <=> k - 1 > 0
      /\ c.sets = IF ~Columns(r) \/ k - 1 = 0 THEN 0 ELSE IF one \/ k - 1 <= f + 1 THEN 1 ELSE 2
  BY DEF Follows
<1>3. /\ kind = "fields" => k = 1 \/ (k = f + 2 /\ ~one)
      /\ kind = "row" => Columns(r) /\ k > 1 /\ k # f + 2 /\ (one => k <= f + 1)
      /\ kind = "ok" => ~Columns(r) /\ k = 1
      /\ kind = "error" => (~Columns(r) => k = 1)
      /\ kind = "end" => k > 1
      /\ kind \in {"error", "end"} /\ Columns(r) => k >= f + 2
  BY DEF PlaceOf
<1>4. /\ Got(r, k) = IF k = 0 THEN 0 ELSE IF k <= f THEN k - 1 ELSE f
      /\ Got(r, k - 1) = IF k - 1 = 0 THEN 0 ELSE IF k - 1 <= f THEN k - 1 - 1 ELSE f
  BY DEF Got
<1> HIDE DEF f, one
<1>5. kind \in {"row", "end"} => c.started BY <1>2, <1>3
<1>6. ~c.started <=> k = 1 BY <1>2 DEF CursorType
<1>7. kind # "row" => Got(r, k) = Got(r, k - 1)
  <2>1. kind = "fields" => k = 1 \/ k = f + 2 BY <1>3
  <2>2. kind = "ok" => k = 1 BY <1>3
  <2>3. kind \in {"error", "end"} => k = 1 \/ k >= f + 2 BY <1>1, <1>3
  <2>4. kind # "row" => k = 1 \/ k >= f + 2 BY <1>1, <2>1, <2>2, <2>3
  <2>5. k = 1 \/ k >= f + 2 => Got(r, k) = Got(r, k - 1) BY <1>1, <1>4
  <2> QED BY <2>4, <2>5
<1>8. ASSUME kind = "row", c.sets > 1 PROVE Got(r, k) = Got(r, k - 1)
  <2>1. Columns(r) /\ k > 1 /\ k # f + 2 BY <1>3, <1>8
  <2>2. ~(k - 1 <= f + 1) BY <1>1, <1>2, <1>8, <2>1
  <2>3. k > f + 2 BY <1>1, <2>1, <2>2
  <2> QED BY <1>1, <1>4, <2>3
<1>9. ASSUME kind = "row", ~(c.sets > 1)
      PROVE  k \in 2..f + 1 /\ Got(r, k) = k - 1 /\ Got(r, k - 1) = k - 2
  <2>1. Columns(r) /\ k > 1 /\ k # f + 2 /\ (one => k <= f + 1) BY <1>3, <1>9
  <2>2. one \/ k - 1 <= f + 1 BY <1>1, <1>2, <1>9, <2>1
  <2>3. k <= f + 1
    <3>1. CASE one BY <2>1, <3>1
    <3>2. CASE k - 1 <= f + 1 BY <1>1, <2>1, <3>2
    <3> QED BY <2>2, <3>1, <3>2
  <2> QED BY <1>1, <1>4, <2>1, <2>3
<1> QED BY <1>5, <1>6, <1>7, <1>8, <1>9 DEF f

LEMMA PacketFollows ==
  ASSUME NEW r \in Produced, NEW k \in Nat, k > 0, NEW left \in Nat, NEW c \in CursorType,
         NEW kind \in {"fields", "row", "ok", "error", "end"},
         Follows(c, r, k - 1, left + 1), PlaceOf(r, k, kind, left),
         NEW d, d.started, d.sets = (IF kind = "fields" THEN c.sets + 1 ELSE c.sets),
         d.ended <=> c.ended \/ kind = "end", d.error <=> c.error \/ (kind = "error" /\ c.started)
  PROVE  Follows(d, r, k, left) /\ d.sets \in 0..2
<1> DEFINE f == FirstSet(r)
           one == Len(r.sets) = 1
<1>1. f \in Nat /\ r.ok \in BOOLEAN BY ProducedIsResult DEF IsResult, FirstSet, Columns
<1>2. /\ c.started <=> k - 1 > 0
      /\ c.sets = IF ~Columns(r) \/ k - 1 = 0 THEN 0 ELSE IF one \/ k - 1 <= f + 1 THEN 1 ELSE 2
      /\ c.ended <=> left + 1 = 0
      /\ c.error <=> ~r.ok /\ Columns(r) /\ left + 1 <= 1
  BY DEF Follows
<1>3. /\ kind = "fields" => /\ Columns(r) /\ left >= 1 /\ (~r.ok => left >= 2)
                            /\ k = 1 \/ (k = f + 2 /\ ~one)
      /\ kind = "row" => /\ Columns(r) /\ left >= 1 /\ (~r.ok => left >= 2)
                         /\ k > 1 /\ k # f + 2 /\ (one => k <= f + 1)
      /\ kind = "ok" => ~Columns(r) /\ k = 1 /\ r.ok /\ left = 1
      /\ kind = "error" => ~r.ok /\ left = 1 /\ (~Columns(r) => k = 1)
      /\ kind = "end" => left = 0 /\ k > 1
      /\ kind \in {"error", "end"} /\ Columns(r) => k >= f + 2 /\ (~one => k >= f + 3)
  BY DEF PlaceOf
<1> HIDE DEF f, one
<1>4. d.sets = IF ~Columns(r) \/ k = 0 THEN 0 ELSE IF one \/ k <= f + 1 THEN 1 ELSE 2
  <2>1. CASE kind = "fields"
    <3>4. Columns(r) /\ (k = 1 \/ (k = f + 2 /\ ~one)) BY <1>3, <2>1
    <3>5. d.sets = c.sets + 1 BY <2>1
    <3>1. Columns(r) /\ d.sets = c.sets + 1 /\ (k = 1 \/ (k = f + 2 /\ ~one)) BY <3>4, <3>5
    <3>2. CASE k = 1
      <4>1. c.sets = 0 BY <1>2, <3>2
      <4> QED BY <1>1, <3>1, <3>2, <4>1
    <3>3. CASE k = f + 2 /\ ~one
      <4>1. c.sets = 1 BY <1>1, <1>2, <3>1, <3>3
      <4> QED BY <1>1, <3>1, <3>3, <4>1
    <3> QED BY <3>1, <3>2, <3>3
  <2>2. CASE kind = "row"
    <3>1. Columns(r) /\ d.sets = c.sets /\ k > 1 /\ k # f + 2 BY <1>3, <2>2
    <3>2. c.sets = IF one \/ k - 1 <= f + 1 THEN 1 ELSE 2 BY <1>2, <3>1
    <3>3. k - 1 <= f + 1 <=> k <= f + 1 BY <1>1, <3>1
    <3> QED BY <3>1, <3>2, <3>3
  <2>3. CASE kind = "ok" BY <1>2, <1>3, <2>3
  <2>4. CASE kind \in {"error", "end"} /\ ~Columns(r) BY <1>2, <2>4
  <2>5. CASE kind \in {"error", "end"} /\ Columns(r)
    <3>1. k >= f + 2 /\ (~one => k >= f + 3) /\ d.sets = c.sets BY <1>3, <2>5
    <3>2. CASE one BY <1>1, <1>2, <2>5, <3>1, <3>2
    <3>3. CASE ~one BY <1>1, <1>2, <2>5, <3>1, <3>3
    <3> QED BY <3>2, <3>3
  <2> QED BY <2>1, <2>2, <2>3, <2>4, <2>5
<1>5. d.ended <=> left = 0
  <2>1. ~c.ended BY <1>2
  <2>2. kind # "end" => left >= 1
    <3>1. CASE kind \in {"ok", "error"}
      <4>1. left = 1 BY <1>3, <3>1
      <4> QED BY <4>1
    <3>2. CASE kind \in {"fields", "row"} BY <1>3, <3>2
    <3> QED BY <3>1, <3>2
  <2>3. kind = "end" => left = 0 BY <1>3
  <2> QED BY <2>1, <2>2, <2>3
<1>6. d.error <=> ~r.ok /\ Columns(r) /\ left <= 1
  <2>1. CASE kind \in {"fields", "row", "ok"}
    <3>1. r.ok \/ ~(left <= 1)
      <4>1. CASE kind = "ok" BY <1>3, <4>1
      <4>2. CASE kind \in {"fields", "row"} /\ ~r.ok
        <5>1. left >= 2 BY <1>3, <4>2
        <5> QED BY <5>1
      <4> QED BY <2>1, <4>1, <4>2
    <3>2. ~c.error BY <1>2, <3>1
    <3> QED BY <2>1, <3>1, <3>2
  <2>2. CASE kind = "error"
    <3>1. ~r.ok /\ left = 1 /\ (~Columns(r) => k = 1) /\ (Columns(r) => k >= f + 2) BY <1>3, <2>2
    <3>2. ~c.error BY <1>2, <3>1
    <3>3. c.started <=> Columns(r) BY <1>1, <1>2, <3>1
    <3> QED BY <2>2, <3>1, <3>2, <3>3
  <2>3. CASE kind = "end"
    <3>1. left = 0 /\ (d.error <=> c.error) BY <1>3, <2>3
    <3> QED BY <1>2, <3>1
  <2> QED BY <2>1, <2>2, <2>3
<1>7. d.sets \in 0..2 BY <1>4
<1>8. d.started <=> k > 0 OBVIOUS
<1> QED BY <1>4, <1>5, <1>6, <1>7, <1>8 DEF Follows, f, one


LEMMA WakeKeeps ==
  ASSUME NEW c \in CursorType
  PROVE  LET d == MySql!Wake(c)
         IN  /\ d \in CursorType
             /\ d.rows = c.rows /\ d.sets = c.sets /\ d.started = c.started /\ d.ended = c.ended
             /\ d.paused = c.paused /\ d.discard = c.discard /\ d.error = c.error
BY DEF MySql!Wake, CursorType

(* What a row does to the cursor.                                           *)
LEMMA PushFacts ==
  ASSUME NEW c \in CursorType, NEW row \in Nat
  PROVE  LET d == MySql!Push(c, row)
         IN  /\ d \in CursorType /\ d.sets = c.sets /\ d.started = c.started /\ d.ended = c.ended
             /\ d.discard = c.discard /\ d.error = c.error
             /\ c.sets > 1 \/ c.discard => d.rows = c.rows /\ d.paused = c.paused
             /\ ~(c.sets > 1 \/ c.discard) => /\ d.rows = Append(c.rows, row)
                                              /\ d.paused <=> c.paused \/ Len(d.rows) >= BatchSize
<1> DEFINE rows == Append(c.rows, row)
           full == c.paused \/ Len(rows) >= BatchSize
           e == [c EXCEPT !.rows = rows, !.paused = full]
<1>1. rows \in Seq(Nat) /\ full \in BOOLEAN BY DEF CursorType
<1>2. MySql!Push(c, row) = IF c.sets > 1 \/ c.discard THEN c ELSE MySql!Wake(e) BY DEF MySql!Push
<1>3. c.rows \in Seq(Nat) /\ c \in CursorType BY DEF CursorType
<1> HIDE DEF rows, full
<1>4. /\ e \in CursorType /\ e.rows = rows /\ e.sets = c.sets /\ e.started = c.started /\ e.ended = c.ended
      /\ e.paused = full /\ e.discard = c.discard /\ e.error = c.error
  BY <1>1 DEF CursorType
<1> HIDE DEF e
<1>5. LET d == MySql!Wake(e)
      IN  /\ d \in CursorType
          /\ d.rows = e.rows /\ d.sets = e.sets /\ d.started = e.started /\ d.ended = e.ended
          /\ d.paused = e.paused /\ d.discard = e.discard /\ d.error = e.error
  BY <1>4, WakeKeeps
<1>6. CASE c.sets > 1 \/ c.discard BY <1>2, <1>6
<1>7. CASE ~(c.sets > 1 \/ c.discard)
  <2>1. MySql!Push(c, row) = MySql!Wake(e) BY <1>2, <1>7
  <2> QED BY <1>4, <1>5, <1>7, <2>1 DEF full, rows
<1> QED BY <1>6, <1>7

LEMMA MySqlStreamNext ==
  ASSUME Executed, Placed, Conversation, Reading, MySqlStream, driver = "MYSQL", MySql!MySqlNext,
         UNCHANGED <<driver, produced, pc>>
  PROVE  MySqlStream'
<1> DEFINE all == MySql!Packets(produced)
           k == Arrived(produced, wire)
           got == Got(produced, k)
<1>1. /\ cursor \in CursorType /\ IsRest(wire, all) /\ produced \in Produced
      /\ Follows(cursor, produced, k, Len(wire)) /\ Holds(cursor, place.given, got, pc)
      /\ Over(pc, message) => Len(wire) <= 1 /\ ~cursor.paused
  BY DEF MySqlStream, Executed
<1>2. k \in Nat /\ Len(wire) \in Nat /\ got \in Nat
  BY <1>1, ArrivedFacts
<1>3. ASSUME NEW c \in CursorType, cursor' = c, NEW w, wire' = w, NEW given, place'.given = given,
             NEW m, message' = m, IsRest(w, all),
             Follows(c, produced, Arrived(produced, w), Len(w)),
             Holds(c, given, Got(produced, Arrived(produced, w)), pc),
             Over(pc, m) => Len(w) <= 1 /\ ~c.paused
      PROVE  MySqlStream'
  BY <1>3 DEF MySqlStream
<1> HIDE DEF k, got
<1> USE DEF MySql!Asked, MySql!Ask, MySql!Answer, MySql!AnswerRow
<1>4. CASE MySql!Event
  <2> DEFINE w == Tail(wire)
             left == Len(wire) - 1
             packet == Head(wire)
  <2>1. /\ UNCHANGED <<result, place>> /\ wire' = w /\ wire # <<>> /\ ~cursor.paused
        /\ cursor.started \/ Asked("open")
    BY <1>4 DEF MySql!Event, Asked, Ask
  <2>2. /\ k + 1 > 0 /\ packet \in PacketType /\ Arrived(produced, w) = k + 1
        /\ IsRest(w, all) /\ Len(w) = left /\ PlaceOf(produced, k + 1, packet.kind, left)
        /\ Columns(produced) /\ k + 1 \in 2..FirstSet(produced) + 1 => packet.row = k
    BY <1>1, <1>2, <2>1, NextPacket DEF k
  <2>3. packet.kind \in {"fields", "row", "ok", "error", "end"} /\ packet.row \in Nat BY <2>2 DEF PacketType
  <2>4. left \in Nat /\ left + 1 = Len(wire)
    <3>1. Len(wire) > 0 BY <1>1, <2>1 DEF IsRest
    <3> QED BY <1>2, <3>1
  <2> DEFINE q == k + 1
             kind == packet.kind
  <2>5. q \in Nat /\ q > 0 /\ q - 1 = k BY <1>2
  <2>6. Follows(cursor, produced, q - 1, left + 1) BY <1>1, <2>4, <2>5
  <2> HIDE DEF q, left
  <2>7. /\ kind \in {"row", "end"} => cursor.started
        /\ ~cursor.started <=> q = 1
        /\ kind # "row" => Got(produced, q) = got
        /\ kind = "row" /\ cursor.sets > 1 => Got(produced, q) = got
        /\ kind = "row" /\ ~(cursor.sets > 1) =>
              q \in 2..FirstSet(produced) + 1 /\ Got(produced, q) = q - 1 /\ got = q - 2
    <3>1. Got(produced, q - 1) = got BY <2>5 DEF got
    <3>2. PlaceOf(produced, q, kind, left) BY <2>2 DEF q
    <3> HIDE DEF kind, packet
    <3>3. kind \in {"fields", "row", "ok", "error", "end"} BY <2>3 DEF kind
    <3> QED BY <1>1, <2>4, <2>5, <2>6, <3>1, <3>2, <3>3, PacketCounts
  <2>8. ASSUME NEW d \in CursorType, cursor' = d, d.started,
               d.sets = (IF kind = "fields" THEN cursor.sets + 1 ELSE cursor.sets),
               d.ended <=> cursor.ended \/ kind = "end",
               d.error <=> cursor.error \/ (kind = "error" /\ cursor.started)
        PROVE  Follows(d, produced, q, left)
    <3>2. PlaceOf(produced, q, kind, left) BY <2>2 DEF q
    <3> HIDE DEF kind, packet
    <3>3. kind \in {"fields", "row", "ok", "error", "end"} BY <2>3 DEF kind
    <3> QED BY <1>1, <2>4, <2>5, <2>6, <2>8, <3>2, <3>3, PacketFollows
  (* What is said of a statement that is over.                              *)
  <2>9. /\ Over(pc, message) => left = 0
        /\ left >= 1 => ~Over(pc, message)
    <3>1. Over(pc, message) => left + 1 <= 1 BY <1>1, <2>4
    <3> QED BY <2>4, <3>1
  <2>10. Arrived(produced, w) = q /\ Len(w) = left BY <2>2 DEF q
  <2> HIDE DEF w
  <2>11. Len(cursor.rows) <= BatchSize /\ Len(cursor.rows) < BatchSize /\ RowsAfter(cursor.rows, place.given)
    BY <1>1, <2>1 DEF Holds
  <2>12. CASE kind = "row"
    <3> DEFINE d == MySql!Push(cursor, packet.row)
    <3>1. cursor' = d /\ UNCHANGED message BY <1>4, <2>12 DEF MySql!Event
    <3>2. /\ d \in CursorType /\ d.sets = cursor.sets /\ d.started = cursor.started
          /\ d.ended = cursor.ended /\ d.discard = cursor.discard /\ d.error = cursor.error
          /\ cursor.sets > 1 \/ cursor.discard => d.rows = cursor.rows /\ d.paused = cursor.paused
          /\ ~(cursor.sets > 1 \/ cursor.discard) =>
                  /\ d.rows = Append(cursor.rows, packet.row)
                  /\ d.paused <=> cursor.paused \/ Len(d.rows) >= BatchSize
      BY <1>1, <2>3, PushFacts
    <3> HIDE DEF d
    <3>3. Follows(d, produced, q, left) BY <2>7, <2>8, <2>12, <3>1, <3>2
    <3>4. left >= 1 /\ (~produced.ok => left >= 2) /\ Columns(produced) BY <2>2, <2>12 DEF PlaceOf
    <3>5. ~d.ended /\ ~d.error
      <4>1. d.ended <=> left = 0 BY <3>3 DEF Follows
      <4>2. ~d.ended BY <2>4, <3>4, <4>1
      <4>3. d.error <=> ~produced.ok /\ Columns(produced) /\ left <= 1 BY <3>3 DEF Follows
      <4>4. ~produced.ok => ~(left <= 1)
        <5>1. left >= 2 => ~(left <= 1) BY <2>4
        <5> QED BY <3>4, <5>1
      <4> QED BY <4>2, <4>3, <4>4
    <3>6. Holds(d, place.given, Got(produced, q), pc)
      <4>1. CASE cursor.discard
        <5>1. cursor.rows = <<>> /\ pc \in {"close", "done"} BY <1>1, <4>1 DEF Holds
        <5>2. d.rows = cursor.rows /\ d.paused = cursor.paused /\ d.discard BY <3>2, <4>1
        <5> QED BY <2>1, <2>11, <5>1, <5>2 DEF Holds
      <4>2. CASE ~cursor.discard /\ cursor.sets > 1
        <5>1. d.rows = cursor.rows /\ d.paused = cursor.paused /\ ~d.discard BY <3>2, <4>2
        <5>2. place.given + Len(cursor.rows) = Got(produced, q) BY <1>1, <2>7, <2>12, <4>2 DEF Holds
        <5> QED BY <2>1, <2>11, <5>1, <5>2 DEF Holds
      <4>3. CASE ~cursor.discard /\ ~(cursor.sets > 1)
        <5> DEFINE l == Len(cursor.rows)
                   given == place.given
        <5>1. /\ d.rows = Append(cursor.rows, packet.row) /\ ~d.discard
              /\ d.paused <=> cursor.paused \/ Len(d.rows) >= BatchSize
          BY <3>2, <4>3
        <5>2. q \in 2..FirstSet(produced) + 1 /\ Got(produced, q) = q - 1 /\ got = q - 2
          BY <2>7, <2>12, <4>3
        <5>3. packet.row = k BY <2>2, <3>4, <5>2 DEF q
        <5>4. given + l = got /\ l \in Nat /\ given \in Nat /\ cursor.rows \in Seq(Nat)
          BY <1>1, <4>3, MySqlResult DEF Holds, CursorType
        <5>5. packet.row = given + l + 1
          <6>1. k = q - 1 BY <2>5
          <6> HIDE DEF l, given, k, packet
          <6> QED BY <2>5, <5>2, <5>3, <5>4, <6>1
        <5>6. d.rows \in Seq(Nat) /\ Len(d.rows) = l + 1 /\ RowsAfter(d.rows, given)
          BY <2>11, <5>1, <5>4, <5>5, AppendToRows
        <5>7. given + (l + 1) = Got(produced, q) /\ l + 1 <= BatchSize
          <6>1. l < BatchSize BY <2>11
          <6> HIDE DEF l, given
          <6>2. given + (l + 1) = Got(produced, q) BY <2>5, <5>2, <5>4
          <6>3. l + 1 <= BatchSize BY <5>4, <6>1
          <6> QED BY <6>2, <6>3
        <5>8. ~d.paused => Len(d.rows) < BatchSize
          <6>1. ~d.paused => ~(Len(d.rows) >= BatchSize) BY <5>1
          <6>2. ~(l + 1 >= BatchSize) => l + 1 < BatchSize BY <5>4
          <6> QED BY <5>6, <6>1, <6>2
        <5> HIDE DEF l
        <5> QED BY <3>5, <5>1, <5>6, <5>7, <5>8 DEF Holds
      <4> QED BY <1>1, <4>1, <4>2, <4>3 DEF CursorType
    <3>7. ~Over(pc, message') BY <2>9, <3>1, <3>4
    <3> QED BY <1>3, <2>1, <2>2, <2>10, <3>1, <3>2, <3>3, <3>6, <3>7
  (* No other packet brings a row or pauses the connection.                 *)
  <2>13. ASSUME NEW d \in CursorType, cursor' = d, Follows(d, produced, q, left), kind # "row",
                d.rows = cursor.rows, d.paused = cursor.paused, d.discard = cursor.discard,
                Over(pc, message') => left <= 1
         PROVE  MySqlStream'
    <3>1. Holds(d, place.given, Got(produced, q), pc)
      <4>1. Got(produced, q) = got BY <2>7, <2>13
      <4>2. ~d.paused BY <2>1, <2>13
      <4> QED BY <1>1, <2>13, <2>11, <4>1, <4>2 DEF Holds
    <3>2. ~d.paused BY <2>1, <2>13
    <3> QED BY <1>3, <2>1, <2>2, <2>10, <2>13, <3>1, <3>2
  <2>14. CASE kind \in {"fields", "ok"}
    <3> DEFINE d == [cursor EXCEPT !.sets = (IF kind = "fields" THEN cursor.sets + 1 ELSE cursor.sets),
                                   !.started = TRUE]
    <3>1. /\ cursor' = d /\ message' = IF cursor.started THEN message ELSE Answer("opened")
      <4>1. CASE kind = "fields" BY <1>4, <4>1 DEF MySql!Event, Answer
      <4>2. CASE kind = "ok"
        <5>1. MySql!Start BY <1>4, <4>2 DEF MySql!Event
        <5>2. [cursor EXCEPT !.started = TRUE] = d BY <1>1, <4>2 DEF CursorType
        <5> QED BY <5>1, <5>2 DEF MySql!Start, Answer
      <4> QED BY <2>14, <4>1, <4>2
    <3>2. /\ d.sets = (IF kind = "fields" THEN cursor.sets + 1 ELSE cursor.sets)
          /\ d.started /\ d.ended = cursor.ended /\ d.error = cursor.error
          /\ d.rows = cursor.rows /\ d.paused = cursor.paused /\ d.discard = cursor.discard
      BY <1>1 DEF CursorType
    <3>3. d.sets \in 0..2
      <4>1. PlaceOf(produced, q, kind, left) BY <2>2 DEF q
      <4> HIDE DEF d, kind, packet
      <4>2. kind \in {"fields", "row", "ok", "error", "end"} BY <2>3 DEF kind
      <4>3. d.ended <=> cursor.ended \/ kind = "end" BY <2>14, <3>2
      <4>4. d.error <=> cursor.error \/ (kind = "error" /\ cursor.started) BY <2>14, <3>2
      <4> QED BY <1>1, <2>4, <2>5, <2>6, <3>2, <4>1, <4>2, <4>3, <4>4, PacketFollows
    <3>4. d \in CursorType BY <1>1, <3>2, <3>3 DEF CursorType
    <3> HIDE DEF d
    <3>5. Follows(d, produced, q, left) BY <2>8, <2>14, <3>1, <3>2, <3>4
    <3>6. left >= 1 BY <2>2, <2>14, <2>4 DEF PlaceOf
    <3>7. ~Over(pc, message') BY <2>9, <3>1, <3>6, <2>1, Calling DEF Over, Answer
    <3> QED BY <2>13, <2>14, <3>1, <3>2, <3>4, <3>5, <3>7
  <2>15. CASE kind = "end" \/ (kind = "error" /\ cursor.started)
    <3> DEFINE b == [cursor EXCEPT !.ended = (cursor.ended \/ kind = "end"),
                                   !.error = (cursor.error \/ kind = "error")]
               d == MySql!Wake(b)
    <3>1. cursor' = d /\ UNCHANGED message
      <4>1. CASE kind = "end"
        <5>1. cursor' = MySql!Wake([cursor EXCEPT !.ended = TRUE]) /\ UNCHANGED message
          BY <1>4, <4>1 DEF MySql!Event
        <5>2. [cursor EXCEPT !.ended = TRUE] = b BY <1>1, <4>1 DEF CursorType
        <5> QED BY <5>1, <5>2
      <4>2. CASE kind = "error" /\ cursor.started
        <5>1. cursor' = MySql!Wake([cursor EXCEPT !.error = TRUE]) /\ UNCHANGED message
          BY <1>4, <4>2 DEF MySql!Event
        <5>2. [cursor EXCEPT !.error = TRUE] = b BY <1>1, <4>2 DEF CursorType
        <5> QED BY <5>1, <5>2
      <4> QED BY <2>15, <4>1, <4>2
    <3>2. /\ b \in CursorType /\ b.sets = cursor.sets /\ b.started = cursor.started
          /\ b.ended = (cursor.ended \/ kind = "end") /\ b.error = (cursor.error \/ kind = "error")
          /\ b.rows = cursor.rows /\ b.paused = cursor.paused /\ b.discard = cursor.discard
      BY <1>1 DEF CursorType
    <3> HIDE DEF b
    <3>3. /\ d \in CursorType
          /\ d.rows = b.rows /\ d.sets = b.sets /\ d.started = b.started /\ d.ended = b.ended
          /\ d.paused = b.paused /\ d.discard = b.discard /\ d.error = b.error
      BY <3>2, WakeKeeps
    <3> HIDE DEF d
    <3>4. cursor.started BY <2>7, <2>15
    <3>5. Follows(d, produced, q, left) BY <2>8, <2>15, <3>1, <3>2, <3>3, <3>4
    <3>6. Over(pc, message') => left <= 1 BY <2>4, <2>9, <3>1
    <3> QED BY <2>13, <2>15, <3>1, <3>2, <3>3, <3>5, <3>6
  <2>16. CASE kind = "error" /\ ~cursor.started
    <3> DEFINE d == [cursor EXCEPT !.started = TRUE]
    <3>1. cursor' = d BY <1>4, <2>16 DEF MySql!Event
    <3>2. /\ d \in CursorType /\ d.sets = cursor.sets
          /\ d.started /\ d.ended = cursor.ended /\ d.error = cursor.error
          /\ d.rows = cursor.rows /\ d.paused = cursor.paused /\ d.discard = cursor.discard
      BY <1>1 DEF CursorType
    <3> HIDE DEF d
    <3>3. Follows(d, produced, q, left) BY <2>8, <2>16, <3>1, <3>2
    <3>4. left <= 1
      <4>1. left = 1 BY <2>2, <2>16 DEF PlaceOf
      <4> QED BY <4>1
    <3> QED BY <2>13, <2>16, <3>1, <3>2, <3>3, <3>4
  <2> QED BY <2>3, <1>1, <2>12, <2>14, <2>15, <2>16 DEF CursorType
<1> HIDE DEF all
(* The reader: nothing arrives.                                             *)
<1>5. ASSUME NEW c \in CursorType, cursor' = c, UNCHANGED <<wire>>, NEW given, place'.given = given,
             NEW m, message' = m,
             c.sets = cursor.sets, c.started = cursor.started, c.ended = cursor.ended, c.error = cursor.error,
             Holds(c, given, got, pc), Over(pc, m) => Len(wire) <= 1 /\ ~c.paused
      PROVE  MySqlStream'
  <2>1. Follows(c, produced, k, Len(wire)) BY <1>1, <1>5 DEF Follows
  <2> QED BY <1>1, <1>3, <1>5, <2>1 DEF k, got
<1>6. CASE MySql!NextReturns
  <2>1. Asked("next") /\ UNCHANGED <<result, wire>> BY <1>6 DEF MySql!NextReturns, Asked, Ask
  <2>2. pc \in {"read", "count"} BY <2>1, Calling
  <2>3. \A m : ~Over(pc, m) BY <2>2 DEF Over
  <2>4. CASE UNCHANGED <<cursor, place>> BY <1>1, <1>5, <2>1, <2>3, <2>4
  <2>5. CASE ~cursor.error /\ cursor.rows # <<>>
    <3> DEFINE rows == Tail(cursor.rows)
               c == [cursor EXCEPT !.rows = rows]
               given == place.given + 1
               l == Len(cursor.rows)
    <3>1. cursor' = c /\ place' = [place EXCEPT !.given = given] BY <1>6, <2>5 DEF MySql!NextReturns
    <3>2. place'.given = given /\ place.given \in Nat BY <3>1, MySqlResult
    <3>3. ~cursor.discard /\ cursor.rows \in Seq(Nat) BY <1>1, <2>2 DEF Holds, CursorType
    <3>4. /\ RowsAfter(cursor.rows, place.given) /\ place.given + l = got /\ l <= BatchSize
          /\ ~cursor.paused => l < BatchSize
          /\ cursor.paused => ~cursor.ended /\ ~cursor.error
      BY <1>1, <3>3 DEF Holds
    <3>5. rows \in Seq(Nat) /\ Len(rows) = l - 1 /\ RowsAfter(rows, given) /\ l \in Nat /\ l > 0
      BY <2>5, <3>2, <3>3, <3>4, HeadOfRows
    <3> HIDE DEF rows
    <3>6. /\ c \in CursorType /\ c.rows = rows /\ c.sets = cursor.sets /\ c.started = cursor.started
          /\ c.ended = cursor.ended /\ c.paused = cursor.paused /\ c.error = cursor.error
          /\ c.discard = cursor.discard
      BY <1>1, <3>5 DEF CursorType
    <3>7. given + (l - 1) = got /\ l - 1 <= BatchSize /\ (l < BatchSize => l - 1 < BatchSize)
      <4> HIDE DEF l
      <4> QED BY <3>2, <3>4, <3>5
    <3> HIDE DEF c, given, l
    <3>8. Holds(c, given, got, pc) BY <3>3, <3>4, <3>5, <3>6, <3>7 DEF Holds
    <3> QED BY <1>5, <2>1, <2>3, <3>1, <3>2, <3>6, <3>8
  <2> QED BY <1>1, <1>6, <2>4, <2>5 DEF MySql!NextReturns, CursorType
<1>7. RowsAfter(<<>>, place.given)
  <2>1. <<>> = [i \in 1..0 |-> place.given + i] OBVIOUS
  <2> QED BY <2>1 DEF RowsAfter
<1>8. CASE MySql!Discard
  <2> DEFINE c == [cursor EXCEPT !.discard = TRUE, !.rows = <<>>]
  <2>1. cursor' = c /\ UNCHANGED <<result, message, place, wire>> /\ Asked("close")
    BY <1>8 DEF MySql!Discard, Asked, Ask
  <2>2. pc = "close" /\ ~Over(pc, message) BY <2>1, Calling DEF Over, Asked, Ask, Answer
  <2>3. /\ c \in CursorType /\ c.rows = <<>> /\ c.sets = cursor.sets /\ c.started = cursor.started
        /\ c.ended = cursor.ended /\ c.paused = cursor.paused /\ c.error = cursor.error
        /\ c.discard
    <3> DEFINE no == <<>>
               d == [cursor EXCEPT !.discard = TRUE, !.rows = no]
    <3>1. no \in Seq(Nat) OBVIOUS
    <3>2. c = d OBVIOUS
    <3> HIDE DEF no, c
    <3>3. /\ d \in CursorType /\ d.rows = no /\ d.sets = cursor.sets /\ d.started = cursor.started
          /\ d.ended = cursor.ended /\ d.paused = cursor.paused /\ d.error = cursor.error
          /\ d.discard
      BY <1>1, <3>1 DEF CursorType
    <3> QED BY <3>2, <3>3 DEF no
  <2> HIDE DEF c
  <2>4. Len(c.rows) = 0 BY <2>3
  <2>5. Holds(c, place.given, got, pc) BY <1>1, <1>7, <2>2, <2>3, <2>4 DEF Holds
  <2> QED BY <1>5, <2>1, <2>2, <2>3, <2>5
<1>9. CASE MySql!CloseReturns
  <2>1. UNCHANGED <<result, place, wire, cursor>> /\ (cursor.ended \/ cursor.error)
    BY <1>9 DEF MySql!CloseReturns
  <2>2. Len(wire) <= 1
    <3>1. Len(wire) = 0 \/ Len(wire) <= 1 BY <1>1, <2>1 DEF Follows
    <3> QED BY <1>2, <3>1
  <2>3. ~cursor.paused BY <1>1, <2>1 DEF Holds
  <2> QED BY <1>1, <1>5, <2>1, <2>2, <2>3
<1>10. CASE MySql!Wait
  <2>1. UNCHANGED <<result, message, place, wire>> BY <1>10 DEF MySql!Wait
  <2>2. CASE MySql!MustWait /\ cursor' = [cursor EXCEPT !.wake = "armed", !.paused = FALSE, !.at = "waiting"]
    <3> DEFINE c == [cursor EXCEPT !.wake = "armed", !.paused = FALSE, !.at = "waiting"]
    <3>1. /\ c \in CursorType /\ c.rows = cursor.rows /\ c.sets = cursor.sets
          /\ c.started = cursor.started /\ c.ended = cursor.ended /\ ~c.paused
          /\ c.error = cursor.error /\ c.discard = cursor.discard
      BY <1>1 DEF CursorType
    <3>2. cursor.rows = <<>> BY <2>2 DEF MySql!MustWait
    <3> HIDE DEF c
    <3>3. Len(c.rows) = 0 BY <3>1, <3>2
    <3>4. Holds(c, place.given, got, pc) BY <1>1, <3>1, <3>3 DEF Holds
    <3> QED BY <1>1, <1>5, <2>1, <2>2, <3>1, <3>4 DEF c
  <2>3. CASE cursor' = [cursor EXCEPT !.at = "idle"]
    <3> DEFINE c == [cursor EXCEPT !.at = "idle"]
    <3>1. /\ c \in CursorType /\ c.rows = cursor.rows /\ c.sets = cursor.sets
          /\ c.started = cursor.started /\ c.ended = cursor.ended /\ c.paused = cursor.paused
          /\ c.error = cursor.error /\ c.discard = cursor.discard
      BY <1>1 DEF CursorType
    <3> HIDE DEF c
    <3>2. Holds(c, place.given, got, pc) BY <1>1, <3>1 DEF Holds
    <3> QED BY <1>1, <1>5, <2>1, <2>3, <3>1, <3>2 DEF c
  <2> QED BY <1>10, <2>2, <2>3 DEF MySql!Wait
<1>11. CASE MySql!NoNextResultSet /\ UNCHANGED <<wire, cursor>>
  <2>1. Asked("nextResultSet") /\ UNCHANGED <<result, place>>
    BY <1>11 DEF MySql!NoNextResultSet, Asked, Ask
  <2>2. ~Over(pc, message') BY <2>1, Calling DEF Over
  <2> QED BY <1>1, <1>5, <1>11, <2>1, <2>2
<1> QED BY <1>4, <1>6, <1>8, <1>9, <1>10, <1>11 DEF MySql!MySqlNext


-------------------------------------------------------------------------------
(* What a step of a cursor, which is one of ResultCursor, leaves true.      *)
LEMMA SettlingKeeps ==
  ASSUME Executed, Placed, Conversation, Truthful, Reading, Reported, WindowIsTrue, Keeps,
         UNCHANGED <<runnerVars, driver, produced>>
  PROVE  (Executed /\ Placed /\ Conversation /\ Truthful /\ Reading /\ Reported /\ WindowIsTrue)'
<1> USE DEF Promise!Asked, Promise!Ask, Promise!Answer, Promise!AnswerRow,
            Promise!Rows, Promise!LastSet, Promise!MayFail
<1>1. /\ place.set \in DOMAIN result.sets /\ place.given \in Nat
      /\ place = [set |-> place.set, given |-> place.given]
      /\ Rows \in Nat /\ place.given <= Rows
  BY PlaceFacts
<1>2. CASE UNCHANGED cursorVars
  <2>1. UNCHANGED <<result, message, place>> BY <1>2 DEF cursorVars
  <2>2. Executed' /\ WindowIsTrue' BY <2>1 DEF Executed, WindowIsTrue, runnerVars
  <2>3. Placed' BY <2>1 DEF Placed, Rows
  <2>4. Conversation' BY <2>1 DEF Conversation, runnerVars
  <2>5. Truthful' BY <2>1 DEF Truthful, Answered, Rows, LastSet
  <2>6. Reading' BY <2>1 DEF Reading, Answered, RowsAfter, Last, Limit, runnerVars
  <2>7. Reported' BY <2>1 DEF Reported, Answered, runnerVars
  <2> QED BY <2>2, <2>3, <2>4, <2>5, <2>6, <2>7
<1>3. ASSUME UNCHANGED result
      PROVE  Executed' /\ WindowIsTrue'
  BY <1>3 DEF Executed, WindowIsTrue, runnerVars
(* The place stays.                                                         *)
<1>4. ASSUME UNCHANGED <<result, place>>, NEW what, message' = Answer(what), what \notin {"row", "true"},
             ~Answered("row"), ~Answered("true"), Conversation', Truthful'
      PROVE  Placed' /\ Reading' /\ Reported'
  <2>1. ~Answered("row")' /\ ~Answered("true")' BY <1>4 DEF Answered, Answer
  <2>2. Placed' BY <1>4 DEF Placed, Rows
  <2>3. Reading' BY <1>4, <2>1 DEF Reading, RowsAfter, Last, Limit, runnerVars
  <2>4. Reported' BY <1>4, <2>1 DEF Reported, runnerVars
  <2> QED BY <2>2, <2>3, <2>4
<1>5. \A call : Asked(call) => ~Answered("row") /\ ~Answered("true") BY DEF Asked, Ask, Answered
<1>6. CASE Promise!Open
  <2>1. Asked("open") /\ UNCHANGED <<result, place>> /\ message' \in {Answer("opened"), Answer("error")}
    BY <1>6 DEF Promise!Open, Asked, Ask, Answer
  <2>2. pc' = "execute" /\ (message' = Answer("opened") => result.ok \/ result.sets[1].columns)
    BY <2>1, Calling DEF Keeps, runnerVars
  <2>3. Conversation' BY <2>1, <2>2 DEF Conversation, Labels
  <2>4. Truthful' BY <2>1, <2>2 DEF Truthful, Answered, Answer
  <2> QED BY <1>3, <1>4, <1>5, <2>1, <2>3, <2>4
<1>7. CASE Promise!NextRow
  <2> DEFINE given == place.given + 1
  <2>1. /\ Asked("next") /\ UNCHANGED result /\ place.given < Rows
        /\ place' = [place EXCEPT !.given = given] /\ message' = AnswerRow(place'.given)
    BY <1>7 DEF Promise!NextRow, Asked, Ask, AnswerRow, Rows
  <2>2. place'.set = place.set /\ place'.given = given /\ place' = [set |-> place.set, given |-> given]
    BY <1>1, <2>1
  <2>3. given \in Nat /\ given > 0 /\ given <= Rows BY <1>1, <2>1
  <2> HIDE DEF given
  <2>4. pc' \in {"read", "count"} /\ pc' = pc BY <2>1, Calling DEF runnerVars
  <2>5. Placed' BY <1>1, <2>1, <2>2, <2>3 DEF Placed, Rows
  <2>6. Conversation' BY <2>1, <2>4 DEF Conversation, Labels
  <2>7. Truthful' BY <2>1, <2>2, <2>3 DEF Truthful, Answered, AnswerRow
  <2>8. Reading'
    <3>1. ~Answered("row") /\ Answered("row")' BY <2>1, <1>5 DEF Answered, AnswerRow
    <3>2. place.given = read /\ read \in Nat BY <2>4, <3>1 DEF Reading
    <3>3. place'.given = read + 1 BY <2>2, <3>2 DEF given
    <3> QED BY <2>1, <2>2, <3>1, <3>3 DEF Reading, RowsAfter, Last, Limit, runnerVars
  <2>9. Reported'
    BY <2>1, <2>2, <2>4 DEF Reported, runnerVars
  <2> QED BY <1>3, <2>1, <2>5, <2>6, <2>7, <2>8, <2>9
<1>8. CASE Promise!NoMoreRows \/ Promise!Fail
  <2>1. /\ Asked("next") /\ UNCHANGED <<result, place>> /\ message' \in {Answer("null"), Answer("error")}
        /\ message' = Answer("null") => place.given = Rows /\ (result.ok \/ ~LastSet)
    BY <1>8 DEF Promise!NoMoreRows, Promise!Fail, Asked, Ask, Answer, Rows, LastSet
  <2>2. pc' \in {"read", "count"} BY <2>1, Calling DEF runnerVars
  <2>3. Conversation' BY <2>1, <2>2 DEF Conversation, Labels
  <2>4. Truthful' BY <2>1 DEF Truthful, Answered, Answer, Rows, LastSet
  <2> QED BY <1>3, <1>4, <1>5, <2>1, <2>3, <2>4
<1>9. CASE Promise!NextResultSet
  <2>1. Asked("nextResultSet") /\ UNCHANGED result BY <1>9 DEF Promise!NextResultSet, Asked, Ask
  <2>2. pc' = "nextResultSet" /\ pc = "nextResultSet" BY <2>1, Calling DEF runnerVars
  <2>3. CASE LastSet
    <3>1. message' = Answer("false") /\ UNCHANGED place
      BY <1>9, <2>3 DEF Promise!NextResultSet, Answer, LastSet
    <3>2. Conversation' BY <2>2, <3>1 DEF Conversation, Labels
    <3>3. Truthful' BY <2>1, <2>3, <3>1 DEF Truthful, Answered, Answer, LastSet
    <3> QED BY <1>3, <1>4, <1>5, <2>1, <3>1, <3>2, <3>3
  <2>4. CASE ~LastSet
    <3>1. message' = Answer("true") /\ place' = [set |-> place.set + 1, given |-> 0]
      BY <1>9, <2>4 DEF Promise!NextResultSet, Answer, LastSet
    <3>2. place.set = 1 /\ Len(result.sets) = 2 /\ driver = "memory" BY <2>4, PlaceFacts
    <3>3. place'.set = 2 /\ place'.given = 0 /\ place' = [set |-> 2, given |-> 0] BY <3>1, <3>2
    <3>4. IsResult(result) /\ result.ok BY <3>2, ResultFacts
    <3>5. 2 \in DOMAIN result.sets /\ result.sets[2].rows \in Nat BY <3>2, <3>4 DEF IsResult
    <3>6. Placed' BY <2>1, <3>3, <3>5 DEF Placed, Rows
    <3>7. Conversation' BY <2>2, <3>1 DEF Conversation, Labels
    <3>8. Truthful' BY <2>1, <3>1, <3>3, <3>4 DEF Truthful, Answered, Answer
    <3>9. Reading' BY <2>1, <2>2 DEF Reading, runnerVars
    <3>10. Reported'
      <4>1. ~Answered("true") /\ Answered("true")' BY <1>5, <2>1, <3>1 DEF Answered, Answer
      <4>2. Len(resultSet) = 1 BY <2>2, <3>2, <4>1 DEF Reported
      <4>3. place'.set - 1 = 1 BY <3>3
      <4>4. UNCHANGED <<result, resultSet, error>> BY <2>1 DEF runnerVars
      <4>5. /\ resultSet \in Seq([data: Seq(Nat), rowsFound: Nat, endFound: BOOLEAN])
            /\ Len(resultSet) <= Len(result.sets) /\ error = ""
            /\ ~result.ok => \A i \in DOMAIN resultSet : i = Len(result.sets) => ~resultSet[i].endFound
        BY <2>2 DEF Reported
      <4> QED BY <2>2, <4>1, <4>2, <4>3, <4>4, <4>5 DEF Reported
    <3> QED BY <1>3, <2>1, <3>6, <3>7, <3>8, <3>9, <3>10
  <2> QED BY <2>3, <2>4
<1>10. CASE Promise!Close
  <2>1. Asked("close") /\ UNCHANGED <<result, place>> /\ message' \in {Answer("closed"), Answer("error")}
    BY <1>10 DEF Promise!Close, Asked, Ask, Answer
  <2>2. pc' = "close" BY <2>1, Calling DEF runnerVars
  <2>3. Conversation' BY <2>1, <2>2 DEF Conversation, Labels
  <2>4. Truthful' BY <2>1 DEF Truthful, Answered, Answer
  <2> QED BY <1>3, <1>4, <1>5, <2>1, <2>3, <2>4
<1> QED BY <1>2, <1>6, <1>7, <1>8, <1>9, <1>10 DEF Keeps, Promise!Settling


-------------------------------------------------------------------------------
(* What is reported of a result set, as WindowIsTrue says it.               *)
TrueOf(i, shown, r, o) ==
  LET rows == r.sets[i].rows
      last == o.fromRow + o.maxRows
  IN  /\ shown.data = [k \in 1..Len(shown.data) |-> o.fromRow + k]
      /\ r.sets[i].columns =>
           Len(shown.data) = IF rows <= o.fromRow THEN 0
                             ELSE IF rows <= last THEN rows - o.fromRow ELSE o.maxRows
      /\ IF shown.endFound
           THEN shown.rowsFound = rows
           ELSE /\ rows >= shown.rowsFound /\ rows > last
                /\ shown.rowsFound = IF o.countRows THEN last + 1 + LookAhead ELSE last

ShownTruly(i, shown) == TrueOf(i, shown, result, options)

LEMMA WindowByParts == WindowIsTrue <=> \A i \in DOMAIN resultSet : ShownTruly(i, resultSet[i])
BY DEF WindowIsTrue, ShownTruly, TrueOf

Shown == [data: Seq(Nat), rowsFound: Nat, endFound: BOOLEAN]

(* A result set that is reported is the one that was read.                  *)
LEMMA Appended ==
  ASSUME NEW S, NEW s \in Seq(S), NEW x \in S
  PROVE  LET more == Append(s, x)
         IN  /\ more \in Seq(S) /\ Len(s) \in Nat /\ Len(more) = Len(s) + 1
             /\ DOMAIN more = 1..Len(s) + 1 /\ DOMAIN s = 1..Len(s)
             /\ \A i \in 1..Len(s) : more[i] = s[i]
             /\ more[Len(s) + 1] = x
             /\ \A i \in 1..Len(s) + 1 : i \in 1..Len(s) \/ i = Len(s) + 1
OBVIOUS

LEMMA OneMoreSet ==
  ASSUME Executed, Placed, Reported, WindowIsTrue, UNCHANGED <<result, options, place, error>>,
         Len(resultSet) = place.set - 1, error = "",
         NEW shown \in Shown, resultSet' = Append(resultSet, shown), ShownTruly(place.set, shown),
         ~result.ok /\ LastSet => ~shown.endFound,
         pc' = "nextResultSet", ~Answered("true")'
  PROVE  Reported' /\ WindowIsTrue'
<1>1. place.set \in DOMAIN result.sets /\ (LastSet <=> place.set = Len(result.sets)) BY PlaceFacts
<1>2. DOMAIN result.sets = 1..Len(result.sets) /\ Len(result.sets) \in {1, 2} BY ResultFacts DEF IsResult
<1>3. resultSet \in Seq(Shown) BY DEF Reported, Shown
<1> DEFINE n == Len(resultSet)
           more == Append(resultSet, shown)
<1>4. /\ more \in Seq(Shown) /\ n \in Nat /\ Len(more) = n + 1
      /\ DOMAIN more = 1..n + 1 /\ DOMAIN resultSet = 1..n
      /\ \A i \in 1..n : more[i] = resultSet[i]
      /\ more[n + 1] = shown
      /\ \A i \in 1..n + 1 : i \in 1..n \/ i = n + 1
  <2>1. shown \in Shown OBVIOUS
  <2> QED BY ONLY <1>3, <2>1, Appended, Zenon
<1>5. n + 1 = place.set /\ n + 1 <= Len(result.sets)
  <2> DEFINE s == place.set
             m == Len(result.sets)
  <2>1. n = s - 1 /\ s \in 1..m /\ n \in Nat /\ m \in {1, 2} BY <1>1, <1>2, <1>4
  <2> HIDE DEF n, s, m
  <2>2. n + 1 = s /\ n + 1 <= m BY ONLY <2>1
  <2> QED BY <2>2 DEF s, m
<1> HIDE DEF more, n
<1>7. \A i \in DOMAIN more : ShownTruly(i, more[i])
  <2> TAKE i \in DOMAIN more
  <2>1. CASE i \in 1..n BY <1>4, <2>1, WindowByParts
  <2>2. CASE i = n + 1 BY <1>4, <1>5, <2>2
  <2> QED BY <1>4, <2>1, <2>2
<1>8. ASSUME ~result.ok, NEW i \in DOMAIN more, i = Len(result.sets) PROVE ~more[i].endFound
  <2>1. CASE i \in 1..n BY <1>4, <1>8, <2>1 DEF Reported
  <2>2. CASE i = n + 1 BY <1>1, <1>4, <1>5, <1>8, <2>2
  <2> QED BY <1>4, <2>1, <2>2
<1>9. resultSet' = more BY DEF more
<1>10. WindowIsTrue'
  <2>1. WindowIsTrue' <=> \A i \in DOMAIN resultSet' : TrueOf(i, resultSet'[i], result', options')
    BY DEF WindowIsTrue, TrueOf
  <2>2. \A i \in DOMAIN resultSet' : TrueOf(i, resultSet'[i], result', options')
    BY <1>7, <1>9 DEF ShownTruly
  <2> QED BY <2>1, <2>2
<1>11. Reported'
  <2>1. resultSet' \in Seq([data: Seq(Nat), rowsFound: Nat, endFound: BOOLEAN])
    BY <1>4, <1>9 DEF Shown
  <2>2. Len(resultSet') = place.set /\ Len(resultSet') <= Len(result.sets) BY <1>4, <1>5, <1>9
  <2>3. ~result.ok => \A i \in DOMAIN resultSet' : i = Len(result.sets) => ~resultSet'[i].endFound
    BY <1>8, <1>9
  <2> HIDE DEF Answered
  <2> QED BY <2>1, <2>2, <2>3 DEF Reported
<1> QED BY <1>10, <1>11

-------------------------------------------------------------------------------
(* The runner acts when it was answered, and leaves the cursors alone.      *)
LEMMA RunnerActs ==
  ASSUME Conversation, RunnerNext
  PROVE  /\ \A call : ~Asked(call)
         /\ pc' # "start" /\ (message' = Ask("open") => pc = "start")
         /\ pc # "done" /\ (pc = "close" => pc' = "done")
         /\ pc' \in {"execute", "close"} => message' \in {Ask("open"), Ask("close")}
         /\ pc' = "done" => pc \in {"execute", "close"} /\ message \in {Answer("error"), Answer("closed")}
         /\ UNCHANGED options
<1> USE DEF Waits, Asked, Ask, Answered, Answer, AnswerRow
<1>1. CASE Execute BY <1>1 DEF Execute, Conversation
<1>2. CASE ExecuteFails BY <1>2 DEF ExecuteFails, Conversation
<1>3. CASE StartResultSet BY <1>3 DEF StartResultSet, Conversation
<1>4. CASE SkipRow BY <1>4 DEF SkipRow, Conversation
<1>5. CASE ReturnRow BY <1>5 DEF ReturnRow, Conversation
<1>6. CASE CountRest BY <1>6 DEF CountRest, WindowFull, Report, Conversation
<1>7. CASE CountRow BY <1>7 DEF CountRow, Report, Conversation
<1>8. CASE EndResultSet BY <1>8 DEF EndResultSet, WindowFull, Report, Conversation
<1>9. CASE NoMoreResultSets BY <1>9 DEF NoMoreResultSets, Conversation
<1>10. CASE ReadFails BY <1>10 DEF ReadFails, Conversation
<1>11. CASE Closed BY <1>11 DEF Closed, Conversation
<1> QED BY <1>1, <1>2, <1>3, <1>4, <1>5, <1>6, <1>7, <1>8, <1>9, <1>10, <1>11 DEF RunnerNext

LEMMA RunnerWasAnswered ==
  ASSUME Conversation, RunnerNext
  PROVE  message.to = "runner" /\ (UNCHANGED message \/ message' \in {Ask(call) : call \in Calls})
<1> USE DEF Waits, Answered, Answer, AnswerRow, Calls
<1>1. CASE Execute BY <1>1 DEF Execute, Conversation
<1>2. CASE ExecuteFails BY <1>2 DEF ExecuteFails
<1>3. CASE StartResultSet BY <1>3 DEF StartResultSet
<1>4. CASE SkipRow BY <1>4 DEF SkipRow
<1>5. CASE ReturnRow BY <1>5 DEF ReturnRow
<1>6. CASE CountRest BY <1>6 DEF CountRest, WindowFull, Report
<1>7. CASE CountRow BY <1>7 DEF CountRow, Report
<1>8. CASE EndResultSet BY <1>8 DEF EndResultSet, WindowFull, Report
<1>9. CASE NoMoreResultSets BY <1>9 DEF NoMoreResultSets
<1>10. CASE ReadFails BY <1>10 DEF ReadFails
<1>11. CASE Closed BY <1>11 DEF Closed
<1> QED BY <1>1, <1>2, <1>3, <1>4, <1>5, <1>6, <1>7, <1>8, <1>9, <1>10, <1>11 DEF RunnerNext

LEMMA RunKeepsCursors ==
  ASSUME IInv, Run
  PROVE  PostgresBatch' /\ MySqlStream'
<1>1. /\ \A call : ~Asked(call)
      /\ pc' # "start" /\ (message' = Ask("open") => pc = "start")
      /\ pc # "done" /\ (pc = "close" => pc' = "done")
      /\ pc' \in {"execute", "close"} => message' \in {Ask("open"), Ask("close")}
      /\ pc' = "done" => pc \in {"execute", "close"} /\ message \in {Answer("error"), Answer("closed")}
  BY RunnerActs DEF IInv, Run
<1>2. UNCHANGED <<result, place, driver, produced, wire, cursor>> BY DEF Run
<1>3. PostgresBatch'
  <2>1. CASE driver = "POSTGRESQL"
    <3>1. Batched(cursor, place.given, Rows, result.ok) /\ ~cursor.reading
      <4>1. cursor.reading => FALSE BY <1>1, <2>1 DEF IInv, PostgresBatch
      <4>2. Batched(cursor, place.given, Rows, result.ok) BY <2>1 DEF IInv, PostgresBatch
      <4>3. cursor.reading \in BOOLEAN BY <4>2 DEF Batched
      <4> QED BY <4>1, <4>2, <4>3
    <3>2. Asked("open")' => cursor.rows = <<>> BY <1>1, <2>1 DEF IInv, PostgresBatch, Asked
    <3> QED BY <1>1, <1>2, <3>1, <3>2 DEF PostgresBatch, Rows
  <2> QED BY <1>2, <2>1 DEF PostgresBatch
<1>4. MySqlStream'
  <2>1. CASE driver = "MYSQL"
    <3> DEFINE got == Got(produced, Arrived(produced, wire))
    <3>1. /\ cursor \in CursorType /\ IsRest(wire, MySql!Packets(produced))
          /\ Follows(cursor, produced, Arrived(produced, wire), Len(wire))
          /\ Holds(cursor, place.given, got, pc)
          /\ Over(pc, message) => Len(wire) <= 1 /\ ~cursor.paused
      BY <2>1 DEF IInv, MySqlStream
    <3> HIDE DEF got
    <3>2. Holds(cursor, place.given, got, pc') BY <1>1, <3>1 DEF Holds
    <3>3. Over(pc', message') => Over(pc, message)
      <4>1. Ask("open") \notin {Answer("error"), Answer("closed")} /\ Ask("close") \notin {Answer("error"), Answer("closed")}
        BY DEF Ask, Answer
      <4> QED BY <1>1, <4>1 DEF Over
    <3> QED BY <1>2, <3>1, <3>2, <3>3 DEF MySqlStream, got
  <2> QED BY <1>2, <2>1 DEF MySqlStream
<1> QED BY <1>3, <1>4

(* The runner asks for a call: what is left to show of a step.              *)
LEMMA Asking ==
  ASSUME IInv, UNCHANGED <<result, place, driver, produced, options>>, NEW call \in Calls, message' = Ask(call),
         pc' = (CASE call = "open" -> "execute" [] call = "nextResultSet" -> "nextResultSet"
                  [] call = "close" -> "close" [] OTHER -> pc'),
         call = "next" => pc' \in {"read", "count"}
  PROVE  /\ Executed' /\ Placed' /\ Conversation' /\ Truthful'
         /\ \A what : ~Answered(what)'
<1>1. \A what : ~Answered(what)' BY DEF Answered, Ask
<1>2. Executed' BY DEF IInv, Executed
<1>3. Placed' BY DEF IInv, Placed, Rows
<1>4. Truthful' BY <1>1 DEF Truthful
<1>5. CASE call = "open" BY <1>1, <1>2, <1>3, <1>4, <1>5 DEF Conversation, Labels
<1>6. CASE call = "next" BY <1>1, <1>2, <1>3, <1>4, <1>6 DEF Conversation, Labels
<1>7. CASE call = "nextResultSet" BY <1>1, <1>2, <1>3, <1>4, <1>7 DEF Conversation, Labels
<1>8. CASE call = "close" BY <1>1, <1>2, <1>3, <1>4, <1>8 DEF Conversation, Labels
<1> QED BY <1>5, <1>6, <1>7, <1>8 DEF Calls

(* The reader goes on: what it asks for, and what it has read.              *)
LEMMA Onward ==
  ASSUME IInv, UNCHANGED <<result, place, driver, produced, options, resultSet, error>>,
         pc \in {"start", "execute", "read", "count", "nextResultSet"},
         \/ pc' \in {"read", "count"} /\ message' = Ask("next") /\ Len(resultSet) = place.set - 1
         \/ pc' = "execute" /\ message' = Ask("open") /\ pc = "start"
         \/ pc' = "close" /\ message' = Ask("close") /\ Len(resultSet) = Len(result.sets),
         Reading'
  PROVE  (Executed /\ Placed /\ Conversation /\ Truthful /\ Reading /\ Reported /\ WindowIsTrue)'
<1>1. Executed' /\ Placed' /\ Conversation' /\ Truthful'
  <2>1. CASE pc' \in {"read", "count"} /\ message' = Ask("next") BY <2>1, Asking DEF Calls
  <2>2. CASE pc' = "execute" /\ message' = Ask("open") BY <2>2, Asking DEF Calls
  <2>3. CASE pc' = "close" /\ message' = Ask("close") BY <2>3, Asking DEF Calls
  <2> QED BY <2>1, <2>2, <2>3
<1>2. WindowIsTrue' BY DEF IInv, WindowIsTrue
<1>3. Reported'
  <2>1. Reported /\ Conversation BY DEF IInv
  <2>2. pc = "start" => Len(resultSet) = place.set - 1 /\ place = [set |-> 1, given |-> 0]
    BY <2>1 DEF Reported
  <2>3. /\ resultSet \in Seq([data: Seq(Nat), rowsFound: Nat, endFound: BOOLEAN])
        /\ Len(resultSet) <= Len(result.sets) /\ error = ""
        /\ ~result.ok => \A i \in DOMAIN resultSet : i = Len(result.sets) => ~resultSet[i].endFound
    BY <2>1 DEF Reported
  <2>4. pc' \in {"read", "count"} => Len(resultSet) = place.set - 1 OBVIOUS
  <2> QED BY <2>2, <2>3, <2>4 DEF Reported
<1> QED BY <1>1, <1>2, <1>3

LEMMA ReaderFacts ==
  ASSUME IInv
  PROVE  /\ options.fromRow \in Nat /\ options.maxRows \in Nat /\ options.countRows \in BOOLEAN
         /\ Last = options.fromRow + options.maxRows /\ Last \in Nat
         /\ Limit = Last + 1 + LookAhead /\ Limit \in Nat /\ LookAhead \in Nat
         /\ read \in Nat /\ data \in Seq(Nat) /\ Len(data) \in Nat
         /\ place.given \in Nat /\ Rows \in Nat /\ place.given <= Rows
         /\ Rows = result.sets[place.set].rows
         /\ result.ok \in BOOLEAN
<1>1. options \in Options BY DEF IInv, Executed
<1>2. options.fromRow \in Nat /\ options.maxRows \in Nat /\ options.countRows \in BOOLEAN
  BY <1>1 DEF Options
<1>3. read \in Nat /\ data \in Seq(Nat) BY DEF IInv, Reading
<1>4. Executed /\ Placed BY DEF IInv
<1>5. result.ok \in BOOLEAN /\ Rows \in Nat /\ place.given \in Nat /\ place.given <= Rows
  BY <1>4, PlaceFacts, ResultFacts DEF IsResult
<1>6. Last = options.fromRow + options.maxRows /\ Limit = options.fromRow + options.maxRows + 1 + LookAhead
  BY DEF Last, Limit
<1>7. Last \in Nat /\ Limit = Last + 1 + LookAhead /\ Limit \in Nat /\ LookAhead \in Nat BY <1>2, <1>6
<1>8. Rows = result.sets[place.set].rows BY DEF Rows
<1> QED BY <1>2, <1>3, <1>5, <1>6, <1>7, <1>8

(* A row that was read: which one.                                          *)
LEMMA RowRead ==
  ASSUME IInv, pc \in {"read", "count"}, Answered("row")
  PROVE  /\ message.row = read + 1 /\ place.given = read + 1 /\ Rows >= read + 1
         /\ result.sets[place.set].columns /\ RowsAfter(data, options.fromRow)
         /\ Len(resultSet) = place.set - 1 /\ error = ""
<1>1. /\ place.given = read + 1 /\ result.sets[place.set].columns /\ RowsAfter(data, options.fromRow)
  BY DEF IInv, Reading
<1>2. message = AnswerRow(place.given)
  <2>1. message \in {Ask("next"), AnswerRow(place.given), Answer("null"), Answer("error")}
    BY DEF IInv, Conversation
  <2> QED BY <2>1 DEF Answered, Ask, Answer
<1>3. message.row = place.given BY <1>2 DEF AnswerRow
<1>4. Len(resultSet) = place.set - 1 /\ error = "" BY DEF IInv, Reported
<1> QED BY <1>1, <1>3, <1>4, ReaderFacts

Rest == Executed /\ Placed /\ Conversation /\ Truthful /\ Reading /\ Reported /\ WindowIsTrue

LEMMA ExecuteKeeps ==
  ASSUME IInv, Execute, UNCHANGED <<result, place, driver, produced>>
  PROVE  Rest'
<1>1. /\ pc = "start" /\ pc' = "execute" /\ message' = Ask("open")
      /\ UNCHANGED <<options, read, data, resultSet, error>>
  BY DEF Execute, Waits
<1>2. Reading' BY <1>1 DEF IInv, Reading
<1> QED BY <1>1, <1>2, Onward DEF Rest

LEMMA FailsKeeps ==
  ASSUME IInv, ExecuteFails \/ Closed, UNCHANGED <<result, place, driver, produced>>
  PROVE  Rest'
<1>1. /\ pc \in {"execute", "close"} /\ pc' = "done" /\ UNCHANGED <<message, options, read, data, resultSet>>
      /\ error' \in {"open", "close", error} /\ (error' = error => pc = "close" \/ error # "")
  BY DEF ExecuteFails, Closed
<1>2. Executed' BY <1>1 DEF IInv, Executed
<1>3. Placed' BY DEF IInv, Placed, Rows
<1>4. Conversation' BY <1>1, RunnerActs DEF IInv, Conversation, Labels, RunnerNext
<1>5. Truthful' BY <1>1 DEF IInv, Truthful, Answered, Rows, LastSet
<1>6. Reading' BY <1>1 DEF IInv, Reading
<1>7. Reported'
  <2>1. Reported BY DEF IInv
  <2>2. CASE pc = "close" BY <1>1, <2>1, <2>2 DEF Reported
  <2>3. CASE pc = "execute"
    <3>1. error' = "open" BY <2>3 DEF ExecuteFails, Closed
    <3> QED BY <1>1, <2>1, <2>3, <3>1 DEF Reported
  <2> QED BY <1>1, <2>2, <2>3
<1>8. WindowIsTrue'
  <2>1. WindowIsTrue BY DEF IInv
  <2>2. UNCHANGED <<result, options, resultSet>> BY <1>1
  <2> QED BY <2>1, <2>2 DEF WindowIsTrue
<1> QED BY <1>2, <1>3, <1>4, <1>5, <1>6, <1>7, <1>8 DEF Rest

LEMMA NextSetKeeps ==
  ASSUME IInv, NoMoreResultSets, UNCHANGED <<result, place, driver, produced>>
  PROVE  Rest'
<1>1. /\ pc = "nextResultSet" /\ Answered("false") /\ pc' = "close" /\ message' = Ask("close")
      /\ UNCHANGED <<options, read, data, resultSet, error>>
  BY DEF NoMoreResultSets, Waits
<1>2. Len(resultSet) = Len(result.sets)
  <2>1. LastSet /\ ~Answered("true") BY <1>1 DEF IInv, Truthful, Answered
  <2> QED BY <1>1, <2>1 DEF IInv, Reported, LastSet
<1>3. Reading' BY <1>1 DEF IInv, Reading
<1> QED BY <1>1, <1>2, <1>3, Onward DEF Rest

LEMMA ReadFailsKeeps ==
  ASSUME IInv, ReadFails, UNCHANGED <<result, place, driver, produced>>
  PROVE  Rest'
<1>1. /\ pc \in {"read", "count"} /\ pc' = "close" /\ message' = Ask("close") /\ error' = "next"
      /\ UNCHANGED <<options, read, data, resultSet>>
  BY DEF ReadFails, Waits
<1>2. Executed' /\ Placed' /\ Conversation' /\ Truthful' BY <1>1, Asking DEF Calls
<1>3. Reading' BY <1>1 DEF IInv, Reading
<1>4. Reported' BY <1>1 DEF IInv, Reported
<1>5. WindowIsTrue' BY <1>1 DEF IInv, WindowIsTrue
<1> QED BY <1>2, <1>3, <1>4, <1>5 DEF Rest

LEMMA SkipKeeps ==
  ASSUME IInv, SkipRow, UNCHANGED <<result, place, driver, produced>>
  PROVE  Rest'
<1>1. /\ pc = "read" /\ Answered("row") /\ read < options.fromRow
      /\ pc' = "read" /\ message' = Ask("next") /\ read' = read + 1
      /\ UNCHANGED <<options, data, resultSet, error>>
  BY DEF SkipRow, Waits
<1>2. Reading'
  <2>1. ~Answered("row")' BY <1>1 DEF Answered, Ask
  <2>2. /\ place.given = read + 1 /\ result.sets[place.set].columns /\ RowsAfter(data, options.fromRow)
    BY <1>1, RowRead
  <2>3. read' \in Nat /\ read' <= options.fromRow BY <1>1, ReaderFacts
  <2>4. /\ Len(data) = IF read <= options.fromRow THEN 0 ELSE read - options.fromRow
        /\ Len(data) <= options.maxRows
    BY <1>1 DEF IInv, Reading
  <2>5. Len(data) = 0 BY <1>1, <2>4, ReaderFacts
  <2>6. place.given = read' + 0 BY <1>1, <2>2, <2>3
  <2> QED BY <1>1, <2>1, <2>2, <2>3, <2>4, <2>5, <2>6, ReaderFacts DEF Reading, RowsAfter
<1> QED BY <1>1, <1>2, RowRead, Onward DEF Rest

LEMMA ReturnKeeps ==
  ASSUME IInv, ReturnRow, UNCHANGED <<result, place, driver, produced>>
  PROVE  Rest'
<1> DEFINE from == options.fromRow
           n == Len(data)
           more == Append(data, message.row)
<1>1. /\ pc = "read" /\ Answered("row") /\ read >= from /\ n < options.maxRows
      /\ pc' = "read" /\ message' = Ask("next") /\ read' = read + 1 /\ data' = more
      /\ UNCHANGED <<options, resultSet, error>>
  BY DEF ReturnRow, Waits
<1>2. ~Answered("row")' BY <1>1 DEF Answered, Ask
<1>3. /\ message.row = read + 1 /\ place.given = read + 1 /\ result.sets[place.set].columns
      /\ RowsAfter(data, from)
  BY <1>1, RowRead
<1>4. read \in Nat /\ from \in Nat /\ options.maxRows \in Nat /\ n \in Nat /\ data \in Seq(Nat)
  BY ReaderFacts
<1>5. n = IF read <= from THEN 0 ELSE read - from
  BY <1>1 DEF IInv, Reading
<1> DEFINE x == message.row
<1>6. x = from + n + 1 /\ n + 1 <= options.maxRows /\ ~(read + 1 <= from) /\ n + 1 = (read + 1) - from
  <2>1. x = read + 1 BY <1>3
  <2> HIDE DEF n, from, x
  <2> QED BY <1>1, <1>4, <1>5, <2>1
<1>7. more \in Seq(Nat) /\ Len(more) = n + 1 /\ RowsAfter(more, from) BY <1>3, <1>4, <1>6, AppendToRows
<1> HIDE DEF more, n, x
<1>8. Reading'
  <2>1. read' \in Nat /\ place.given = read' + 0 BY <1>1, <1>3, <1>4
  <2>2. options'.fromRow = from /\ options'.maxRows = options.maxRows BY <1>1
  <2>3. RowsAfter(data', options'.fromRow) BY <1>1, <1>7, <2>2
  <2>4. Len(data') = IF read' <= from THEN 0 ELSE read' - from BY <1>1, <1>6, <1>7
  <2>5. Len(data') <= options.maxRows BY <1>1, <1>6, <1>7
  <2> HIDE DEF from
  <2> QED BY <1>1, <1>2, <1>3, <1>7, <2>1, <2>2, <2>3, <2>4, <2>5 DEF Reading, RowsAfter, from
<1> QED BY <1>1, <1>8, RowRead, Onward DEF Rest

(* A set that is reported: what was shown of it is true.                    *)
LEMMA ReportKeeps ==
  ASSUME IInv, UNCHANGED <<result, place, driver, produced, options, error>>,
         pc \in {"execute", "nextResultSet", "read", "count"},
         Len(resultSet) = place.set - 1, error = "",
         pc' = "nextResultSet", message' = Ask("nextResultSet"),
         read' \in Nat, data' \in Seq(Nat),
         NEW shown \in Shown, resultSet' = Append(resultSet, shown), ShownTruly(place.set, shown),
         ~result.ok /\ LastSet => ~shown.endFound
  PROVE  Rest'
<1>1. Executed' /\ Placed' /\ Conversation' /\ Truthful' /\ ~Answered("true")' BY Asking DEF Calls
<1>2. Reported' /\ WindowIsTrue' BY <1>1, OneMoreSet DEF IInv
<1>3. Reading' BY DEF Reading
<1> QED BY <1>1, <1>2, <1>3 DEF Rest

LEMMA StartKeeps ==
  ASSUME IInv, StartResultSet, UNCHANGED <<result, place, driver, produced>>
  PROVE  Rest'
<1>1. /\ (pc = "execute" /\ Answered("opened")) \/ (pc = "nextResultSet" /\ Answered("true"))
      /\ read' = 0 /\ data' = <<>> /\ UNCHANGED <<options, error>>
  BY DEF StartResultSet
<1>2. Len(resultSet) = place.set - 1 /\ error = "" /\ place.given = 0
  <2>1. CASE pc = "execute"
    <3>1. Reported BY DEF IInv
    <3>2. place = [set |-> 1, given |-> 0] BY <2>1, <3>1 DEF Reported
    <3>3. Len(resultSet) = place.set - 1 /\ error = "" BY <2>1, <3>1 DEF Reported
    <3> QED BY <3>2, <3>3
  <2>2. CASE pc = "nextResultSet" /\ Answered("true") BY <2>2 DEF IInv, Reported, Truthful
  <2> QED BY <1>1, <2>1, <2>2
<1>3. 0 \in Nat /\ <<>> \in Seq(Nat) /\ Len(<<>>) = 0 OBVIOUS
<1>4. \A g : RowsAfter(<<>>, g)
  <2>1. \A g : <<>> = [i \in 1..0 |-> g + i] OBVIOUS
  <2> QED BY <1>3, <2>1 DEF RowsAfter
<1>5. CASE result.sets[place.set].columns
  <2>1. pc' = "read" /\ message' = Ask("next") /\ UNCHANGED resultSet
    BY <1>5 DEF StartResultSet, Waits
  <2>2. ~Answered("row")' BY <2>1 DEF Answered, Ask
  <2>3. Reading'
    <3> DEFINE none == <<>>
    <3>1. data' = none /\ none \in Seq(Nat) /\ Len(none) = 0 /\ RowsAfter(none, options.fromRow)
      BY <1>1, <1>3, <1>4
    <3> HIDE DEF none
    <3>2. 0 <= options.fromRow /\ 0 <= options.maxRows BY ReaderFacts
    <3>6. read' + 0 = 0 BY <1>1
    <3>3. place'.given = read' + 0 /\ result'.sets[place'.set].columns BY <1>2, <1>5, <3>6
    <3>4. options' = options /\ RowsAfter(data, options.fromRow)' BY <1>1, <3>1 DEF RowsAfter
    <3>5. Len(data') = 0 /\ read' = 0 /\ data' \in Seq(Nat) BY <1>1, <3>1
    <3> QED BY <2>1, <2>2, <3>2, <3>3, <3>4, <3>5 DEF Reading
  <2> QED BY <1>1, <1>2, <2>1, <2>3, Onward DEF Rest
<1>6. CASE ~result.sets[place.set].columns
  <2> DEFINE shown == [data |-> <<>>, rowsFound |-> 0, endFound |-> TRUE]
  <2>1. pc' = "nextResultSet" /\ message' = Ask("nextResultSet") /\ resultSet' = Append(resultSet, shown)
    BY <1>6 DEF StartResultSet, Waits
  <2>2. /\ place.set \in DOMAIN result.sets /\ result.sets[place.set].rows = 0
        /\ (pc = "execute" => place.set = 1) /\ Executed /\ Placed
    BY <1>6, PlaceFacts, ResultFacts DEF IInv, IsResult, Reported
  <2>3. result.ok
    <3>1. CASE pc = "execute" BY <1>1, <1>6, <2>2, <3>1 DEF IInv, Truthful
    <3>2. CASE Answered("true") BY <3>2 DEF IInv, Truthful
    <3> QED BY <1>1, <3>1, <3>2
  <2>4. shown \in Shown /\ shown.data = <<>> /\ shown.rowsFound = 0 /\ shown.endFound = TRUE BY DEF Shown
  <2>5. RowsAfter(<<>>, options.fromRow) BY <1>4
  <2>6. ShownTruly(place.set, shown) BY <1>6, <2>2, <2>4, <2>5 DEF ShownTruly, TrueOf, RowsAfter
  <2> HIDE DEF shown
  <2>7. read' \in Nat /\ data' \in Seq(Nat) BY <1>1, <1>3
  <2> QED BY <1>1, <1>2, <2>1, <2>3, <2>4, <2>6, <2>7, ReportKeeps
<1> QED BY <1>5, <1>6

(* What is reported of the set that is read.                                *)
Shows(rowsFound, endFound) == [data |-> data, rowsFound |-> rowsFound, endFound |-> endFound]

LEMMA ShowsTruly ==
  ASSUME IInv, pc \in {"read", "count"}, NEW found \in Nat, NEW ended \in BOOLEAN,
         LET rows == Rows
         IN  /\ Len(data) = IF rows <= options.fromRow THEN 0
                            ELSE IF rows <= Last THEN rows - options.fromRow ELSE options.maxRows
             /\ ended => found = rows
             /\ ~ended => /\ rows >= found /\ rows > Last
                          /\ found = IF options.countRows THEN Last + 1 + LookAhead ELSE Last
  PROVE  Shows(found, ended) \in Shown /\ ShownTruly(place.set, Shows(found, ended))
<1> DEFINE shown == Shows(found, ended)
<1>1. RowsAfter(data, options.fromRow) BY DEF IInv, Reading
<1>2. data \in Seq(Nat) /\ Rows = result.sets[place.set].rows BY ReaderFacts
<1>3. shown.data = data /\ shown.rowsFound = found /\ shown.endFound = ended BY DEF Shows
<1>4. shown \in Shown BY <1>2 DEF Shows, Shown
<1> HIDE DEF shown
<1>5. ShownTruly(place.set, shown)
  <2>1. shown.data = [k \in 1..Len(shown.data) |-> options.fromRow + k] BY <1>1, <1>3 DEF RowsAfter
  <2> QED BY <1>2, <1>3, <2>1 DEF ShownTruly, TrueOf, Last
<1> QED BY <1>4, <1>5 DEF shown

(* The window is full: the rows before this one fill it.                    *)
LEMMA FullFacts ==
  ASSUME IInv, WindowFull
  PROVE  /\ pc = "read" /\ read = Last /\ Len(data) = options.maxRows
         /\ Rows >= Last + 1 /\ place.given = Last + 1
         /\ options.fromRow <= Last
<1> DEFINE n == Len(data)
           from == options.fromRow
           max == options.maxRows
<1>1. pc = "read" /\ Answered("row") /\ read >= from /\ n >= max BY DEF WindowFull
<1>2. (n = IF read <= from THEN 0 ELSE read - from) /\ n <= max
  BY <1>1 DEF IInv, Reading
<1>3. /\ read \in Nat /\ from \in Nat /\ max \in Nat /\ n \in Nat /\ Last = from + max /\ Last \in Nat
      /\ Rows \in Nat
  BY ReaderFacts
<1>4. place.given = read + 1 /\ Rows >= read + 1 BY <1>1, RowRead
<1> HIDE DEF n, from, max
<1>5. n = max BY <1>1, <1>2, <1>3
<1>6. read = Last
  <2>1. CASE read <= from
    <3>1. read = from /\ max = 0 BY <1>1, <1>2, <1>3, <1>5, <2>1
    <3> QED BY <1>3, <3>1
  <2>2. CASE ~(read <= from)
    <3>1. max = read - from BY <1>2, <1>5, <2>2
    <3> QED BY <1>3, <3>1
  <2> QED BY <2>1, <2>2
<1>7. from <= Last BY <1>3
<1> QED BY <1>1, <1>4, <1>5, <1>6, <1>7 DEF n, max, from

LEMMA CountRestKeeps ==
  ASSUME IInv, CountRest, UNCHANGED <<result, place, driver, produced>>
  PROVE  Rest'
<1>1. /\ WindowFull /\ options.countRows /\ read' = read + 1 /\ UNCHANGED <<options, data, error>>
      /\ IF LookAhead = 0 THEN Report(read', FALSE) ELSE Waits("count", "next") /\ UNCHANGED resultSet
  BY DEF CountRest
<1>2. /\ pc = "read" /\ read = Last /\ Len(data) = options.maxRows
      /\ Rows >= Last + 1 /\ place.given = Last + 1 /\ options.fromRow <= Last
  BY <1>1, FullFacts
<1>3. /\ result.sets[place.set].columns /\ RowsAfter(data, options.fromRow)
      /\ Len(resultSet) = place.set - 1 /\ error = ""
  BY <1>1, RowRead DEF WindowFull
<1>4. /\ options.fromRow \in Nat /\ options.maxRows \in Nat /\ Last \in Nat /\ Limit = Last + 1 + LookAhead
      /\ LookAhead \in Nat /\ data \in Seq(Nat) /\ Rows \in Nat
  BY ReaderFacts
<1>5. read' = Last + 1 /\ read' \in Nat BY <1>1, <1>2, <1>4
<1>6. CASE LookAhead = 0
  <2> DEFINE shown == Shows(read', FALSE)
  <2>1. /\ pc' = "nextResultSet" /\ message' = Ask("nextResultSet") /\ resultSet' = Append(resultSet, shown)
    BY <1>1, <1>6 DEF Report, Waits, Shows
  <2>2. /\ Rows >= read' /\ Rows > Last /\ ~(Rows <= options.fromRow) /\ ~(Rows <= Last)
        /\ read' = Last + 1 + LookAhead
    BY <1>2, <1>4, <1>5, <1>6
  <2> DEFINE found == Last + 1
  <2>3. found \in Nat /\ read' = found BY <1>4, <1>5
  <2> HIDE DEF found
  <2>4. Shows(found, FALSE) \in Shown /\ ShownTruly(place.set, Shows(found, FALSE))
    BY <1>1, <1>2, <2>2, <2>3, ShowsTruly
  <2>5. shown = Shows(found, FALSE) /\ ~shown.endFound BY <2>3 DEF Shows
  <2> HIDE DEF shown
  <2> QED BY <1>1, <1>2, <1>3, <1>4, <1>5, <2>1, <2>4, <2>5, ReportKeeps
<1>7. CASE LookAhead # 0
  <2>1. pc' = "count" /\ message' = Ask("next") /\ UNCHANGED resultSet BY <1>1, <1>7 DEF Waits
  <2>2. ~Answered("row")' BY <2>1 DEF Answered, Ask
  <2>3. place.given = read' + 0 /\ read' > Last /\ read' < Limit BY <1>2, <1>4, <1>5, <1>7
  <2>4. Last' = Last /\ Limit' = Limit BY <1>1 DEF Last, Limit
  <2>5. Reading'
    BY <1>1, <1>2, <1>3, <1>4, <1>5, <2>1, <2>2, <2>3, <2>4 DEF Reading, RowsAfter
  <2> QED BY <1>1, <1>2, <1>3, <2>1, <2>5, Onward DEF Rest
<1> QED BY <1>6, <1>7

LEMMA CountRowKeeps ==
  ASSUME IInv, CountRow, UNCHANGED <<result, place, driver, produced>>
  PROVE  Rest'
<1>1. /\ pc = "count" /\ Answered("row") /\ read' = read + 1 /\ UNCHANGED <<options, data, error>>
      /\ IF read' < Limit THEN Waits("count", "next") /\ UNCHANGED resultSet ELSE Report(read', FALSE)
  BY DEF CountRow
<1>2. Len(data) = options.maxRows /\ read > Last /\ read < Limit /\ options.countRows
  BY <1>1 DEF IInv, Reading
<1>3. /\ result.sets[place.set].columns /\ RowsAfter(data, options.fromRow) /\ place.given = read + 1
      /\ Rows >= read + 1 /\ Len(resultSet) = place.set - 1 /\ error = ""
  BY <1>1, RowRead
<1>4. /\ options.fromRow \in Nat /\ options.maxRows \in Nat /\ Last \in Nat /\ Limit = Last + 1 + LookAhead
      /\ LookAhead \in Nat /\ data \in Seq(Nat) /\ Rows \in Nat /\ read \in Nat /\ Limit \in Nat
      /\ Last = options.fromRow + options.maxRows
  BY ReaderFacts
<1>5. read' \in Nat /\ read' > Last /\ place.given = read' + 0
  <2> DEFINE next == read + 1
  <2>1. next \in Nat /\ next > Last /\ next + 0 = next BY <1>2, <1>4
  <2>2. place.given = next /\ read' = next BY <1>1, <1>3
  <2> HIDE DEF next
  <2> QED BY <2>1, <2>2
<1>6. CASE read' < Limit
  <2>1. pc' = "count" /\ message' = Ask("next") /\ UNCHANGED resultSet BY <1>1, <1>6 DEF Waits
  <2>2. ~Answered("row")' BY <2>1 DEF Answered, Ask
  <2>3. Last' = Last /\ Limit' = Limit BY <1>1 DEF Last, Limit
  <2>4. Reading'
    BY <1>1, <1>2, <1>3, <1>4, <1>5, <1>6, <2>1, <2>2, <2>3 DEF Reading, RowsAfter
  <2> QED BY <1>1, <1>3, <2>1, <2>4, Onward DEF Rest
<1>7. CASE ~(read' < Limit)
  <2> DEFINE found == read + 1
             shown == Shows(found, FALSE)
  <2>1. /\ pc' = "nextResultSet" /\ message' = Ask("nextResultSet") /\ resultSet' = Append(resultSet, shown)
    BY <1>1, <1>7 DEF Report, Waits, Shows
  <2>2. found = Last + 1 + LookAhead /\ found \in Nat BY <1>1, <1>2, <1>4, <1>7
  <2>3. Rows >= found BY <1>3
  <2> HIDE DEF found
  <2>4. Rows > Last /\ ~(Rows <= options.fromRow) /\ ~(Rows <= Last) BY <1>4, <2>2, <2>3
  <2>5. Shows(found, FALSE) \in Shown /\ ShownTruly(place.set, Shows(found, FALSE))
    BY <1>1, <1>2, <2>2, <2>3, <2>4, ShowsTruly
  <2>6. ~shown.endFound BY DEF Shows
  <2> HIDE DEF shown
  <2> QED BY <1>1, <1>3, <1>4, <1>5, <2>1, <2>5, <2>6, ReportKeeps DEF shown
<1> QED BY <1>6, <1>7

LEMMA EndKeeps ==
  ASSUME IInv, EndResultSet, UNCHANGED <<result, place, driver, produced>>
  PROVE  Rest'
<1>1. /\ \/ pc \in {"read", "count"} /\ Answered("null") /\ Report(read, TRUE)
         \/ WindowFull /\ ~options.countRows /\ Report(read, FALSE)
      /\ UNCHANGED <<options, read, data, error>>
  BY DEF EndResultSet
<1>2. /\ options.fromRow \in Nat /\ options.maxRows \in Nat /\ Last \in Nat /\ data \in Seq(Nat)
      /\ Rows \in Nat /\ read \in Nat /\ Last = options.fromRow + options.maxRows
  BY ReaderFacts
<1>3. CASE pc \in {"read", "count"} /\ Answered("null") /\ Report(read, TRUE)
  <2> DEFINE shown == Shows(read, TRUE)
             n == Len(data)
  <2>1. /\ pc' = "nextResultSet" /\ message' = Ask("nextResultSet") /\ resultSet' = Append(resultSet, shown)
    BY <1>3 DEF Report, Waits, Shows
  <2>2. /\ place.given = Rows /\ (result.ok \/ ~LastSet) /\ ~Answered("row")
    BY <1>3 DEF IInv, Truthful, Answered
  <2>3. place.given = read + 0 /\ Len(resultSet) = place.set - 1 /\ error = ""
    BY <1>3, <2>2 DEF IInv, Reading, Reported
  <2>4. Rows = read
    <3>1. read + 0 = read BY <1>2
    <3> QED BY <2>2, <2>3, <3>1
  <2>5. n = IF read <= options.fromRow THEN 0
            ELSE IF read <= Last THEN read - options.fromRow ELSE options.maxRows
    <3>1. CASE pc = "read"
      <4>1. (n = IF read <= options.fromRow THEN 0 ELSE read - options.fromRow) /\ n <= options.maxRows
        BY <3>1 DEF IInv, Reading
      <4> HIDE DEF n
      <4>2. CASE read <= options.fromRow BY <4>1, <4>2
      <4>3. CASE ~(read <= options.fromRow)
        <5>1. n = read - options.fromRow BY <4>1, <4>3
        <5>2. read <= Last BY <1>2, <4>1, <5>1
        <5> QED BY <4>3, <5>1, <5>2
      <4> QED BY <4>2, <4>3
    <3>2. CASE pc = "count"
      <4>1. n = options.maxRows /\ read > Last BY <3>2 DEF IInv, Reading
      <4> HIDE DEF n
      <4>2. ~(read <= options.fromRow) /\ ~(read <= Last) BY <1>2, <4>1
      <4> QED BY <4>1, <4>2
    <3> QED BY <1>3, <3>1, <3>2
  <2>6. Shows(read, TRUE) \in Shown /\ ShownTruly(place.set, Shows(read, TRUE))
    BY <1>2, <1>3, <2>4, <2>5, ShowsTruly
  <2> HIDE DEF shown, n
  <2> QED BY <1>1, <1>2, <1>3, <2>1, <2>2, <2>3, <2>6, ReportKeeps DEF shown
<1>4. CASE WindowFull /\ ~options.countRows /\ Report(read, FALSE)
  <2> DEFINE shown == Shows(read, FALSE)
  <2>1. /\ pc' = "nextResultSet" /\ message' = Ask("nextResultSet") /\ resultSet' = Append(resultSet, shown)
    BY <1>4 DEF Report, Waits, Shows
  <2>2. /\ pc = "read" /\ read = Last /\ Len(data) = options.maxRows /\ Rows >= Last + 1
        /\ options.fromRow <= Last
    BY <1>4, FullFacts
  <2>3. Len(resultSet) = place.set - 1 /\ error = "" BY <1>4, RowRead DEF WindowFull
  <2>4. Rows >= read /\ Rows > Last /\ ~(Rows <= options.fromRow) /\ ~(Rows <= Last) BY <1>2, <2>2
  <2>5. Shows(read, FALSE) \in Shown /\ ShownTruly(place.set, Shows(read, FALSE))
    BY <1>2, <1>4, <2>2, <2>4, ShowsTruly
  <2>6. ~shown.endFound BY DEF Shows
  <2> HIDE DEF shown
  <2> QED BY <1>1, <1>2, <2>1, <2>2, <2>3, <2>5, <2>6, ReportKeeps DEF shown
<1> QED BY <1>1, <1>3, <1>4

-------------------------------------------------------------------------------
LEMMA BodySize == ASSUME NEW r \in Produced PROVE Body(r) \in Nat
<1> DEFINE b == Body(r)
           f == FirstSet(r)
           l == r.sets[2].rows
<1>1. f \in Nat /\ Len(r.sets) \in {1, 2} /\ (Len(r.sets) = 2 => l \in Nat)
  BY ProducedIsResult DEF IsResult, FirstSet
<1>2. b = IF ~Columns(r) THEN (IF r.ok THEN 1 ELSE 0) ELSE IF Len(r.sets) = 1 THEN f + 1 ELSE f + 1 + l + 1
  BY DEF Body
<1> HIDE DEF b, f, l
<1>3. b \in Nat
  <2>1. CASE Len(r.sets) = 1 BY <1>1, <1>2, <2>1
  <2>2. CASE Len(r.sets) = 2 BY <1>1, <1>2, <2>2
  <2> QED BY <1>1, <2>1, <2>2
<1> QED BY <1>3 DEF b

(* The answer of MySQL is never empty: its end comes, after an error, too.  *)
LEMMA AnswerSize ==
  ASSUME NEW r \in Produced
  PROVE  LET all == MySql!Packets(r)
         IN  /\ all \in Seq(PacketType) /\ Len(all) \in Nat /\ Len(all) > 0
             /\ ~r.ok /\ Columns(r) => Len(all) >= 2
<1> DEFINE all == MySql!Packets(r)
           n == Len(all)
           b == Body(r)
<1>1. AnswerIs(r, all) BY AnswerFacts
<1>2. all \in Seq(PacketType) /\ n = b + (IF r.ok THEN 1 ELSE 2) BY <1>1 DEF AnswerIs
<1>3. r.ok \in BOOLEAN BY ProducedIsResult DEF IsResult
<1>5. b \in Nat BY BodySize
<1> HIDE DEF n, b
<1>6. n \in Nat /\ n > 0 /\ (~r.ok => n >= 2)
  <2>1. CASE r.ok BY <1>2, <1>5, <2>1
  <2>2. CASE ~r.ok
    <3>1. n = b + 2 BY <1>2, <2>2
    <3> QED BY <1>5, <3>1
  <2> QED BY <2>1, <2>2
<1> QED BY <1>2, <1>6 DEF n

(* The invariant is inductive.                                              *)
LEMMA InitIsSound == ASSUME Init PROVE IInv
<1>1. /\ options \in Options /\ pc = "start" /\ read = 0 /\ data = <<>> /\ resultSet = <<>> /\ error = ""
      /\ driver \in Drivers /\ produced \in Produced /\ Possible(driver, produced)
      /\ result = Returned(driver, produced) /\ message = Answer("none")
      /\ place = [set |-> 1, given |-> 0]
      /\ wire = (IF driver = "MYSQL" THEN MySql!Packets(produced) ELSE <<>>)
      /\ driver = "MYSQL" => cursor = MySql!New
      /\ driver = "POSTGRESQL" => cursor = Postgres!New
  BY DEF Init, RunnerInit
<1>2. Executed BY <1>1 DEF Executed
<1>3. IsResult(result) /\ 1 \in DOMAIN result.sets /\ Rows \in Nat
  <2>1. IsResult(result) BY <1>2, ResultFacts
  <2>2. 1 \in DOMAIN result.sets
    <3>1. DOMAIN result.sets = 1..Len(result.sets) /\ Len(result.sets) \in {1, 2} BY <2>1 DEF IsResult
    <3> QED BY <3>1, SMTT(30)
  <2>3. place.set = 1 BY <1>1
  <2> QED BY <2>1, <2>2, <2>3 DEF IsResult, Rows
<1>14. place = [set |-> 1, given |-> 0] /\ place.set = 1 /\ place.given = 0
  <2>1. place = [set |-> 1, given |-> 0] BY <1>1
  <2> QED BY <2>1
<1>4. Placed
  <2>1. 0 <= Rows /\ 0 \in Nat BY <1>3
  <2> QED BY <1>3, <1>14, <2>1 DEF Placed
<1>5. Conversation BY <1>1 DEF Conversation, Labels
<1>6. Truthful BY <1>1 DEF Truthful, Answered, Answer
<1>7. Reading
  <2>1. read = 0 /\ data = <<>> /\ pc = "start" BY <1>1
  <2>2. read \in Nat /\ data \in Seq(Nat) BY <2>1
  <2> QED BY <2>1, <2>2 DEF Reading
<1>8. resultSet \in Seq([data: Seq(Nat), rowsFound: Nat, endFound: BOOLEAN]) /\ DOMAIN resultSet = {} /\ Len(resultSet) = 0
  <2>1. resultSet = <<>> BY <1>1
  <2> QED BY <2>1
<1>9. Reported
  <2>1. Len(result.sets) \in {1, 2} /\ place.set - 1 = 0 BY <1>14, <1>3 DEF IsResult
  <2>2. 0 <= Len(result.sets) BY <2>1
  <2> QED BY <1>1, <1>8, <1>14, <2>1, <2>2 DEF Reported
<1>10. WindowIsTrue BY <1>8 DEF WindowIsTrue
<1>11. <<>> \in Seq(Nat) /\ Len(<<>>) = 0 /\ \A g : RowsAfter(<<>>, g)
  <2>1. \A g : <<>> = [i \in 1..0 |-> g + i] OBVIOUS
  <2>2. <<>> \in Seq(Nat) /\ Len(<<>>) = 0 OBVIOUS
  <2> QED BY <2>1, <2>2 DEF RowsAfter
<1>12. PostgresBatch
  <2> SUFFICES ASSUME driver = "POSTGRESQL" PROVE PostgresBatch BY DEF PostgresBatch
  <2>1. cursor.rows = <<>> /\ cursor.done = FALSE /\ cursor.reading = FALSE
        /\ cursor \in [rows: Seq(Nat), done: BOOLEAN, reading: BOOLEAN]
    <3>1. cursor = [rows |-> <<>>, done |-> FALSE, reading |-> FALSE] BY <1>1 DEF Postgres!New
    <3>2. <<>> \in Seq(Nat) OBVIOUS
    <3> QED BY <3>1, <3>2
  <2>2. place.given = 0 BY <1>14
  <2> DEFINE none == <<>>
  <2>3. cursor.rows = none /\ Len(none) = 0 /\ RowsAfter(none, 0) BY <1>11, <2>1
  <2> HIDE DEF none
  <2>4. 0 <= BatchSize /\ 0 + 0 <= Rows BY <1>3
  <2>5. Batched(cursor, place.given, Rows, result.ok) BY <2>1, <2>2, <2>3, <2>4 DEF Batched
  <2> QED BY <2>1, <2>5 DEF PostgresBatch
<1>13. MySqlStream
  <2> SUFFICES ASSUME driver = "MYSQL" PROVE MySqlStream BY DEF MySqlStream
  <2> DEFINE all == MySql!Packets(produced)
             n == Len(all)
  <2>1. all \in Seq(PacketType) /\ n \in Nat /\ n > 0 BY <1>1, AnswerSize
  <2>2. wire = all BY <1>1
  <2> HIDE DEF all
  <2>3. n - n = 0 /\ \A i \in 1..n : n - n + i = i /\ n <= n BY <2>1
  <2>4. IsRest(wire, all) BY <2>1, <2>2, <2>3 DEF IsRest
  <2>5. Arrived(produced, wire) = 0 BY <2>2, <2>3 DEF Arrived, all
  <2> HIDE DEF n
  <2>6. /\ cursor.rows = <<>> /\ cursor.sets = 0 /\ cursor.started = FALSE /\ cursor.ended = FALSE
        /\ cursor.paused = FALSE /\ cursor.discard = FALSE /\ cursor.error = FALSE
        /\ cursor = MySql!New
    <3>1. cursor = MySql!New BY <1>1
    <3> QED BY <3>1 DEF MySql!New
  <2>7. cursor \in CursorType BY <1>11, <2>6 DEF MySql!New, CursorType
  <2>8. Follows(cursor, produced, 0, n)
    <3>1. ~(n = 0) /\ (produced.ok \/ ~Columns(produced) \/ ~(n <= 1))
      <4>1. ~produced.ok /\ Columns(produced) => n >= 2 BY <1>1, AnswerSize DEF n, all
      <4> QED BY <2>1, <4>1
    <3> QED BY <2>6, <3>1 DEF Follows
  <2>9. Holds(cursor, place.given, Got(produced, 0), pc)
    <3> DEFINE none == <<>>
    <3>1. cursor.rows = none /\ Len(none) = 0 /\ RowsAfter(none, 0) BY <1>11, <2>6
    <3> HIDE DEF none
    <3>2. place.given = 0 /\ Got(produced, 0) = 0 /\ 0 + 0 = 0 /\ 0 < BatchSize /\ 0 <= BatchSize
      BY <1>14 DEF Got
    <3> QED BY <2>6, <3>1, <3>2 DEF Holds
  <2>10. ~Over(pc, message) BY <1>1 DEF Over
  <2> QED BY <2>2, <2>4, <2>5, <2>7, <2>8, <2>9, <2>10 DEF MySqlStream, n, all
<1> QED BY <1>2, <1>4, <1>5, <1>6, <1>7, <1>9, <1>10, <1>12, <1>13 DEF IInv

(* The driver whose cursor it is decides which step it is.                  *)
LEMMA DeliverKeeps ==
  ASSUME IInv, Deliver
  PROVE  Keeps /\ PostgresBatch' /\ MySqlStream'
<1>1. CursorNext /\ UNCHANGED <<runnerVars, driver, produced>> /\ UNCHANGED pc
  BY DEF Deliver, runnerVars
<1>2. /\ Executed /\ Placed /\ Conversation /\ Reading /\ PostgresBatch /\ MySqlStream
  BY DEF IInv
<1>3. CASE driver = "MYSQL" /\ MySql!MySqlNext
  <2>1. Keeps BY <1>2, <1>3, MySqlKeeps
  <2>2. MySqlStream' BY <1>1, <1>2, <1>3, MySqlStreamNext
  <2> QED BY <1>1, <1>3, <2>1, <2>2 DEF PostgresBatch
<1>4. CASE driver = "POSTGRESQL" /\ Postgres!PostgresNext
  <2>1. Keeps BY <1>2, <1>4, PostgresKeeps
  <2>2. PostgresBatch' BY <1>1, <1>2, <1>4, PostgresBatchNext
  <2> QED BY <1>1, <1>4, <2>1, <2>2 DEF MySqlStream
<1>5. CASE driver \in {"SQLITE", "memory"} /\ Local!IteratorNext
  <2>1. Keeps BY <1>2, <1>5, LocalKeeps
  <2> QED BY <1>1, <1>5, <2>1 DEF MySqlStream, PostgresBatch
<1> QED BY <1>1, <1>3, <1>4, <1>5 DEF CursorNext

LEMMA StepIsSound == ASSUME IInv, [Next]_vars PROVE IInv'
<1>1. CASE Run
  <2>1. RunnerNext /\ UNCHANGED <<result, place, driver, produced>> BY <1>1 DEF Run
  <2>2. Rest'
    BY <2>1, ExecuteKeeps, FailsKeeps, StartKeeps, SkipKeeps, ReturnKeeps, CountRestKeeps, CountRowKeeps,
       EndKeeps, NextSetKeeps, ReadFailsKeeps, Zenon DEF RunnerNext
  <2> QED BY <1>1, <2>2, RunKeepsCursors DEF IInv, Rest
<1>2. CASE Deliver
  <2>1. CursorNext /\ UNCHANGED <<runnerVars, driver, produced>> /\ UNCHANGED pc
    BY <1>2 DEF Deliver, runnerVars
  <2>2. /\ Executed /\ Placed /\ Conversation /\ Truthful /\ Reading /\ Reported /\ WindowIsTrue
        /\ PostgresBatch /\ MySqlStream
    BY DEF IInv
  <2>3. Keeps /\ PostgresBatch' /\ MySqlStream' BY <1>2, DeliverKeeps
  <2>4. Executed' /\ Placed' /\ Conversation' /\ Truthful' /\ Reading' /\ Reported' /\ WindowIsTrue'
    BY <2>1, <2>2, <2>3, SettlingKeeps
  <2> QED BY <2>3, <2>4 DEF IInv
<1>3. CASE UNCHANGED vars
  <2>1. UNCHANGED <<result, message, place, options, pc, read, data, resultSet, error, driver, produced, wire, cursor>>
    BY <1>3 DEF vars, cursorVars, runnerVars
  <2>2. Executed' /\ WindowIsTrue' BY <2>1 DEF IInv, Executed, WindowIsTrue
  <2>3. Placed' /\ Conversation' BY <2>1 DEF IInv, Placed, Rows, Conversation
  <2>4. Truthful' BY <2>1 DEF IInv, Truthful, Answered, Rows, LastSet
  <2>5. Reading' BY <2>1 DEF IInv, Reading, Answered, RowsAfter, Last, Limit
  <2>6. Reported' BY <2>1 DEF IInv, Reported, Answered
  <2>7. PostgresBatch' BY <2>1 DEF IInv, PostgresBatch, Rows, Asked
  <2>8. MySqlStream' BY <2>1 DEF IInv, MySqlStream
  <2> QED BY <2>2, <2>3, <2>4, <2>5, <2>6, <2>7, <2>8 DEF IInv
<1> QED BY <1>1, <1>2, <1>3 DEF Next

(* The invariant holds of every execution of a statement, by any driver.    *)
THEOREM Sound == Spec => []IInv
<1>1. Init => IInv BY InitIsSound
<1>2. IInv /\ [Next]_vars => IInv' BY StepIsSound
<1> QED BY <1>1, <1>2, PTL DEF Spec

-------------------------------------------------------------------------------
(* Every variable has its type: the runner's label, what was asked or       *)
(* answered, the result set and row that the cursor is at.                  *)
THEOREM TypeCorrect == Spec => []TypeOK
<1>1. IInv => TypeOK
  <2> SUFFICES ASSUME IInv PROVE TypeOK OBVIOUS
  <2>1. RunnerTypeOK
    <3>1. resultSet \in Seq([data: Seq(Nat), rowsFound: Nat, endFound: BOOLEAN]) BY DEF IInv, Reported
    <3>2. \A i \in DOMAIN resultSet : resultSet[i] \in [data: Seq(Nat), rowsFound: Nat, endFound: BOOLEAN]
      <4> DEFINE S == [data: Seq(Nat), rowsFound: Nat, endFound: BOOLEAN]
      <4>1. resultSet \in Seq(S) BY <3>1
      <4> HIDE DEF S
      <4>2. \A i \in DOMAIN resultSet : resultSet[i] \in S BY <4>1
      <4> QED BY <4>2 DEF S
    <3> QED BY <3>2 DEF IInv, Executed, Conversation, Reading, Reported, RunnerTypeOK
  <2>2. driver \in Drivers /\ produced \in Produced BY DEF IInv, Executed
  <2>3. place \in [set: 1..2, given: 0..MaxRows] /\ place.given \in 0..MaxRows
    <3>1. /\ place.set \in DOMAIN result.sets /\ place.given \in Nat /\ Rows \in 0..MaxRows
          /\ place = [set |-> place.set, given |-> place.given] /\ place.given <= Rows
      BY PlaceFacts DEF IInv
    <3>2. place.set \in 1..2
      <4> DEFINE n == Len(result.sets)
                 i == place.set
      <4>1. i \in 1..n /\ n \in {1, 2} BY <3>1, ResultFacts DEF IInv, IsResult
      <4> HIDE DEF n, i
      <4>2. i \in 1..2 BY <4>1
      <4> QED BY <4>2 DEF i
    <3>3. place.given \in 0..MaxRows BY <3>1
    <3> QED BY <3>1, <3>2, <3>3
  <2>4. message \in [to: {"cursor"}, what: Calls, row: {0}]
                      \union [to: {"runner"}, what: Answers, row: 0..MaxRows]
    <3>1. \A call \in Calls : Ask(call) \in [to: {"cursor"}, what: Calls, row: {0}] BY DEF Ask
    <3>2. \A what \in Answers : Answer(what) \in [to: {"runner"}, what: Answers, row: 0..MaxRows]
      BY DEF Answer
    <3>3. AnswerRow(place.given) \in [to: {"runner"}, what: Answers, row: 0..MaxRows]
      BY <2>3 DEF AnswerRow, Answers
    <3>4. message \in {Ask(call) : call \in Calls} \union {Answer(what) : what \in Answers}
                        \union {AnswerRow(place.given)}
      BY DEF IInv, Conversation, Labels, Calls, Answers
    <3> QED BY <3>1, <3>2, <3>3, <3>4
  <2> QED BY <2>1, <2>2, <2>3, <2>4 DEF TypeOK
<1> QED BY <1>1, Sound, PTL

(* sql/StatementRunner.js #readResultSet and #countRest: what is shown of a *)
(* result set is its window, whatever the batches it arrives in, for any    *)
(* numbers of rows and any window and look-ahead.                           *)
THEOREM WindowShown == Spec => []WindowIsTrue
<1>1. IInv => WindowIsTrue BY DEF IInv
<1> QED BY <1>1, Sound, PTL

(* A statement that is reported as successful has reported all of its       *)
(* result sets, and none as complete that the database failed to produce.   *)
THEOREM SuccessReported == Spec => []SuccessIsWhole
<1>1. IInv => SuccessIsWhole
  <2> SUFFICES ASSUME IInv, pc = "done", error = ""
               PROVE  /\ Len(resultSet) = Len(result.sets)
                      /\ ~result.ok => ~resultSet[Len(resultSet)].endFound
    BY DEF SuccessIsWhole
  <2>1. /\ Len(resultSet) = Len(result.sets)
        /\ resultSet \in Seq([data: Seq(Nat), rowsFound: Nat, endFound: BOOLEAN])
        /\ ~result.ok => \A i \in DOMAIN resultSet : i = Len(result.sets) => ~resultSet[i].endFound
    BY DEF IInv, Reported
  <2> DEFINE n == Len(resultSet)
  <2>2. n \in DOMAIN resultSet
    <3>1. Len(result.sets) \in {1, 2} BY ResultFacts DEF IInv, IsResult
    <3>2. resultSet \in Seq(Shown) BY <2>1 DEF Shown
    <3>3. DOMAIN resultSet = 1..n BY ONLY <3>2
    <3>4. n \in {1, 2} BY <2>1, <3>1
    <3> HIDE DEF n
    <3>5. n \in 1..n BY ONLY <3>4
    <3> QED BY <3>3, <3>5
  <2> HIDE DEF n
  <2>3. ~result.ok => ~resultSet[n].endFound BY <2>1, <2>2 DEF n
  <2> QED BY <2>1, <2>3 DEF n
<1> QED BY <1>1, Sound, PTL

(* drivers/MySqlDriver.js, MySqlCursor.close(): a statement that is done    *)
(* left nothing on its connection but the end that follows an error.        *)
THEOREM ConnectionFreed == Spec => []ConnectionIsFree
<1>1. IInv => ConnectionIsFree
  <2> SUFFICES ASSUME IInv, pc = "done", driver = "MYSQL"
               PROVE  ~cursor.paused /\ \A i \in DOMAIN wire : wire[i].kind = "end"
    BY DEF ConnectionIsFree
  <2> DEFINE all == MySql!Packets(produced)
             n == Len(all)
             w == Len(wire)
             b == Body(produced)
  <2>1. IsRest(wire, all) /\ w <= 1 /\ ~cursor.paused BY DEF IInv, MySqlStream, Over
  <2>2. /\ produced \in Produced /\ produced.ok \in BOOLEAN /\ AnswerIs(produced, all)
    BY ProducedIsResult, AnswerFacts DEF IInv, Executed, IsResult
  <2>3. /\ n = b + (IF produced.ok THEN 1 ELSE 2) /\ n \in Nat /\ n > 0
        /\ \A k \in 1..n : all[k].kind = KindAt(produced, k)
    BY <2>2, AnswerSize DEF AnswerIs
  <2>4. DOMAIN wire = 1..w /\ w \in Nat /\ \A i \in 1..w : wire[i] = all[n - w + i] BY <2>1 DEF IsRest
  <2> HIDE DEF all, n, w
  <2>5. b \in Nat
    BY <2>2, BodySize
  <2> HIDE DEF b
  <2>6. KindAt(produced, n) = "end"
    <3>1. ~(n <= b)
      <4>1. CASE produced.ok
        <5>1. n = b + 1 BY <2>3, <4>1
        <5> QED BY <2>5, <5>1
      <4>2. CASE ~produced.ok
        <5>1. n = b + 2 BY <2>3, <4>2
        <5> QED BY <2>5, <5>1
      <4> QED BY <4>1, <4>2
    <3>2. produced.ok \/ n # b + 1
      <4>1. ~produced.ok => n = b + 2 BY <2>3
      <4>2. b + 2 # b + 1 BY <2>5
      <4> QED BY <4>1, <4>2
    <3> QED BY <3>1, <3>2 DEF KindAt, b
  <2>7. \A i \in 1..w : wire[i].kind = "end"
    <3> TAKE i \in 1..w
    <3>1. i = 1 /\ w = 1 /\ n - w + i = n /\ n \in 1..n BY <2>1, <2>3, <2>4
    <3> QED BY <2>3, <2>4, <2>6, <3>1
  <2> QED BY <2>1, <2>4, <2>7
<1> QED BY <1>1, Sound, PTL

(* drivers/MySqlDriver.js and PostgresDriver.js: a cursor never holds more  *)
(* than one batch, however large the result.                                *)
THEOREM OneBatchHeld == Spec => []HoldsOneBatch
<1>1. IInv => HoldsOneBatch
  BY DEF IInv, HoldsOneBatch, PostgresBatch, Batched, MySqlStream, Holds
<1> QED BY <1>1, Sound, PTL

(* Every driver's cursor is a ResultCursor to the runner that reads it: it  *)
(* starts as one, and each step of the program is one that ResultCursor     *)
(* allows, or none that the reader of the cursor sees.                      *)
THEOREM StepsOfResultCursor == Spec => Promise!Init /\ [][Promise!Next]_(Promise!cursorVars)
<1>1. Init => Promise!Init BY DEF Init, Promise!Init, Answer, Promise!Answer
<1>2. IInv /\ [Next]_vars => [Promise!Next]_(Promise!cursorVars)
  <2> SUFFICES ASSUME IInv, [Next]_vars PROVE [Promise!Next]_(Promise!cursorVars) OBVIOUS
  <2>1. CASE Run
    <3>1. message.to = "runner" /\ UNCHANGED <<result, place>> BY <2>1, RunnerWasAnswered DEF Run, IInv
    <3>2. UNCHANGED message \/ message' \in {Ask(call) : call \in Calls}
      BY <2>1, RunnerWasAnswered DEF Run, IInv
    <3> QED BY <3>1, <3>2 DEF Promise!Next, Promise!Read, Promise!cursorVars, Promise!Ask, Ask,
                              Promise!Calls, Calls
  <2>2. CASE Deliver
    <3>1. Keeps BY <2>2, DeliverKeeps
    <3> QED BY <3>1 DEF Keeps, Promise!Next, Promise!cursorVars, cursorVars
  <2>3. CASE UNCHANGED vars BY <2>3 DEF vars, cursorVars, Promise!cursorVars
  <2> QED BY <2>1, <2>2, <2>3 DEF Next
<1> QED BY <1>1, <1>2, Sound, PTL DEF Spec
===============================================================================
