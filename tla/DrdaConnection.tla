----------------------------- MODULE DrdaConnection -----------------------------
(***************************************************************************)
(* drivers/drda/DrdaConnection.js and drivers/DrdaDriver.js over the       *)
(* transport: statements run on one connection, each in a section of the   *)
(* dynamic package that it holds until it is released, with queries read a *)
(* block at a time, while the connection may be closed.  A step ends where *)
(* the code awaits a reply.                                                *)
(***************************************************************************)
EXTENDS DrdaTransport

CONSTANTS
  Statements,     \* the statements run on the connection
  Closer,         \* who closes it
  Sections,       \* 1..n: the sections of the package
  MaxRows,        \* bound of the rows of a query
  Cases,          \* autocommit or not, and what the server may produce for the
                  \* statements: see CursorCalls
  Undecodable     \* the requests that rows may answer which the client can not decode

ASSUME ConnectionAssumption ==
  /\ Callers = Statements \union {Closer} /\ Closer \notin Statements
  /\ Sections = 1..Len([i \in Sections |-> i])
  /\ MaxRows \in Nat
  /\ Cases \subseteq
       [autoCommit: BOOLEAN,
        results: [Statements -> [sets: {<<[columns |-> FALSE, rows |-> 0]>>}
                                         \union {<<[columns |-> TRUE, rows |-> n]>> : n \in 0..MaxRows},
                                 ok: BOOLEAN, reliable: {FALSE}]]]
  /\ Undecodable \subseteq {"open", "continue"}

(* What is asked of the server, and what its reply says: how many halves of *)
(* rows it has sent by then, the end of the data, the end of the query.     *)
Requests  == {"prepare", "execute", "open", "continue", "close", "commit", "rollback"}
ReplyType == [kind: {"done", "failure", "undecodable", "blocks"}, upto: 0..2 * MaxRows,
              end: BOOLEAN, ended: BOOLEAN, error: BOOLEAN]

ASSUME MessagesAssumption == Bodies = Requests /\ Replies = ReplyType

VARIABLES
  autoCommit,
  results,        \* what it produces for each
  message, place, \* of each statement, as in CursorCalls
  sections,       \* #sections: those held
  statement,      \* of each statement, the fields of its DrdaQuery and where it waits
  reader,         \* of each statement, what its reader is about
  isClosed,       \* DatabaseConnection's
  open,           \* of the server: the queries it has open, with their sections
  sent            \* of the server: how many halves of rows it has sent, per query

vars == <<transportVars, autoCommit, results, message, place, sections, statement, reader, isClosed, open, sent>>

Calls(s) == INSTANCE CursorCalls WITH result <- results[s], message <- message[s], place <- place[s]

Fresh == [at |-> "idle", section |-> 0, rows |-> <<>>, lobs |-> <<>>, received |-> 0, pending |-> 0,
          done |-> FALSE, closedByServer |-> FALSE, error |-> FALSE]

Columns(s) == results[s].sets[1].columns
Halves(s)  == 2 * results[s].sets[1].rows

Init ==
  /\ TransportInit
  /\ \E case \in Cases : autoCommit = case.autoCommit /\ results = case.results
  /\ message = [s \in Statements |-> Calls(s)!Answer("none")]
  /\ place = [s \in Statements |-> [set |-> 1, given |-> 0]]
  /\ sections = {}
  /\ statement = [s \in Statements |-> Fresh]
  /\ reader = [s \in Statements |-> "starts"]
  /\ isClosed = FALSE
  /\ open = {}
  /\ sent = [s \in Statements |-> 0]

-------------------------------------------------------------------------------
(* The server.  *)

Reply(kind) == [kind |-> kind, upto |-> 0, end |-> FALSE, ended |-> FALSE, error |-> FALSE]

(* Blocks are filled without regard to where a row ends; the data can end   *)
(* with an SQLCA, with the server closing the query, or with both.          *)
Blocks(s, body, atLeast) ==
  {r \in [kind: {"blocks", "undecodable"}, upto: atLeast..Halves(s), end: BOOLEAN, ended: BOOLEAN,
          error: {~results[s].ok}] :
     /\ r.kind = "undecodable" => body \in Undecodable /\ r.upto = Halves(s) /\ r.end
     /\ r.end \/ r.ended => r.upto = Halves(s)
     /\ sent[s] = Halves(s) => r.end \/ r.ended}

SendsBlocks(s, body, atLeast, atStart) ==
  \E r \in Blocks(s, body, atLeast) :
    /\ Serve(r)
    /\ sent' = [sent EXCEPT ![s] = r.upto]
    /\ open' = IF r.ended THEN open \ {[section |-> statement[s].section, of |-> s]}
               ELSE open \union atStart

Refuses == Serve(Reply("failure")) /\ UNCHANGED <<open, sent>>
Agrees  == Serve(Reply("done")) /\ UNCHANGED <<open, sent>>

ServerAnswers ==
  /\ request # None
  /\ LET s == request.by
         body == request.body
         query == [section |-> statement[s].section, of |-> s]
     IN  \/ body = "prepare" /\ (Agrees \/ (~results[s].ok /\ Refuses))
         \/ body = "execute" /\ (IF results[s].ok THEN Agrees ELSE Refuses)
         \/ body = "open" /\ (SendsBlocks(s, body, 0, {query}) \/ (~results[s].ok /\ Refuses))
         \/ /\ body = "continue" /\ query \in open
            /\ SendsBlocks(s, body, IF sent[s] < Halves(s) THEN sent[s] + 1 ELSE Halves(s), {})
         \/ /\ body = "continue" /\ ~results[s].ok  \* an error that ends the query
            /\ Serve(Reply("failure")) /\ open' = open \ {query} /\ UNCHANGED sent
         \/ body = "continue" /\ query \notin open /\ Refuses
         \/ body = "close" /\ query \notin open /\ Refuses
         \/ body = "close" /\ query \in open /\ Serve(Reply("done")) /\ open' = open \ {query} /\ UNCHANGED sent
         \/ body = "commit" /\ (Agrees \/ Refuses)
         \/ body = "rollback" /\ Serve(Reply("done")) /\ open' = {} /\ UNCHANGED sent
  /\ UNCHANGED <<calls, queue, waiting, closed, buffer, socket,
                 autoCommit, results, message, place, sections, statement, isClosed>>

-------------------------------------------------------------------------------
(* The client.  A statement goes on when its send() has settled.            *)

At(s, label) == statement[s].at = label
Goes(s, label) == statement' = [statement EXCEPT ![s].at = label]
Sends(s, body, label) == Send(s, body) /\ Goes(s, label)
Answers(s, what) == message' = [message EXCEPT ![s] = Calls(s)!Answer(what)]

Got(s, label) == At(s, label) /\ Settled(s)
Failed(s) == calls[s].state = "rejected" \/ calls[s].reply.kind = "failure"

(* DatabaseConnection.execute, and DrdaDatabaseConnection.run up to the     *)
(* first reply: #takeSection takes the lowest section that is free.         *)
Execute(s) ==
  /\ Calls(s)!Asked("open") /\ At(s, "idle")
  /\ IF isClosed \/ sections = Sections
       THEN /\ Answers(s, "error")
            /\ UNCHANGED <<transportVars, sections, statement>>
       ELSE \E n \in Sections \ sections :
              /\ \A m \in Sections \ sections : n <= m
              /\ sections' = sections \union {n}
              /\ statement' = [statement EXCEPT ![s].section = n, ![s].at = "prepare"]
              /\ Send(s, "prepare")
              /\ UNCHANGED message
  /\ UNCHANGED <<autoCommit, results, place, isClosed, open, sent>>

Release(s) == sections' = sections \ {statement[s].section}

(* A failure of run() releases the section before it is thrown.  *)
RunFails(s) == Release(s) /\ Goes(s, "idle") /\ Answers(s, "error") /\ Taken(s)

Prepared(s) ==
  /\ Got(s, "prepare")
  /\ IF Failed(s)
       THEN RunFails(s)
       ELSE /\ IF Columns(s) THEN Sends(s, "open", "open") ELSE Sends(s, "execute", "execute")
            /\ UNCHANGED <<message, sections>>
  /\ UNCHANGED <<autoCommit, results, place, isClosed, open, sent>>

(* A statement without rows: #endOfStatement commits it in autocommit mode; *)
(* its section is released whatever happens.                                *)
Executed(s) ==
  /\ Got(s, "execute")
  /\ IF Failed(s)
       THEN RunFails(s)
       ELSE IF autoCommit
         THEN Sends(s, "commit", "commitRun") /\ UNCHANGED <<message, sections>>
         ELSE Release(s) /\ Goes(s, "idle") /\ Answers(s, "opened") /\ Taken(s)
  /\ UNCHANGED <<autoCommit, results, place, isClosed, open, sent>>

RunCommitted(s) ==
  /\ Got(s, "commitRun")
  /\ Release(s) /\ Goes(s, "idle")
  /\ Answers(s, IF Failed(s) THEN "error" ELSE "opened")
  /\ Taken(s)
  /\ UNCHANGED <<autoCommit, results, place, isClosed, open, sent>>

Numbers(first, last) == [i \in 1..(IF last < first THEN 0 ELSE last - first + 1) |-> first + i - 1]

Decoded(q, rows, upto, pending) ==
  [q EXCEPT !.rows = @ \o [i \in DOMAIN rows |-> [row |-> rows[i], object |-> 0]],
            !.lobs = @ \o rows, !.received = upto, !.pending = pending]

(* Mutants: the part of a row at the end of a block is dropped; the rows    *)
(* decoded stay in front of the part that is kept; the large object of a    *)
(* row that is cut is awaited for the array that is thrown away, too.       *)
DecodeDropsRest(q, upto) ==
  Decoded(q, Numbers((q.received + 1) \div 2 + 1, upto \div 2), upto, 0)
DecodeKeepsAll(q, upto) ==
  Decoded(q, Numbers((q.received - q.pending + 1) \div 2 + 1, upto \div 2), upto,
          q.pending + upto - q.received)
DecodeAwaitsCut(q, upto) ==
  LET d == Decoded(q, Numbers((q.received - q.pending + 1) \div 2 + 1, upto \div 2), upto, upto % 2)
  IN  [d EXCEPT !.lobs = IF upto % 2 = 1 THEN Append(@, 0) ELSE @]

(* RowDecoder.decode: the rows that are complete, counting the part of one  *)
(* that was kept from the last block; the rest is kept for the next one.    *)
(* Each row has a column whose large object is yet to come.                 *)
Decode(q, upto) ==
  Decoded(q, Numbers((q.received - q.pending + 1) \div 2 + 1, upto \div 2), upto, upto % 2)

(* attachLobs: the objects that follow a block are those of the rows that   *)
(* it completes, and fill the columns that wait for one in their order.     *)
AttachLobs(q, objects) ==
  LET n == IF Len(objects) < Len(q.lobs) THEN Len(objects) ELSE Len(q.lobs)
      Of(r) == {k \in 1..n : q.lobs[k] = r.row}
      Filled(r) == IF Of(r) = {} THEN r
                   ELSE [r EXCEPT !.object = objects[CHOOSE k \in Of(r) : TRUE]]
  IN  [q EXCEPT !.rows = [i \in DOMAIN @ |-> Filled(@[i])], !.lobs = SubSeq(@, n + 1, Len(@))]

(* The blocks of a reply, and the large objects that come with them.  *)
Contents(q, upto) == AttachLobs(Decode(q, upto), Numbers(q.received \div 2 + 1, upto \div 2))

(* Mutant: the end of the data is taken for the end of the query.  *)
ReceiveEndCloses(q, reply) ==
  [Contents(q, reply.upto) EXCEPT !.done = @ \/ reply.end \/ reply.ended,
                                  !.closedByServer = @ \/ reply.end \/ reply.ended,
                                  !.error = @ \/ ((reply.end \/ reply.ended) /\ reply.error)]

(* DrdaQuery.receive  *)
Receive(q, reply) ==
  [Contents(q, reply.upto) EXCEPT !.done = @ \/ reply.end \/ reply.ended,
                                  !.closedByServer = @ \/ reply.ended,
                                  !.error = @ \/ ((reply.end \/ reply.ended) /\ reply.error)]

(* openQuery: rows that can not be decoded are a failure, too.  *)
Opened(s) ==
  /\ Got(s, "open")
  /\ IF Failed(s) \/ calls[s].reply.kind = "undecodable"
       THEN RunFails(s)
       ELSE /\ statement' = [statement EXCEPT ![s] = [Receive(@, calls[s].reply) EXCEPT !.at = "idle"]]
            /\ Answers(s, "opened") /\ Taken(s)
            /\ UNCHANGED sections
  /\ UNCHANGED <<autoCommit, results, place, isClosed, open, sent>>

(* A row with the large object of another is none of the result's.  *)
Whole(r) == IF r.object = r.row THEN r.row ELSE 0

(* DrdaQuery.next, around its loop: a row that has been decoded, the error  *)
(* after the last one, null, or the next blocks are asked for.              *)
NextRow(s) ==
  /\ Calls(s)!Asked("next") /\ At(s, "idle")
  /\ LET q == statement[s] IN
     \/ /\ q.rows # <<>>
        /\ message' = [message EXCEPT ![s] = Calls(s)!AnswerRow(Whole(Head(q.rows)))]
        /\ statement' = [statement EXCEPT ![s].rows = Tail(@)]
        /\ place' = [place EXCEPT ![s].given = @ + 1]
        /\ UNCHANGED transportVars
     \/ /\ q.rows = <<>> /\ (q.done \/ ~Columns(s))
        /\ Answers(s, IF q.error THEN "error" ELSE "null")
        /\ UNCHANGED <<transportVars, statement, place>>
     \/ /\ q.rows = <<>> /\ ~q.done /\ Columns(s)
        /\ Sends(s, "continue", "continue")
        /\ UNCHANGED <<message, place>>
  /\ UNCHANGED <<autoCommit, results, sections, isClosed, open, sent>>

Continued(s) ==
  /\ Got(s, "continue")
  /\ IF Failed(s) \/ calls[s].reply.kind = "undecodable"
       THEN Goes(s, "idle") /\ Answers(s, "error")
       ELSE /\ statement' = [statement EXCEPT ![s] = [Receive(@, calls[s].reply) EXCEPT !.at = "idle"]]
            /\ UNCHANGED message
  /\ Taken(s)
  /\ UNCHANGED <<autoCommit, results, place, sections, isClosed, open, sent>>

(* DrdaCursor.close: the query is closed unless the server has done so, its *)
(* section is released, and the statement ends.                             *)
EndOfStatement(s) ==
  /\ Release(s)
  /\ IF autoCommit
       THEN Sends(s, "commit", "commitClose") /\ UNCHANGED message
       ELSE /\ Goes(s, "idle") /\ Answers(s, "closed")
            /\ IF Settled(s) THEN Taken(s) ELSE UNCHANGED transportVars

Close_(s) ==
  /\ Calls(s)!Asked("close") /\ At(s, "idle")
  /\ IF ~Columns(s)
       THEN Answers(s, "closed") /\ UNCHANGED <<transportVars, statement, sections>>
       ELSE IF statement[s].closedByServer
         THEN EndOfStatement(s)
         ELSE /\ Send(s, "close")
              /\ statement' = [statement EXCEPT ![s].closedByServer = TRUE, ![s].at = "close"]
              /\ UNCHANGED <<message, sections>>
  /\ UNCHANGED <<autoCommit, results, place, isClosed, open, sent>>

(* Mutant: an error of closeQuery leaves close(), and the section is kept.  *)
QueryClosedOrThrows(s) ==
  /\ Got(s, "close")
  /\ IF Failed(s)
       THEN Goes(s, "idle") /\ Answers(s, "error") /\ Taken(s) /\ UNCHANGED sections
       ELSE EndOfStatement(s)
  /\ UNCHANGED <<autoCommit, results, place, isClosed, open, sent>>

(* Whatever the server says of the close, and whether it still answers.  *)
QueryClosed(s) ==
  /\ Got(s, "close")
  /\ EndOfStatement(s)
  /\ UNCHANGED <<autoCommit, results, place, isClosed, open, sent>>

CloseCommitted(s) ==
  /\ Got(s, "commitClose")
  /\ Goes(s, "idle")
  /\ Answers(s, IF Failed(s) THEN "error" ELSE "closed")
  /\ Taken(s)
  /\ UNCHANGED <<autoCommit, results, place, sections, isClosed, open, sent>>

Runs(s) ==
  \/ Execute(s) \/ Prepared(s) \/ Executed(s) \/ RunCommitted(s) \/ Opened(s) \/ NextRow(s)
  \/ Continued(s) \/ Close_(s) \/ QueryClosed(s) \/ CloseCommitted(s)

(* DatabaseConnection.close and DrdaDatabaseConnection.disconnect: roll     *)
(* back, and close whatever comes of it.                                    *)
Disconnect ==
  /\ ~isClosed
  /\ isClosed' = TRUE
  /\ Send(Closer, "rollback")
  /\ UNCHANGED <<autoCommit, results, message, place, sections, statement, open, sent>>

(* Mutant: not without a rollback.  *)
DisconnectedIfRolledBack ==
  /\ Settled(Closer) /\ socket = "up" /\ calls[Closer].state = "resolved"
  /\ Close /\ Forget(Closer)
  /\ UNCHANGED <<autoCommit, results, message, place, sections, statement, isClosed, open, sent>>

Disconnected ==
  /\ Settled(Closer) /\ socket = "up"
  /\ Close /\ Forget(Closer)
  /\ UNCHANGED <<autoCommit, results, message, place, sections, statement, isClosed, open, sent>>

(* The reader of a statement reads as far as it likes, then closes it.  *)
Asks(s, call, as) ==
  message' = [message EXCEPT ![s] = Calls(s)!Ask(call)] /\ reader' = [reader EXCEPT ![s] = as]

Reads(s) ==
  /\ message[s].to = "runner"
  /\ \/ reader[s] = "starts" /\ Asks(s, "open", "opens")
     \/ reader[s] \in {"opens", "reads"} /\ message[s].what \in {"opened", "row"} /\ Asks(s, "next", "reads")
     \/ reader[s] = "opens" /\ message[s].what = "opened" /\ Asks(s, "close", "closes")
     \/ reader[s] = "reads" /\ Asks(s, "close", "closes")
  /\ UNCHANGED <<transportVars, autoCommit, results, place, sections, statement, isClosed, open, sent>>

(* Everything that awaits a promise that has settled goes on before the     *)
(* next event of the socket: promises come first in JavaScript's event loop.*)
Quiet == (queue = <<>> \/ waiting # None) /\ \A c \in Callers : ~Settled(c)

(* The server drops what it has open when the connection ends.  *)
TransportStep ==
  /\ Start \/ (Quiet /\ (Received \/ Unreadable \/ Break \/ CloseEvent))
  /\ open' = IF socket' = "down" THEN {} ELSE open
  /\ UNCHANGED <<autoCommit, results, message, place, sections, statement, reader, isClosed, sent>>

Next ==
  \/ TransportStep
  \/ ServerAnswers /\ UNCHANGED reader
  \/ \E s \in Statements : Reads(s) \/ (Runs(s) /\ UNCHANGED reader)
  \/ (Disconnect \/ Disconnected) /\ UNCHANGED reader

(* The event loop runs what has become possible, the server answers each    *)
(* request and the network delivers the answer: none of this has a timeout. *)
(* Nothing is assumed of the readers, and nothing makes a connection break. *)
Fairness ==
  /\ WF_vars(Start /\ TransportStep) /\ WF_vars((Received \/ Unreadable) /\ TransportStep)
  /\ WF_vars(CloseEvent /\ TransportStep)
  /\ WF_vars(ServerAnswers /\ UNCHANGED reader)
  /\ \A s \in Statements : WF_vars(Runs(s) /\ UNCHANGED reader)
  /\ WF_vars(Disconnected /\ UNCHANGED reader)

Spec == Init /\ [][Next]_vars /\ Fairness
-------------------------------------------------------------------------------
Places == {"idle", "prepare", "execute", "commitRun", "open", "continue", "close", "commitClose"}

TypeOK ==
  /\ TransportTypeOK
  /\ sections \subseteq Sections
  /\ \A s \in Statements :
       /\ place[s] \in [set: {1}, given: 0..MaxRows]
       /\ statement[s].at \in Places /\ statement[s].section \in Sections \union {0}
       /\ statement[s].pending \in {0, 1} /\ Len(statement[s].rows) <= MaxRows
       /\ sent[s] \in 0..Halves(s)
  /\ open \subseteq [section: Sections, of: Statements]

(* "A free section of the dynamic package, held until released": nothing is *)
(* open on the server in the section that another statement holds, as long  *)
(* as requests can be sent.                                                 *)
Holds(s) ==
  \/ statement[s].at \in {"prepare", "execute", "commitRun", "open", "continue", "close"}
  \/ Columns(s) /\ reader[s] = "reads"
SectionIsFree ==
  ~closed => \A s \in Statements : Holds(s) =>
    /\ statement[s].section \in sections
    /\ \A q \in open : q.section = statement[s].section => q.of = s
    /\ \A t \in Statements : Holds(t) /\ statement[t].section = statement[s].section => s = t

(* Statements that are over keep no section, whatever failed.               *)
Over(s) ==
  /\ message[s].to = "runner"
  /\ reader[s] = "closes" \/ (reader[s] = "opens" /\ message[s].what = "error")
SectionsReleased == (\A s \in Statements : Over(s)) => sections = {}

(* Every request is answered or fails.  *)
SendSettles == \A c \in Callers : (calls[c].state \in {"queued", "waiting"}) ~> Settled(c)

(* A connection that is being closed is gone in the end, even when its      *)
(* rollback fails or a statement still waits for its reply.                 *)
ConnectionEnds == isClosed ~> socket = "down"
===============================================================================
