------------------------ MODULE DrdaConnection_proofs ------------------------
(***************************************************************************)
(* Proofs about the statements on a DRDA connection, for any number of     *)
(* statements and sections, any results, replies in pieces, failures and   *)
(* a close at any time.                                                    *)
(***************************************************************************)
EXTENDS DrdaConnection, DrdaTransport_proofs

USE TransportAssumption, ConnectionAssumption, MessagesAssumption

-------------------------------------------------------------------------------
(* What a statement that waits has sent, and for which call of its reader.  *)
BodyOf(at) == IF at \in {"commitRun", "commitClose"} THEN "commit" ELSE at

CallOf(at) == IF at \in {"prepare", "execute", "commitRun", "open"} THEN "open"
              ELSE IF at = "continue" THEN "next" ELSE "close"

QueryType ==
  [at: Places, section: Sections \union {0}, rows: Seq([row: Nat, object: Nat]), lobs: Seq(Nat),
   received: Nat, pending: {0, 1}, done: BOOLEAN, closedByServer: BOOLEAN, error: BOOLEAN]

Asking(call) == [to |-> "cursor", what |-> call, row |-> 0]
Saying(what) == [to |-> "runner", what |-> what, row |-> 0]
Giving(row)  == [to |-> "runner", what |-> "row", row |-> row]

(* What is said between a statement and a reader who has got so far.        *)
Said(as, given) ==
  CASE as = "starts" -> {Saying("none")}
    [] as = "opens"  -> {Asking("open"), Saying("opened"), Saying("error")}
    [] as = "reads"  -> {Asking("next"), Giving(given), Saying("null"), Saying("error")}
    [] as = "closes" -> {Asking("close"), Saying("closed"), Saying("error")}

Talk(cols, ok, q, m, as, given) ==
  /\ q \in QueryType /\ given \in Nat
  /\ as \in {"starts", "opens", "reads", "closes"} /\ m \in Said(as, given)
  /\ q.at # "idle" => m = Asking(CallOf(q.at))
  /\ q.at \in {"execute", "commitRun"} => ~cols
  /\ q.at \in {"open", "continue", "close", "commitClose"} => cols
  /\ ~cols /\ (q.at = "commitRun" \/ as = "reads" \/ m.what = "opened") => ok
  /\ m = Giving(given) => given > 0

(* The rows that the client has, of the halves that the server has sent.    *)
Data(rows, ok, q, m, as, given, n) ==
  /\ n \in Nat /\ n <= 2 * rows
  /\ q.pending = q.received % 2 /\ q.lobs = <<>>
  /\ given + Len(q.rows) = q.received \div 2
  /\ q.rows = [i \in 1..Len(q.rows) |-> [row |-> given + i, object |-> given + i]]
  /\ q.received <= n
  /\ IF q.done THEN q.received = 2 * rows /\ (q.error <=> ~ok) ELSE ~q.error
  /\ q.at = "continue" => q.rows = <<>> /\ ~q.done
  /\ as = "starts" \/ m.what = "open" => given = 0 /\ q.rows = <<>> /\ q.received = 0
                                         /\ ~q.done /\ ~q.closedByServer
  /\ (as = "starts" \/ m.what = "open") /\ q.at # "open" => n = 0

(* What a reply may say to the statement that awaits it.                    *)
Told(rows, ok, q, n, r) ==
  /\ r \in ReplyType
  /\ q.at = "execute" /\ ~ok => r.kind = "failure"
  /\ q.at \in {"open", "continue"} =>
       /\ r.kind \in {"blocks", "failure", "undecodable"}
       /\ r.kind = "undecodable" => q.at \in Undecodable
       /\ r.kind = "blocks" =>
            /\ q.received <= r.upto /\ r.upto <= n
            /\ r.end \/ r.ended => r.upto = 2 * rows
            /\ r.error = ~ok

Linked(q, call) ==
  /\ q.at = "idle" <=> call.state = "idle"
  /\ call.state \in {"queued", "waiting"} => call.body = BodyOf(q.at)

RowsOf(s)    == results[s].sets[1].rows
ToldTo(s, r) == Told(RowsOf(s), results[s].ok, statement[s], sent[s], r)

Sound(s) ==
  /\ Talk(Columns(s), results[s].ok, statement[s], message[s], reader[s], place[s].given)
  /\ Data(RowsOf(s), results[s].ok, statement[s], message[s], reader[s], place[s].given, sent[s])
  /\ Linked(statement[s], calls[s])
  /\ calls[s].state = "resolved" => ToldTo(s, calls[s].reply)

Underway == waiting \in Statements => \A i \in DOMAIN wire : ToldTo(waiting, wire[i].reply)

(* A failure is for good, and what the server has to answer is the request  *)
(* of the caller that waits.                                                *)
Orderly ==
  /\ \A c \in Callers : calls[c].state = "rejected" => closed
  /\ socket # "up" => closed
  /\ request # None => /\ ~closed /\ waiting = request.by
                       /\ request.body = calls[waiting].body
  /\ calls[Closer].state \in {"queued", "waiting"} => calls[Closer].body = "rollback"

IsResult(r) ==
  /\ r.sets[1].columns \in BOOLEAN /\ r.sets[1].rows \in 0..MaxRows
  /\ ~r.sets[1].columns => r.sets[1].rows = 0
  /\ Len(r.sets) = 1 /\ r.ok \in BOOLEAN /\ r.reliable = FALSE

Fields ==
  /\ autoCommit \in BOOLEAN /\ \A s \in Statements : IsResult(results[s])
  /\ DOMAIN message = Statements /\ DOMAIN statement = Statements
  /\ DOMAIN reader = Statements /\ DOMAIN sent = Statements
  /\ place \in [Statements -> [set: {1}, given: Nat]]
  /\ sections \subseteq Sections
  /\ open \subseteq [section: Sections, of: Statements]

(* A section is held by the statement that was prepared in it, until it is  *)
(* over: by one statement, and by one that is still in progress.            *)
Keeping(cols, q, m, as) ==
  \/ q.at \in {"prepare", "execute", "commitRun", "open", "continue", "close"}
  \/ /\ cols /\ q.at = "idle"
     /\ \/ as = "opens" /\ m.what = "opened"
        \/ as = "reads"
        \/ as = "closes" /\ m.to = "cursor"

Keeps(s) == Keeping(Columns(s), statement[s], message[s], reader[s])

Allocated ==
  /\ \A s \in Statements : Keeps(s) => statement[s].section \in sections
  /\ \A s, t \in Statements : Keeps(s) /\ Keeps(t) /\ statement[s].section = statement[t].section => s = t
  /\ \A n \in sections : \E s \in Statements : Keeps(s) /\ statement[s].section = n

IInv == Inv /\ Fields /\ Orderly /\ Underway /\ Allocated /\ \A s \in Statements : Sound(s)
-------------------------------------------------------------------------------
(* The calls of a cursor.                                                   *)
LEMMA CallNames ==
  ASSUME NEW s \in Statements
  PROVE  /\ \A call : Calls(s)!Ask(call) = Asking(call)
         /\ \A what : Calls(s)!Answer(what) = Saying(what)
         /\ \A row : Calls(s)!AnswerRow(row) = Giving(row)
         /\ \A call : Calls(s)!Asked(call) <=> message[s] = Asking(call)
BY DEF Calls!Ask, Calls!Answer, Calls!AnswerRow, Calls!Asked, Asking, Saying, Giving

LEMMA CallsDiffer ==
  /\ \A call, what : Asking(call) # Saying(what) /\ \A row : Asking(call) # Giving(row)
  /\ \A a, b : Asking(a) = Asking(b) => a = b
  /\ \A a, b : Saying(a) = Saying(b) => a = b
  /\ \A row, what : Giving(row) = Saying(what) => what = "row"
  /\ \A a, b : Giving(a) = Giving(b) => a = b
  /\ \A call : Asking(call).to = "cursor" /\ Asking(call).what = call
  /\ \A what : Saying(what).to = "runner" /\ Saying(what).what = what
  /\ \A row : Giving(row).to = "runner" /\ Giving(row).what = "row"
BY DEF Asking, Saying, Giving

(* What the transport's steps do to the latest send() of each caller.       *)
LEMMA SendEffect ==
  ASSUME Inv, NEW c \in Callers, NEW body, Send(c, body)
  PROVE  /\ calls'[c].state = "queued" /\ calls'[c].body = body /\ waiting # c
         /\ \A d \in Callers : d # c => calls'[d] = calls[d]
         /\ UNCHANGED <<waiting, closed, socket, request, wire>>
BY DEF Inv, TransportTypeOK, CallType, Send

LEMMA TakenEffect ==
  ASSUME Inv, NEW c \in Callers, Taken(c)
  PROVE  /\ calls'[c].state = "idle" /\ waiting # c
         /\ \A d \in Callers : d # c => calls'[d] = calls[d]
         /\ UNCHANGED <<waiting, closed, socket, request, wire>>
<1>1. waiting # c BY DEF Inv, Placed, Taken, Settled
<1> QED BY <1>1 DEF Inv, TransportTypeOK, CallType, Taken, Forget, Unsent

LEMMA StartEffect ==
  ASSUME Inv, Start
  PROVE  \E c \in Callers :
           /\ calls[c].state = "queued" /\ waiting = None
           /\ calls'[c].body = calls[c].body /\ calls'[c].reply = calls[c].reply
           /\ \A d \in Callers : d # c => calls'[d] = calls[d]
           /\ IF closed THEN calls'[c].state = "rejected" /\ waiting' = None /\ request' = request
              ELSE /\ calls'[c].state = "waiting" /\ waiting' = c
                   /\ request' \in {request, Request(c, calls[c].number, calls[c].body)}
                   /\ wire = <<>> /\ request = None
           /\ UNCHANGED <<closed, socket, wire>>
<1> DEFINE c == Head(queue)
<1>1. c \in Callers /\ c = queue[1] /\ 1 \in DOMAIN queue BY DEF Inv, TransportTypeOK, Start
<1>2. calls[c].state = "queued" /\ waiting = None BY <1>1 DEF Inv, Placed, Start
<1>3. ~closed => wire = <<>> /\ request = None BY <1>2 DEF Inv, Silence
<1>4. calls \in [Callers -> CallType] BY DEF Inv, TransportTypeOK
<1>5. calls' = [calls EXCEPT ![c].state = IF closed THEN "rejected" ELSE "waiting"] BY DEF Start
<1>6. UNCHANGED <<closed, socket, wire>> /\ (closed => UNCHANGED <<waiting, request>>)
  BY DEF Start
<1>7. ~closed => /\ waiting' = c
                 /\ request' = IF socket = "up" THEN Request(c, calls[c].number, calls[c].body) ELSE request
  BY DEF Start
<1> HIDE DEF c
<1>8. /\ calls'[c].state = IF closed THEN "rejected" ELSE "waiting"
      /\ calls'[c].body = calls[c].body /\ calls'[c].reply = calls[c].reply
      /\ \A d \in Callers : d # c => calls'[d] = calls[d]
  BY <1>1, <1>4, <1>5 DEF CallType
<1> QED BY <1>1, <1>2, <1>3, <1>6, <1>7, <1>8

(* A piece arrives: it is kept, or gives the caller that waits its reply.   *)
LEMMA ReceivedEffect ==
  ASSUME Inv, Received
  PROVE  /\ UNCHANGED <<closed, socket, request>>
         /\ wire # <<>> /\ wire' = Tail(wire)
         /\ \/ UNCHANGED <<calls, waiting>>
            \/ /\ waiting \in Callers /\ waiting' = None /\ calls[waiting].state = "waiting"
               /\ calls'[waiting].state = "resolved" /\ calls'[waiting].reply = wire[1].reply
               /\ \A d \in Callers : d # waiting => calls'[d] = calls[d]
<1>1. wire # <<>> => Head(wire) = wire[1] BY DEF Inv, TransportTypeOK
<1>2. waiting # None => waiting \in Callers /\ calls[waiting].state = "waiting"
  BY DEF Inv, TransportTypeOK, Placed
<1>3. calls \in [Callers -> CallType] BY DEF Inv, TransportTypeOK
<1> DEFINE pieces == Append(buffer, Head(wire))
<1>4. CASE waiting # None /\ Complete(pieces)
  <2>1. PICK own : /\ calls' = [calls EXCEPT ![waiting] = [@ EXCEPT !.state = "resolved",
                                                                    !.reply = Head(wire).reply, !.own = own]]
                   /\ waiting' = None
    BY <1>4 DEF Received
  <2> QED BY <1>1, <1>2, <1>3, <1>4, <2>1 DEF CallType, Received
<1>5. CASE ~(waiting # None /\ Complete(pieces)) BY <1>5 DEF Received
<1> QED BY <1>4, <1>5

LEMMA FailEffect ==
  ASSUME Inv, Fail
  PROVE  /\ closed' /\ waiting' = None
         /\ \A d \in Callers : d # waiting => calls'[d] = calls[d]
         /\ waiting # None => /\ waiting \in Callers /\ calls[waiting].state = "waiting"
                              /\ calls'[waiting].state = "rejected"
BY DEF Inv, TransportTypeOK, CallType, Placed, Fail

(* The connection is closed and its caller goes on.                         *)
LEMMA CloseForgetInv == ASSUME Inv, NEW c \in Callers, Settled(c), Close, Forget(c) PROVE Inv'
<1> USE DEF Inv, Close, Forget, Settled, Unsent
<1>1. TransportTypeOK'
  <2>1. calls' \in [Callers -> CallType] BY DEF TransportTypeOK, CallType
  <2>2. <<>> \in Seq(PieceType) OBVIOUS
  <2> QED BY <2>1, <2>2 DEF TransportTypeOK
<1>2. Placed' BY DEF Placed, TransportTypeOK, CallType
<1>3. waiting # c BY DEF Placed
<1>4. Exchange' /\ Silence' BY <1>3 DEF Exchange, Silence, Belongs, TransportTypeOK, CallType
<1>5. OwnReply' BY DEF OwnReply, TransportTypeOK, CallType
<1> QED BY <1>1, <1>2, <1>4, <1>5

(* What each statement's step leaves alone, and what is left to show of it. *)
StepOf(s) ==
  /\ Inv' /\ Fields'
  /\ UNCHANGED <<autoCommit, results, waiting, wire, closed, socket, request, open, sent>>
  /\ waiting # s
  /\ \A t \in Statements : t # s =>
       UNCHANGED <<statement[t], message[t], reader[t], place[t], calls[t]>>
  /\ calls'[Closer] = calls[Closer]
  /\ calls'[s].state \in {"idle", "queued"}

Proper(s) ==
  /\ Talk(Columns(s), results[s].ok, statement'[s], message'[s], reader'[s], place'[s].given)
  /\ Data(RowsOf(s), results[s].ok, statement'[s], message'[s], reader'[s], place'[s].given, sent[s])
  /\ Linked(statement'[s], calls'[s])

LEMMA StepIsSound ==
  ASSUME IInv, NEW s \in Statements, StepOf(s), Proper(s)
  PROVE  Orderly' /\ Underway' /\ \A t \in Statements : Sound(t)'
<1>1. s \in Callers /\ Closer \in Callers /\ s # Closer OBVIOUS
<1>2. Orderly'
  <2>1. \A c \in Callers : c # s => calls'[c] = calls[c] BY DEF StepOf
  <2>2. \A c \in Callers : calls'[c].state = "rejected" => closed' BY <2>1 DEF StepOf, IInv, Orderly
  <2>3. request # None => waiting \in Callers BY DEF IInv, Inv, TransportTypeOK, Orderly
  <2> QED BY <1>1, <2>1, <2>2, <2>3 DEF StepOf, IInv, Orderly
<1>3. \A t \in Statements : results'[t] = results[t] /\ sent'[t] = sent[t] BY DEF StepOf
<1>4. Underway'
  <2> SUFFICES ASSUME waiting \in Statements PROVE Underway' BY DEF StepOf, Underway
  <2>1. waiting # s /\ statement'[waiting] = statement[waiting] BY DEF StepOf
  <2>2. UNCHANGED <<waiting, wire>> BY DEF StepOf
  <2> QED BY <1>3, <2>1, <2>2 DEF IInv, Underway, ToldTo, RowsOf
<1>5. Sound(s)'
  <2>1. calls'[s].state # "resolved" BY DEF StepOf
  <2> QED BY <1>3, <2>1 DEF Proper, Sound, Columns, RowsOf
<1>6. ASSUME NEW t \in Statements, t # s PROVE Sound(t)'
  <2>1. Sound(t) BY DEF IInv
  <2>2. UNCHANGED <<statement[t], message[t], reader[t], place[t], calls[t]>> BY <1>6 DEF StepOf
  <2> QED BY <1>3, <2>1, <2>2 DEF Sound, ToldTo, Columns, RowsOf
<1> QED BY <1>2, <1>4, <1>5, <1>6

(* What it does with its section.                                           *)
Sits(s) ==
  /\ Keeps(s)' <=> Keeps(s)
  /\ Keeps(s) => statement'[s].section = statement[s].section
  /\ UNCHANGED sections

Takes(s) ==
  /\ ~Keeps(s) /\ Keeps(s)'
  /\ statement'[s].section \notin sections
  /\ sections' = sections \union {statement'[s].section}

Leaves(s) ==
  /\ Keeps(s) /\ ~Keeps(s)'
  /\ sections' = sections \ {statement[s].section}

LEMMA OthersKeep ==
  ASSUME NEW s \in Statements, StepOf(s), NEW t \in Statements, t # s
  PROVE  (Keeps(t)' <=> Keeps(t)) /\ statement'[t] = statement[t]
BY DEF StepOf, Keeps, Columns

LEMMA StepIsAllocated ==
  ASSUME IInv, NEW s \in Statements, StepOf(s), Sits(s) \/ Takes(s) \/ Leaves(s)
  PROVE  Allocated'
<1>1. Allocated BY DEF IInv
<1>2. \A t \in Statements : t # s => (Keeps(t)' <=> Keeps(t)) /\ statement'[t] = statement[t]
  BY OthersKeep
<1> HIDE DEF Keeps
<1>3. CASE Sits(s) BY <1>1, <1>2, <1>3 DEF Allocated, Sits
<1>4. CASE Takes(s) BY <1>1, <1>2, <1>4 DEF Allocated, Takes
<1>5. CASE Leaves(s) BY <1>1, <1>2, <1>5 DEF Allocated, Leaves
<1> QED BY <1>3, <1>4, <1>5

LEMMA StepIsGood ==
  ASSUME IInv, NEW s \in Statements, StepOf(s), Proper(s), Sits(s) \/ Takes(s) \/ Leaves(s)
  PROVE  IInv'
BY StepIsSound, StepIsAllocated DEF IInv, StepOf

-------------------------------------------------------------------------------
(* A statement has sent, gone on, or done neither while it was idle.        *)
Calling(s, state) ==
  /\ Inv' /\ waiting # s /\ calls'[s].state = state
  /\ UNCHANGED <<waiting, wire, closed, socket, request>>
  /\ \A d \in Callers : d # s => calls'[d] = calls[d]

LEMMA HasSent ==
  ASSUME Inv, NEW s \in Statements, NEW body \in Requests, Send(s, body)
  PROVE  Calling(s, "queued") /\ calls'[s].body = body
<1>1. s \in Callers /\ body \in Bodies OBVIOUS
<1> QED BY <1>1, SendInv, SendEffect DEF Calling

LEMMA HasTaken ==
  ASSUME Inv, NEW s \in Statements, Taken(s)
  PROVE  Calling(s, "idle")
<1>1. s \in Callers OBVIOUS
<1> QED BY <1>1, TakenInv, TakenEffect DEF Calling

LEMMA HasStood ==
  ASSUME Inv, NEW s \in Statements, calls[s].state = "idle", UNCHANGED transportVars
  PROVE  Calling(s, "idle")
<1>1. s \in Callers OBVIOUS
<1>2. Inv' BY NextInv
<1>3. waiting # s BY <1>1 DEF Inv, Placed
<1> QED BY <1>2, <1>3 DEF Calling, transportVars

LEMMA StepForm ==
  ASSUME IInv, NEW s \in Statements, NEW state \in {"idle", "queued"}, Calling(s, state),
         UNCHANGED <<autoCommit, results, open, sent, reader>>, sections' \subseteq Sections,
         NEW m, UNCHANGED message \/ message' = [message EXCEPT ![s] = m],
         NEW q, UNCHANGED statement \/ statement' = [statement EXCEPT ![s] = q],
         UNCHANGED place \/ place' = [place EXCEPT ![s].given = @ + 1]
  PROVE  /\ StepOf(s)
         /\ UNCHANGED message \/ message'[s] = m
         /\ UNCHANGED statement \/ statement'[s] = q
         /\ place'[s].given = IF UNCHANGED place THEN place[s].given ELSE place[s].given + 1
<1> USE DEF IInv
<1>1. s \in Callers /\ Closer \in Callers /\ s # Closer /\ Statements \subseteq Callers OBVIOUS
<1>2. /\ UNCHANGED message \/ message'[s] = m
      /\ DOMAIN message' = Statements
      /\ \A t \in Statements : t # s => message'[t] = message[t]
  BY DEF Fields
<1>3. /\ UNCHANGED statement \/ statement'[s] = q
      /\ DOMAIN statement' = Statements
      /\ \A t \in Statements : t # s => statement'[t] = statement[t]
  BY DEF Fields
<1>4. /\ place' \in [Statements -> [set: {1}, given: Nat]]
      /\ \A t \in Statements : t # s => place'[t] = place[t]
  <2>1. place \in [Statements -> [set: {1}, given: Nat]] BY DEF Fields
  <2>2. [place[s] EXCEPT !.given = @ + 1] \in [set: {1}, given: Nat] BY <2>1
  <2>3. CASE place' = [place EXCEPT ![s].given = @ + 1] BY <2>1, <2>2, <2>3
  <2> QED BY <2>1, <2>3
<1>5. place'[s].given = IF UNCHANGED place THEN place[s].given ELSE place[s].given + 1
  BY DEF Fields
<1>6. Fields' BY <1>2, <1>3, <1>4 DEF Fields
<1>7. StepOf(s) BY <1>1, <1>2, <1>3, <1>4, <1>6 DEF StepOf, Calling
<1> QED BY <1>2, <1>3, <1>5, <1>7

(* A statement moves to another await, or to none.                          *)
LEMMA QueryAt ==
  ASSUME NEW q \in QueryType, NEW label \in Places
  PROVE  /\ [q EXCEPT !.at = label] \in QueryType
         /\ [q EXCEPT !.at = label].at = label
         /\ [q EXCEPT !.at = label].section = q.section
         /\ [q EXCEPT !.at = label].rows = q.rows /\ [q EXCEPT !.at = label].lobs = q.lobs
         /\ [q EXCEPT !.at = label].received = q.received /\ [q EXCEPT !.at = label].pending = q.pending
         /\ [q EXCEPT !.at = label].done = q.done /\ [q EXCEPT !.at = label].error = q.error
         /\ [q EXCEPT !.at = label].closedByServer = q.closedByServer
BY DEF QueryType

LEMMA QueryIdle ==
  ASSUME NEW q \in QueryType
  PROVE  LET p == [q EXCEPT !.at = "idle"]
         IN  /\ p \in QueryType /\ p.at = "idle" /\ p.section = q.section
             /\ p.rows = q.rows /\ p.lobs = q.lobs /\ p.received = q.received /\ p.pending = q.pending
             /\ p.done = q.done /\ p.error = q.error /\ p.closedByServer = q.closedByServer
<1>1. "idle" \in Places BY DEF Places
<1> QED BY <1>1, QueryAt

(* What holds of a statement before its step.                               *)
LEMMA Standing ==
  ASSUME IInv, NEW s \in Statements
  PROVE  /\ Talk(Columns(s), results[s].ok, statement[s], message[s], reader[s], place[s].given)
         /\ Data(RowsOf(s), results[s].ok, statement[s], message[s], reader[s], place[s].given, sent[s])
         /\ Linked(statement[s], calls[s])
         /\ calls[s].state = "resolved" => ToldTo(s, calls[s].reply)
         /\ IsResult(results[s]) /\ Columns(s) \in BOOLEAN /\ RowsOf(s) \in 0..MaxRows
         /\ Halves(s) = 2 * RowsOf(s)
         /\ ~Columns(s) => RowsOf(s) = 0
         /\ autoCommit \in BOOLEAN /\ sections \subseteq Sections
BY DEF IInv, Sound, Fields, IsResult, Columns, RowsOf, Halves

-------------------------------------------------------------------------------
(* DrdaQuery.receive, when the rows before have been read: the rows that    *)
(* the reply completes, each with its own large object.                     *)
RowsFrom(a, b) == [i \in 1..(b - a) |-> [row |-> a + i, object |-> a + i]]

LEMMA HalvesOfRows ==
  ASSUME NEW n \in Nat
  PROVE  /\ n \div 2 \in Nat /\ n % 2 \in {0, 1} /\ n = 2 * (n \div 2) + (n % 2)
         /\ ((n - (n % 2)) + 1) \div 2 = n \div 2 /\ 2 * (n \div 2) <= n
         /\ \A m \in Nat : n <= m => n \div 2 <= m \div 2
<1>1. n \div 2 \in Nat BY ONLY n \in Nat
<1>2. n % 2 \in {0, 1} BY ONLY n \in Nat
<1>3. n = 2 * (n \div 2) + (n % 2) BY ONLY n \in Nat
<1>4. ((n - (n % 2)) + 1) \div 2 = n \div 2 BY ONLY n \in Nat
<1>5. 2 * (n \div 2) <= n BY ONLY n \in Nat
<1>6. ASSUME NEW m \in Nat, n <= m PROVE n \div 2 <= m \div 2 BY ONLY <1>6, n \in Nat, m \in Nat
<1> QED BY <1>1, <1>2, <1>3, <1>4, <1>5, <1>6

LEMMA IsSequence ==
  ASSUME NEW S, NEW n \in Nat, NEW f, f = [i \in 1..n |-> f[i]], \A i \in 1..n : f[i] \in S
  PROVE  f \in Seq(S) /\ Len(f) = n
<1>1. [i \in 1..n |-> f[i]] \in Seq(S) OBVIOUS
<1>2. Len([i \in 1..n |-> f[i]]) = n OBVIOUS
<1> QED BY <1>1, <1>2, Zenon

LEMMA NumbersFrom ==
  ASSUME NEW a \in Nat, NEW b \in Nat, a <= b
  PROVE  /\ Numbers(a + 1, b) = [i \in 1..(b - a) |-> a + i]
         /\ Numbers(a + 1, b) \in Seq(Nat) /\ Len(Numbers(a + 1, b)) = b - a
         /\ DOMAIN Numbers(a + 1, b) = 1..(b - a)
<1>1. (IF b < a + 1 THEN 0 ELSE b - (a + 1) + 1) = b - a OBVIOUS
<1>2. \A i \in 1..(b - a) : a + 1 + i - 1 = a + i OBVIOUS
<1>3. Numbers(a + 1, b) = [i \in 1..(b - a) |-> a + i] BY <1>1, <1>2 DEF Numbers
<1>4. b - a \in Nat OBVIOUS
<1> QED BY <1>3, <1>4

(* The rows of a block before they have their large objects.                *)
Bare(rows, a, b) ==
  /\ DOMAIN rows = 1..(b - a)
  /\ \A i \in 1..(b - a) : rows[i] = [row |-> a + i, object |-> 0]

WithRows(q, rows) == [q EXCEPT !.rows = rows, !.lobs = <<>>]

LEMMA Attached ==
  ASSUME NEW q, NEW a \in Nat, NEW b \in Nat, a <= b,
         NEW N, N = Numbers(a + 1, b), q.lobs = N,
         Bare(q.rows, a, b)
  PROVE  AttachLobs(q, N) = WithRows(q, RowsFrom(a, b))
<1>1. N \in Seq(Nat) /\ Len(N) = b - a /\ DOMAIN N = 1..(b - a) /\ N = [i \in 1..(b - a) |-> a + i]
  BY NumbersFrom
<1>2. b - a \in Nat OBVIOUS
<1> DEFINE n == IF Len(N) < Len(q.lobs) THEN Len(N) ELSE Len(q.lobs)
           Of(r) == {k \in 1..n : q.lobs[k] = r.row}
           Filled(r) == IF Of(r) = {} THEN r ELSE [r EXCEPT !.object = N[CHOOSE k \in Of(r) : TRUE]]
<1>3. n = b - a BY <1>1, <1>2
<1>4. \A i \in 1..(b - a) : q.rows[i] = [row |-> a + i, object |-> 0] BY DEF Bare
<1>5. ASSUME NEW i \in 1..(b - a) PROVE Of(q.rows[i]) = {i}
  <2>3. q.rows[i] = [row |-> a + i, object |-> 0] BY <1>4
  <2>1. q.rows[i].row = a + i BY <2>3
  <2>2. \A k \in 1..n : q.lobs[k] = a + k BY <1>1, <1>3
  <2> HIDE DEF n
  <2> QED BY <1>3, <2>1, <2>2
<1>6. ASSUME NEW i \in 1..(b - a) PROVE Filled(q.rows[i]) = [row |-> a + i, object |-> a + i]
  <2>1. Of(q.rows[i]) = {i} BY <1>5
  <2> HIDE DEF Of, n
  <2>2. (CHOOSE k \in Of(q.rows[i]) : TRUE) = i BY <2>1, Zenon
  <2>3. N[i] = a + i BY <1>1
  <2>4. Filled(q.rows[i]) = [q.rows[i] EXCEPT !.object = N[i]] BY <2>1, <2>2
  <2>5. q.rows[i] = [row |-> a + i, object |-> 0] BY <1>4
  <2>6. [q.rows[i] EXCEPT !.object = N[i]] = [row |-> a + i, object |-> a + i]
    BY ONLY <2>3, <2>5
  <2> QED BY <2>4, <2>6
<1>7. DOMAIN q.rows = 1..(b - a) BY DEF Bare
<1>8. [i \in DOMAIN q.rows |-> Filled(q.rows[i])] = RowsFrom(a, b) BY <1>6, <1>7 DEF RowsFrom
<1>9. SubSeq(q.lobs, n + 1, Len(q.lobs)) = <<>> BY <1>1, <1>2, <1>3
<1>10. AttachLobs(q, N) = [q EXCEPT !.rows = [i \in DOMAIN @ |-> Filled(@[i])],
                                    !.lobs = SubSeq(@, n + 1, Len(@))]
  BY DEF AttachLobs
<1> HIDE DEF n, Of, Filled
<1> QED BY <1>8, <1>9, <1>10 DEF WithRows

LEMMA ReceiveFacts ==
  ASSUME NEW q \in QueryType, q.rows = <<>>, q.lobs = <<>>, q.pending = q.received % 2,
         NEW r \in ReplyType, q.received <= r.upto, NEW got, got = Receive(q, r)
  PROVE  /\ got \in QueryType /\ got.at = q.at /\ got.section = q.section
         /\ got.rows = RowsFrom(q.received \div 2, r.upto \div 2) /\ got.lobs = <<>>
         /\ got.received = r.upto /\ got.pending = r.upto % 2
         /\ got.done = (q.done \/ r.end \/ r.ended)
         /\ got.closedByServer = (q.closedByServer \/ r.ended)
         /\ got.error = (q.error \/ ((r.end \/ r.ended) /\ r.error))
<1>1. q.received \in Nat /\ r.upto \in Nat BY DEF QueryType, ReplyType
<1> DEFINE a == q.received \div 2
           b == r.upto \div 2
           N == Numbers(a + 1, b)
           d == [q EXCEPT !.rows = [i \in DOMAIN N |-> [row |-> N[i], object |-> 0]],
                          !.lobs = N, !.received = r.upto, !.pending = r.upto % 2]
           c == [q EXCEPT !.rows = RowsFrom(a, b), !.lobs = <<>>, !.received = r.upto, !.pending = r.upto % 2]
<1>2. a \in Nat /\ b \in Nat /\ a <= b /\ r.upto % 2 \in {0, 1} BY <1>1, HalvesOfRows
<1>3. ((q.received - q.pending) + 1) \div 2 = a BY <1>1, HalvesOfRows
<1>4. N \in Seq(Nat) /\ Len(N) = b - a /\ DOMAIN N = 1..(b - a) BY <1>2, NumbersFrom
<1>5. Decode(q, r.upto) = Decoded(q, N, r.upto, r.upto % 2) BY <1>3 DEF Decode
<1>6. q.rows \o [i \in DOMAIN N |-> [row |-> N[i], object |-> 0]] = [i \in DOMAIN N |-> [row |-> N[i], object |-> 0]]
  <2> DEFINE R == [i \in DOMAIN N |-> [row |-> N[i], object |-> 0]]
  <2>1. R \in Seq([row: Nat, object: Nat])
    <3>1. DOMAIN R = 1..(b - a) /\ b - a \in Nat BY <1>2, <1>4
    <3>2. \A i \in 1..(b - a) : R[i] \in [row: Nat, object: Nat] BY <1>4
    <3>3. R = [i \in 1..(b - a) |-> R[i]] BY <3>1
    <3> HIDE DEF R
    <3> QED BY <3>1, <3>2, <3>3, IsSequence
  <2> HIDE DEF R, N
  <2> QED BY <2>1
<1>7. q.lobs \o N = N BY <1>4
<1>8. Decode(q, r.upto) = d BY <1>5, <1>6, <1>7 DEF Decoded
<1> HIDE DEF N, a, b
<1>9. d.lobs = N /\ d.rows = [i \in DOMAIN N |-> [row |-> N[i], object |-> 0]] BY DEF QueryType
<1>20. Bare(d.rows, a, b)
  <2>1. \A i \in 1..(b - a) : N[i] = a + i BY <1>2, NumbersFrom, ZenonT(60) DEF N
  <2> QED BY <1>4, <1>9, <2>1 DEF Bare
<1>10. [d EXCEPT !.rows = RowsFrom(a, b), !.lobs = <<>>] = c BY DEF QueryType
<1> HIDE DEF d, c
<1>11. N = Numbers(a + 1, b) BY DEF N
<1>12. AttachLobs(d, N) = c
  <2>1. d.lobs = N BY <1>9
  <2>2. AttachLobs(d, N) = WithRows(d, RowsFrom(a, b)) BY <1>2, <1>11, <1>20, <2>1, Attached
  <2> QED BY <1>10, <2>2 DEF WithRows
<1>13. Contents(q, r.upto) = c BY <1>8, <1>11, <1>12 DEF Contents, a, b
<1>14. RowsFrom(a, b) \in Seq([row: Nat, object: Nat])
  <2> DEFINE R == RowsFrom(a, b)
  <2>1. b - a \in Nat BY <1>2
  <2>2. \A i \in 1..(b - a) : R[i] \in [row: Nat, object: Nat] BY <1>2 DEF RowsFrom
  <2>3. R = [i \in 1..(b - a) |-> R[i]] BY DEF RowsFrom
  <2> QED BY <2>1, <2>2, <2>3, IsSequence
<1>15. /\ r.end \in BOOLEAN /\ r.ended \in BOOLEAN /\ r.error \in BOOLEAN
       /\ q.done \in BOOLEAN /\ q.closedByServer \in BOOLEAN /\ q.error \in BOOLEAN
  BY DEF ReplyType, QueryType
<1>16. got = [c EXCEPT !.done = @ \/ r.end \/ r.ended, !.closedByServer = @ \/ r.ended,
                       !.error = @ \/ ((r.end \/ r.ended) /\ r.error)]
  BY <1>13 DEF Receive
<1>17. /\ c \in QueryType /\ c.at = q.at /\ c.section = q.section
       /\ c.rows = RowsFrom(a, b) /\ c.lobs = <<>> /\ c.received = r.upto /\ c.pending = r.upto % 2
       /\ c.done = q.done /\ c.closedByServer = q.closedByServer /\ c.error = q.error
  <2>1. <<>> \in Seq(Nat) OBVIOUS
  <2> QED BY <1>1, <1>2, <1>14, <2>1 DEF c, QueryType
<1>18. /\ got.at = c.at /\ got.section = c.section /\ got.rows = c.rows /\ got.lobs = c.lobs
       /\ got.received = c.received /\ got.pending = c.pending
       /\ got.done = (c.done \/ r.end \/ r.ended)
       /\ got.closedByServer = (c.closedByServer \/ r.ended)
       /\ got.error = (c.error \/ ((r.end \/ r.ended) /\ r.error))
  BY <1>16, <1>17 DEF QueryType
<1>19. got \in QueryType BY <1>15, <1>16, <1>17, ZenonT(40) DEF QueryType
<1> QED BY <1>17, <1>18, <1>19 DEF a, b

-------------------------------------------------------------------------------
(* The steps of a statement, one after the other.                           *)
LEMMA ExecuteIsGood ==
  ASSUME IInv, NEW s \in Statements, Execute(s), UNCHANGED reader
  PROVE  StepOf(s) /\ Proper(s) /\ (Sits(s) \/ Takes(s))
<1> DEFINE q == statement[s]
           m == message[s]
<1>1. /\ m = Asking("open") /\ q.at = "idle"
      /\ UNCHANGED <<autoCommit, results, place, isClosed, open, sent>>
  BY CallNames DEF Execute, At
<1>2. /\ Talk(Columns(s), results[s].ok, q, m, reader[s], place[s].given)
      /\ Data(RowsOf(s), results[s].ok, q, m, reader[s], place[s].given, sent[s])
      /\ Linked(q, calls[s]) /\ sections \subseteq Sections
  BY Standing
<1>3. Inv BY DEF IInv
<1>4. q \in QueryType /\ reader[s] = "opens" BY <1>1, <1>2, CallsDiffer DEF Talk, Said
<1>5. m.what = "open" /\ m.to = "cursor" BY <1>1, CallsDiffer
<1>6. ~Keeps(s) BY <1>1, <1>4, <1>5 DEF Keeps, Keeping
<1>7. CASE isClosed \/ sections = Sections
  <2>1. message' = [message EXCEPT ![s] = Saying("error")] /\ UNCHANGED <<transportVars, sections, statement>>
    BY <1>7, CallNames DEF Execute, Answers
  <2>2. calls[s].state = "idle" BY <1>1, <1>2 DEF Linked
  <2>3. Calling(s, "idle") BY <1>3, <2>1, <2>2, HasStood
  <2>4. StepOf(s) /\ (UNCHANGED message \/ message'[s] = Saying("error")) /\ place'[s].given = place[s].given
    BY <1>1, <1>2, <2>1, <2>3, StepForm
  <2>5. message'[s] = Saying("error") BY <2>1 DEF IInv, Fields
  <2>6. calls'[s].state = "idle" /\ statement'[s] = q /\ reader'[s] = "opens" BY <1>4, <2>1, <2>3 DEF Calling
  <2>7. Talk(Columns(s), results[s].ok, q, Saying("error"), "opens", place[s].given)
    BY <1>1, <1>2, <1>4, CallsDiffer DEF Talk, Said
  <2>8. Data(RowsOf(s), results[s].ok, q, Saying("error"), "opens", place[s].given, sent[s])
    BY <1>1, <1>2, CallsDiffer DEF Data
  <2>9. Proper(s) BY <1>1, <2>4, <2>5, <2>6, <2>7, <2>8 DEF Proper, Linked
  <2>10. ~Keeps(s)' BY <1>1, <2>5, <2>6, CallsDiffer DEF Keeps, Keeping
  <2> QED BY <1>6, <2>1, <2>4, <2>9, <2>10 DEF Sits
<1>8. CASE ~(isClosed \/ sections = Sections)
  <2>1. PICK n \in Sections \ sections :
          /\ sections' = sections \union {n}
          /\ statement' = [statement EXCEPT ![s].section = n, ![s].at = "prepare"]
          /\ Send(s, "prepare") /\ UNCHANGED message
    BY <1>8 DEF Execute
  <2> DEFINE p == [q EXCEPT !.section = n, !.at = "prepare"]
  <2>2. Calling(s, "queued") /\ calls'[s].body = "prepare" BY <1>3, <2>1, HasSent DEF Requests
  <2>3. statement' = [statement EXCEPT ![s] = p] BY <2>1
  <2>4. /\ p \in QueryType /\ p.at = "prepare" /\ p.section = n /\ p.rows = q.rows /\ p.lobs = q.lobs
        /\ p.received = q.received /\ p.pending = q.pending /\ p.done = q.done /\ p.error = q.error
        /\ p.closedByServer = q.closedByServer
    BY <1>4, <2>1 DEF QueryType, Places
  <2> HIDE DEF p
  <2>5. StepOf(s) /\ (UNCHANGED statement \/ statement'[s] = p) /\ place'[s].given = place[s].given
    BY <1>1, <1>2, <2>1, <2>2, <2>3, StepForm
  <2>6. statement'[s] = p BY <2>3 DEF IInv, Fields
  <2>7. message'[s] = m /\ reader'[s] = reader[s] BY <2>1
  <2>8. Talk(Columns(s), results[s].ok, p, m, reader[s], place[s].given)
    BY <1>1, <1>2, <1>5, <2>4 DEF Talk, CallOf
  <2>9. Data(RowsOf(s), results[s].ok, p, m, reader[s], place[s].given, sent[s])
    BY <1>1, <1>2, <2>4 DEF Data
  <2>10. Linked(p, calls'[s]) BY <2>2, <2>4 DEF Linked, Calling, BodyOf
  <2>11. Proper(s) BY <2>5, <2>6, <2>7, <2>8, <2>9, <2>10 DEF Proper
  <2>12. Keeps(s)' BY <2>4, <2>6 DEF Keeps, Keeping
  <2> QED BY <1>6, <2>1, <2>4, <2>5, <2>6, <2>11, <2>12 DEF Takes
<1> QED BY <1>7, <1>8

(* A statement goes on from its await, or from its reader's call.           *)
LEMMA Went ==
  ASSUME IInv, NEW s \in Statements, NEW state \in {"idle", "queued"}, Calling(s, state),
         UNCHANGED <<autoCommit, results, place, open, sent, reader>>, sections' \subseteq Sections,
         NEW m, message' = [message EXCEPT ![s] = m] \/ (UNCHANGED message /\ m = message[s]),
         NEW q, statement' = [statement EXCEPT ![s] = q] \/ (UNCHANGED statement /\ q = statement[s]),
         Talk(Columns(s), results[s].ok, q, m, reader[s], place[s].given),
         Data(RowsOf(s), results[s].ok, q, m, reader[s], place[s].given, sent[s]),
         Linked(q, calls'[s])
  PROVE  /\ StepOf(s) /\ Proper(s)
         /\ statement'[s] = q
         /\ Keeps(s)' <=> Keeping(Columns(s), q, m, reader[s])
<1>1. StepOf(s) /\ place'[s].given = place[s].given BY StepForm
<1>2. message'[s] = m /\ statement'[s] = q /\ reader'[s] = reader[s] BY DEF IInv, Fields
<1>3. Proper(s) BY <1>1, <1>2 DEF Proper
<1>4. Columns(s)' = Columns(s) BY DEF Columns
<1>5. Keeps(s)' <=> Keeping(Columns(s), q, m, reader[s]) BY <1>2, <1>4 DEF Keeps
<1> QED BY <1>1, <1>2, <1>3, <1>5

(* A statement that awaits a reply was asked for what the reply is for.     *)
LEMMA Awaiting ==
  ASSUME IInv, NEW s \in Statements, NEW label \in Places \ {"idle"}, Got(s, label)
  PROVE  /\ statement[s].at = label /\ statement[s] \in QueryType
         /\ message[s] = Asking(CallOf(label)) /\ message[s].what = CallOf(label)
         /\ message[s].to = "cursor" /\ message[s] # Saying("none")
         /\ reader[s] = CASE CallOf(label) = "open" -> "opens" [] CallOf(label) = "next" -> "reads"
                          [] CallOf(label) = "close" -> "closes"
         /\ calls[s].state \in {"resolved", "rejected"}
         /\ ~Failed(s) => calls[s].state = "resolved" /\ calls[s].reply.kind # "failure"
                          /\ ToldTo(s, calls[s].reply)
<1>1. statement[s].at = label /\ calls[s].state \in {"resolved", "rejected"} BY DEF Got, At, Settled
<1>2. Talk(Columns(s), results[s].ok, statement[s], message[s], reader[s], place[s].given)
  BY Standing
<1>3. message[s] = Asking(CallOf(label)) /\ statement[s] \in QueryType BY <1>1, <1>2 DEF Talk
<1>4. /\ reader[s] \in {"starts", "opens", "reads", "closes"}
      /\ message[s] \in Said(reader[s], place[s].given)
  BY <1>2 DEF Talk
<1>5. CallOf(label) \in {"open", "next", "close"} BY DEF CallOf, Places
<1>6. reader[s] = CASE CallOf(label) = "open" -> "opens" [] CallOf(label) = "next" -> "reads"
                    [] CallOf(label) = "close" -> "closes"
  BY <1>3, <1>4, <1>5, CallsDiffer DEF Said
<1>7. message[s].what = CallOf(label) /\ message[s].to = "cursor" /\ message[s] # Saying("none")
  BY <1>3, CallsDiffer
<1>8. ~Failed(s) => calls[s].state = "resolved" /\ calls[s].reply.kind # "failure"
                    /\ ToldTo(s, calls[s].reply)
  BY <1>1, Standing DEF Failed
<1> QED BY <1>1, <1>3, <1>6, <1>7, <1>8

(* run() has ended: the section is released.                                *)
LEMMA RunEnds ==
  ASSUME IInv, NEW s \in Statements, NEW label \in {"prepare", "execute", "commitRun", "open"},
         Got(s, label), NEW what \in {"error", "opened"},
         what = "opened" => label \in {"execute", "commitRun"} /\ results[s].ok,
         Release(s), Goes(s, "idle"), Answers(s, what), Taken(s),
         UNCHANGED <<autoCommit, results, place, open, sent, reader>>
  PROVE  StepOf(s) /\ Proper(s) /\ Leaves(s)
<1> DEFINE q == statement[s]
           p == [q EXCEPT !.at = "idle"]
<1>1. /\ q.at = label /\ q \in QueryType /\ message[s].what = "open"
      /\ reader[s] = "opens" /\ calls[s].state # "idle"
  BY Awaiting DEF CallOf, Places
<1>2. /\ Talk(Columns(s), results[s].ok, q, message[s], reader[s], place[s].given)
      /\ Data(RowsOf(s), results[s].ok, q, message[s], reader[s], place[s].given, sent[s])
      /\ sections \subseteq Sections
  BY Standing
<1>3. Calling(s, "idle") BY HasTaken DEF IInv
<1>4. message' = [message EXCEPT ![s] = Saying(what)] BY CallNames DEF Answers
<1>5. statement' = [statement EXCEPT ![s] = p] /\ sections' = sections \ {q.section}
  BY DEF Goes, Release
<1>6. /\ p \in QueryType /\ p.at = "idle" /\ p.rows = q.rows /\ p.lobs = q.lobs
      /\ p.received = q.received /\ p.pending = q.pending /\ p.done = q.done /\ p.error = q.error
  BY <1>1, QueryIdle
<1> HIDE DEF p
<1>7. Talk(Columns(s), results[s].ok, p, Saying(what), reader[s], place[s].given)
  BY <1>1, <1>2, <1>6, CallsDiffer DEF Talk, Said
<1>8. Data(RowsOf(s), results[s].ok, p, Saying(what), reader[s], place[s].given, sent[s])
  BY <1>1, <1>2, <1>6, CallsDiffer DEF Data
<1>9. Linked(p, calls'[s]) BY <1>3, <1>6 DEF Linked, Calling
<1>10. /\ StepOf(s) /\ Proper(s)
       /\ Keeps(s)' <=> Keeping(Columns(s), p, Saying(what), reader[s])
  BY <1>2, <1>3, <1>4, <1>5, <1>7, <1>8, <1>9, Went
<1>11. ~Keeps(s)' BY <1>1, <1>2, <1>6, <1>10, CallsDiffer DEF Keeping, Talk
<1>12. Keeps(s) BY <1>1, <1>2 DEF Keeps, Keeping, Talk
<1> QED BY <1>5, <1>10, <1>11, <1>12 DEF Leaves

(* A statement sends its next request, and keeps or releases its section.   *)
LEMMA SendsOn ==
  ASSUME IInv, NEW s \in Statements, NEW body \in Requests, NEW label \in Places \ {"idle"},
         body = BodyOf(label), Sends(s, body, label), UNCHANGED message,
         UNCHANGED <<autoCommit, results, place, open, sent, reader>>, sections' \subseteq Sections,
         message[s] = Asking(CallOf(label)),
         label \in {"execute", "commitRun"} => ~Columns(s),
         label \in {"open", "continue", "close", "commitClose"} => Columns(s),
         label = "commitRun" => results[s].ok,
         label = "continue" => statement[s].rows = <<>> /\ ~statement[s].done,
         message[s].what = "open" => label = "open" \/ sent[s] = 0
  PROVE  /\ StepOf(s) /\ Proper(s) /\ statement'[s].section = statement[s].section
         /\ Keeps(s)' <=> label \in {"prepare", "execute", "commitRun", "open", "continue", "close"}
<1> DEFINE q == statement[s]
           p == [q EXCEPT !.at = label]
<1>1. /\ Talk(Columns(s), results[s].ok, q, message[s], reader[s], place[s].given)
      /\ Data(RowsOf(s), results[s].ok, q, message[s], reader[s], place[s].given, sent[s])
  BY Standing
<1>2. q \in QueryType BY <1>1 DEF Talk
<1>3. Calling(s, "queued") /\ calls'[s].body = body BY HasSent DEF IInv, Sends
<1>4. statement' = [statement EXCEPT ![s] = p] BY DEF Sends, Goes
<1>5. /\ p \in QueryType /\ p.at = label /\ p.section = q.section /\ p.rows = q.rows /\ p.lobs = q.lobs
      /\ p.received = q.received /\ p.pending = q.pending /\ p.done = q.done /\ p.error = q.error
      /\ p.closedByServer = q.closedByServer
  BY <1>2, QueryAt
<1> HIDE DEF p
<1>6. Talk(Columns(s), results[s].ok, p, message[s], reader[s], place[s].given)
  BY <1>1, <1>5 DEF Talk
<1>7. Data(RowsOf(s), results[s].ok, p, message[s], reader[s], place[s].given, sent[s])
  <2>1. reader[s] # "starts" BY <1>1, CallsDiffer DEF Talk, Said
  <2> QED BY <1>1, <1>5, <2>1 DEF Data
<1>8. Linked(p, calls'[s]) BY <1>3, <1>5 DEF Linked, Calling
<1>9. /\ StepOf(s) /\ Proper(s) /\ statement'[s] = p
      /\ Keeps(s)' <=> Keeping(Columns(s), p, message[s], reader[s])
  BY <1>3, <1>4, <1>6, <1>7, <1>8, Went
<1> QED BY <1>5, <1>9 DEF Keeping

LEMMA PreparedIsGood ==
  ASSUME IInv, NEW s \in Statements, Prepared(s), UNCHANGED reader
  PROVE  StepOf(s) /\ Proper(s) /\ (Sits(s) \/ Leaves(s))
<1>1. Got(s, "prepare") /\ UNCHANGED <<autoCommit, results, place, isClosed, open, sent>>
  BY DEF Prepared
<1>2. CASE Failed(s)
  <2>1. RunFails(s) BY <1>2 DEF Prepared
  <2> QED BY <1>1, <2>1, RunEnds DEF RunFails
<1>3. CASE ~Failed(s)
  <2>1. /\ statement[s].at = "prepare" /\ message[s] = Asking("open") /\ message[s].what = "open"
        /\ reader[s] = "opens"
    BY <1>1, Awaiting DEF Places, CallOf
  <2>2. sent[s] = 0 BY <2>1, Standing DEF Data
  <2>3. sections' \subseteq Sections /\ UNCHANGED <<message, sections>> BY <1>3, Standing DEF Prepared
  <2>4. Keeps(s) BY <2>1 DEF Keeps, Keeping
  <2>5. CASE Columns(s)
    <3>1. Sends(s, "open", "open") BY <1>3, <2>5 DEF Prepared
    <3>2. StepOf(s) /\ Proper(s) /\ statement'[s].section = statement[s].section /\ Keeps(s)'
      BY <1>1, <2>1, <2>3, <2>5, <3>1, SendsOn DEF Requests, Places, BodyOf, CallOf
    <3> QED BY <2>3, <2>4, <3>2 DEF Sits
  <2>6. CASE ~Columns(s)
    <3>1. Sends(s, "execute", "execute") BY <1>3, <2>6 DEF Prepared
    <3>2. StepOf(s) /\ Proper(s) /\ statement'[s].section = statement[s].section /\ Keeps(s)'
      BY <1>1, <2>1, <2>2, <2>3, <2>6, <3>1, SendsOn DEF Requests, Places, BodyOf, CallOf
    <3> QED BY <2>3, <2>4, <3>2 DEF Sits
  <2> QED BY <2>5, <2>6
<1> QED BY <1>2, <1>3

(* An update that the server agrees to has run to its end.                  *)
LEMMA ExecutedIsGood ==
  ASSUME IInv, NEW s \in Statements, Executed(s), UNCHANGED reader
  PROVE  StepOf(s) /\ Proper(s) /\ (Sits(s) \/ Leaves(s))
<1>1. Got(s, "execute") /\ UNCHANGED <<autoCommit, results, place, isClosed, open, sent>>
  BY DEF Executed
<1>2. /\ statement[s].at = "execute" /\ message[s] = Asking("open") /\ message[s].what = "open"
      /\ reader[s] = "opens"
  BY <1>1, Awaiting DEF Places, CallOf
<1>3. CASE Failed(s)
  <2>1. RunFails(s) BY <1>3 DEF Executed
  <2> QED BY <1>1, <2>1, RunEnds DEF RunFails
<1>4. ASSUME ~Failed(s) PROVE results[s].ok
  <2>1. calls[s].reply.kind # "failure" /\ ToldTo(s, calls[s].reply)
    BY <1>1, <1>4, Awaiting DEF Places
  <2> QED BY <1>2, <2>1 DEF ToldTo, Told
<1>5. CASE ~Failed(s) /\ autoCommit
  <2>1. Sends(s, "commit", "commitRun") /\ UNCHANGED <<message, sections>> BY <1>5 DEF Executed
  <2>2. ~Columns(s) BY <1>2, Standing DEF Talk
  <2>3. sent[s] = 0 BY <1>2, Standing DEF Data
  <2>4. sections' \subseteq Sections BY <2>1, Standing
  <2>5. StepOf(s) /\ Proper(s) /\ statement'[s].section = statement[s].section /\ Keeps(s)'
    BY <1>1, <1>2, <1>4, <1>5, <2>1, <2>2, <2>3, <2>4, SendsOn DEF Requests, Places, BodyOf, CallOf
  <2>6. Keeps(s) BY <1>2 DEF Keeps, Keeping
  <2> QED BY <2>1, <2>5, <2>6 DEF Sits
<1>6. CASE ~Failed(s) /\ ~autoCommit
  <2>1. Release(s) /\ Goes(s, "idle") /\ Answers(s, "opened") /\ Taken(s) BY <1>6 DEF Executed
  <2> QED BY <1>1, <1>4, <1>6, <2>1, RunEnds
<1> QED BY <1>3, <1>5, <1>6, Standing

LEMMA RunCommittedIsGood ==
  ASSUME IInv, NEW s \in Statements, RunCommitted(s), UNCHANGED reader
  PROVE  StepOf(s) /\ Proper(s) /\ Leaves(s)
<1>1. /\ Got(s, "commitRun") /\ Release(s) /\ Goes(s, "idle") /\ Taken(s)
      /\ Answers(s, IF Failed(s) THEN "error" ELSE "opened")
      /\ UNCHANGED <<autoCommit, results, place, isClosed, open, sent>>
  BY DEF RunCommitted
<1>2. statement[s].at = "commitRun" BY <1>1 DEF Got, At
<1>3. results[s].ok BY <1>2, Standing DEF Talk
<1> QED BY <1>1, <1>3, RunEnds

(* The rows of a reply reach a statement that has given away those it had.  *)
LEMMA RowsArrive ==
  ASSUME IInv, NEW s \in Statements, NEW label \in {"open", "continue"}, Got(s, label),
         ~(Failed(s) \/ calls[s].reply.kind = "undecodable"),
         NEW p, p = [Receive(statement[s], calls[s].reply) EXCEPT !.at = "idle"]
  PROVE  /\ p \in QueryType /\ p.at = "idle" /\ p.section = statement[s].section
         /\ p.closedByServer = (statement[s].closedByServer \/ calls[s].reply.ended)
         /\ \A m : m.what # "open" => Data(RowsOf(s), results[s].ok, p, m, reader[s], place[s].given, sent[s])
<1> DEFINE q == statement[s]
           r == calls[s].reply
           got == Receive(q, r)
<1>1. /\ q.at = label /\ q \in QueryType
      /\ reader[s] \in {"opens", "reads"} /\ message[s].what = CallOf(label)
      /\ ToldTo(s, r) /\ r.kind # "failure" /\ calls[s].state = "resolved"
  BY Awaiting DEF Places, CallOf
<1>2. Data(RowsOf(s), results[s].ok, q, message[s], reader[s], place[s].given, sent[s])
  BY Standing
<1>3. r.kind = "blocks" /\ q.received <= r.upto /\ r.upto <= sent[s]
      /\ (r.end \/ r.ended => r.upto = 2 * RowsOf(s)) /\ r.error = ~results[s].ok
  BY <1>1 DEF ToldTo, Told
<1>4. r \in ReplyType BY <1>1 DEF ToldTo, Told
<1>5. q.rows = <<>> /\ ~q.done /\ q.lobs = <<>> /\ q.pending = q.received % 2 /\ ~q.error
      /\ place[s].given = q.received \div 2 /\ q.received \in Nat
  <2>1. q.rows = <<>> /\ ~q.done BY <1>1, <1>2 DEF Data, CallOf
  <2>2. place[s].given \in Nat BY Standing DEF Talk
  <2>3. place[s].given + Len(q.rows) = q.received \div 2 BY <1>2 DEF Data
  <2>4. place[s].given = q.received \div 2 BY <2>1, <2>2, <2>3
  <2>5. q.lobs = <<>> /\ q.pending = q.received % 2 /\ ~q.error BY <1>2, <2>1 DEF Data
  <2> QED BY <1>1, <2>1, <2>4, <2>5 DEF QueryType
<1>6. /\ got \in QueryType /\ got.section = q.section
      /\ got.rows = RowsFrom(q.received \div 2, r.upto \div 2) /\ got.lobs = <<>>
      /\ got.received = r.upto /\ got.pending = r.upto % 2
      /\ got.done = (r.end \/ r.ended) /\ got.error = ((r.end \/ r.ended) /\ r.error)
      /\ got.closedByServer = (q.closedByServer \/ r.ended)
  <2>1. q.done = FALSE /\ q.error = FALSE BY <1>1, <1>5 DEF QueryType
  <2> HIDE DEF got, q, r
  <2> QED BY <1>1, <1>3, <1>4, <1>5, <2>1, ReceiveFacts DEF got
<1> HIDE DEF got
<1>7. /\ p \in QueryType /\ p.at = "idle" /\ p.section = q.section
      /\ p.rows = got.rows /\ p.lobs = <<>> /\ p.received = r.upto /\ p.pending = r.upto % 2
      /\ p.done = got.done /\ p.error = got.error /\ p.closedByServer = got.closedByServer
  BY <1>6, QueryIdle DEF got
<1> DEFINE a == q.received \div 2
           b == r.upto \div 2
<1>8. a \in Nat /\ b \in Nat /\ a <= b /\ r.upto \in Nat
  <2>1. q.received \in Nat /\ r.upto \in Nat /\ q.received <= r.upto BY <1>3, <1>4, <1>5 DEF ReplyType
  <2> HIDE DEF q, r
  <2> QED BY <2>1, HalvesOfRows
<1>9. Len(p.rows) = b - a /\ p.rows = [i \in 1..(b - a) |-> [row |-> a + i, object |-> a + i]]
  <2>1. p.rows = [i \in 1..(b - a) |-> [row |-> a + i, object |-> a + i]]
    BY <1>6, <1>7 DEF RowsFrom
  <2>2. b - a \in Nat BY <1>8
  <2> HIDE DEF a, b
  <2> QED BY <2>1, <2>2
<1> HIDE DEF q, r, a, b
<1>10. ASSUME NEW m, m.what # "open"
       PROVE  Data(RowsOf(s), results[s].ok, p, m, reader[s], place[s].given, sent[s])
  <2>1. place[s].given = a BY <1>5 DEF a
  <2>2. a + Len(p.rows) = b BY <1>8, <1>9
  <2>3. IF p.done THEN p.received = 2 * RowsOf(s) /\ (p.error <=> ~results[s].ok) ELSE ~p.error
    BY <1>3, <1>6, <1>7, Standing DEF IsResult
  <2>4. p.rows = [i \in 1..Len(p.rows) |-> [row |-> a + i, object |-> a + i]] BY <1>9
  <2>5. reader[s] # "starts" BY <1>1
  <2>6. sent[s] \in Nat /\ sent[s] <= 2 * RowsOf(s) BY <1>2 DEF Data
  <2> QED BY <1>3, <1>7, <1>10, <2>1, <2>2, <2>3, <2>4, <2>5, <2>6 DEF Data, b
<1> QED BY <1>6, <1>7, <1>10 DEF q, r

LEMMA OpenedIsGood ==
  ASSUME IInv, NEW s \in Statements, Opened(s), UNCHANGED reader
  PROVE  StepOf(s) /\ Proper(s) /\ (Sits(s) \/ Leaves(s))
<1>1. Got(s, "open") /\ UNCHANGED <<autoCommit, results, place, isClosed, open, sent>>
  BY DEF Opened
<1>2. CASE Failed(s) \/ calls[s].reply.kind = "undecodable"
  <2>1. RunFails(s) BY <1>2 DEF Opened
  <2> QED BY <1>1, <2>1, RunEnds DEF RunFails
<1>3. CASE ~(Failed(s) \/ calls[s].reply.kind = "undecodable")
  <2> DEFINE p == [Receive(statement[s], calls[s].reply) EXCEPT !.at = "idle"]
  <2>1. /\ statement' = [statement EXCEPT ![s] = p]
        /\ Answers(s, "opened") /\ Taken(s) /\ UNCHANGED sections
    BY <1>3 DEF Opened
  <2>2. /\ p \in QueryType /\ p.at = "idle" /\ p.section = statement[s].section
        /\ \A m : m.what # "open" => Data(RowsOf(s), results[s].ok, p, m, reader[s], place[s].given, sent[s])
    BY <1>1, <1>3, RowsArrive
  <2> HIDE DEF p
  <2>3. Calling(s, "idle") BY <2>1, HasTaken DEF IInv
  <2>4. message' = [message EXCEPT ![s] = Saying("opened")] BY <2>1, CallNames DEF Answers
  <2>5. statement[s].at = "open" /\ reader[s] = "opens" BY <1>1, Awaiting DEF Places, CallOf
  <2>6. Columns(s) /\ place[s].given \in Nat BY <2>5, Standing DEF Talk
  <2>7. Talk(Columns(s), results[s].ok, p, Saying("opened"), reader[s], place[s].given)
    BY <2>2, <2>5, <2>6, CallsDiffer DEF Talk, Said
  <2>8. Data(RowsOf(s), results[s].ok, p, Saying("opened"), reader[s], place[s].given, sent[s])
    BY <2>2, CallsDiffer
  <2>9. Linked(p, calls'[s]) BY <2>2, <2>3 DEF Linked, Calling
  <2>10. sections' \subseteq Sections BY <2>1, Standing
  <2>11. /\ StepOf(s) /\ Proper(s) /\ statement'[s] = p
         /\ Keeps(s)' <=> Keeping(Columns(s), p, Saying("opened"), reader[s])
    BY <1>1, <2>1, <2>3, <2>4, <2>7, <2>8, <2>9, <2>10, Went
  <2>12. Keeps(s) /\ Keeps(s)' BY <2>2, <2>5, <2>6, <2>11, CallsDiffer DEF Keeps, Keeping
  <2> QED BY <2>1, <2>2, <2>11, <2>12 DEF Sits
<1> QED BY <1>2, <1>3

LEMMA ContinuedIsGood ==
  ASSUME IInv, NEW s \in Statements, Continued(s), UNCHANGED reader
  PROVE  StepOf(s) /\ Proper(s) /\ Sits(s)
<1>1. /\ Got(s, "continue") /\ Taken(s)
      /\ UNCHANGED <<autoCommit, results, place, sections, isClosed, open, sent>>
  BY DEF Continued
<1>2. /\ statement[s].at = "continue" /\ statement[s] \in QueryType /\ reader[s] = "reads"
      /\ message[s] = Asking("next") /\ message[s].what = "next"
  BY <1>1, Awaiting DEF Places, CallOf
<1>3. Calling(s, "idle") /\ sections' \subseteq Sections BY <1>1, HasTaken, Standing DEF IInv
<1>4. /\ Talk(Columns(s), results[s].ok, statement[s], message[s], reader[s], place[s].given)
      /\ Data(RowsOf(s), results[s].ok, statement[s], message[s], reader[s], place[s].given, sent[s])
  BY Standing
<1>5. Columns(s) /\ Keeps(s) BY <1>2, <1>4 DEF Talk, Keeps, Keeping
<1>6. ASSUME NEW m, NEW p, p \in QueryType, p.at = "idle", p.section = statement[s].section,
             message' = [message EXCEPT ![s] = m] \/ (UNCHANGED message /\ m = message[s]),
             statement' = [statement EXCEPT ![s] = p],
             m \in {Asking("next"), Saying("error")},
             Data(RowsOf(s), results[s].ok, p, m, reader[s], place[s].given, sent[s])
      PROVE  StepOf(s) /\ Proper(s) /\ Sits(s)
  <2>1. Talk(Columns(s), results[s].ok, p, m, reader[s], place[s].given)
    BY <1>2, <1>4, <1>5, <1>6, CallsDiffer DEF Talk, Said
  <2>2. Linked(p, calls'[s]) BY <1>3, <1>6 DEF Linked, Calling
  <2>3. statement' = [statement EXCEPT ![s] = p] \/ (UNCHANGED statement /\ p = statement[s])
    BY <1>6
  <2>4. /\ StepOf(s) /\ Proper(s) /\ statement'[s] = p
        /\ Keeps(s)' <=> Keeping(Columns(s), p, m, reader[s])
    BY <1>1, <1>3, <1>6, <2>1, <2>2, <2>3, Went
  <2>5. Keeps(s)' BY <1>2, <1>5, <1>6, <2>4 DEF Keeping
  <2> QED BY <1>1, <1>5, <1>6, <2>4, <2>5 DEF Sits
<1>7. CASE Failed(s) \/ calls[s].reply.kind = "undecodable"
  <2> DEFINE p == [statement[s] EXCEPT !.at = "idle"]
  <2>1. Goes(s, "idle") /\ Answers(s, "error") BY <1>7 DEF Continued
  <2>2. statement' = [statement EXCEPT ![s] = p] /\ message' = [message EXCEPT ![s] = Saying("error")]
    BY <2>1, CallNames DEF Goes, Answers
  <2>3. /\ p \in QueryType /\ p.at = "idle" /\ p.section = statement[s].section
        /\ p.rows = statement[s].rows /\ p.lobs = statement[s].lobs /\ p.received = statement[s].received
        /\ p.pending = statement[s].pending /\ p.done = statement[s].done /\ p.error = statement[s].error
    BY <1>2, QueryIdle
  <2> HIDE DEF p
  <2>4. Data(RowsOf(s), results[s].ok, p, Saying("error"), reader[s], place[s].given, sent[s])
    BY <1>2, <1>4, <2>3, CallsDiffer DEF Data
  <2> QED BY <1>6, <2>2, <2>3, <2>4
<1>8. CASE ~(Failed(s) \/ calls[s].reply.kind = "undecodable")
  <2> DEFINE p == [Receive(statement[s], calls[s].reply) EXCEPT !.at = "idle"]
  <2>1. statement' = [statement EXCEPT ![s] = p] /\ UNCHANGED message BY <1>8 DEF Continued
  <2>2. /\ p \in QueryType /\ p.at = "idle" /\ p.section = statement[s].section
        /\ \A m : m.what # "open" => Data(RowsOf(s), results[s].ok, p, m, reader[s], place[s].given, sent[s])
    BY <1>1, <1>8, RowsArrive
  <2> HIDE DEF p
  <2>3. Data(RowsOf(s), results[s].ok, p, message[s], reader[s], place[s].given, sent[s])
    BY <1>2, <2>2
  <2> QED BY <1>2, <1>6, <2>1, <2>2, <2>3
<1> QED BY <1>7, <1>8

(* The first of the rows that are left is the one after those given.        *)
Follow(rows, given) == rows = [i \in 1..Len(rows) |-> [row |-> given + i, object |-> given + i]]

LEMMA RowsLeft ==
  ASSUME NEW given \in Nat, NEW rows \in Seq([row: Nat, object: Nat]), rows # <<>>,
         Follow(rows, given)
  PROVE  /\ Whole(Head(rows)) = given + 1
         /\ Tail(rows) \in Seq([row: Nat, object: Nat]) /\ Len(Tail(rows)) + 1 = Len(rows)
         /\ Follow(Tail(rows), given + 1)
<1>1. /\ Head(rows) = rows[1] /\ 1 \in 1..Len(rows)
      /\ Tail(rows) \in Seq([row: Nat, object: Nat]) /\ Len(Tail(rows)) = Len(rows) - 1
      /\ \A i \in 1..Len(Tail(rows)) : i + 1 \in 1..Len(rows) /\ Tail(rows)[i] = rows[i + 1]
      /\ Len(rows) \in Nat
  BY SMTT(30)
<1>2. \A i \in 1..Len(rows) : rows[i] = [row |-> given + i, object |-> given + i] BY DEF Follow
<1>3. Whole(Head(rows)) = given + 1
  <2>1. rows[1] = [row |-> given + 1, object |-> given + 1] BY <1>1, <1>2
  <2> QED BY <1>1, <2>1 DEF Whole
<1>4. \A i \in 1..Len(Tail(rows)) : Tail(rows)[i] = [row |-> given + 1 + i, object |-> given + 1 + i]
  <2> SUFFICES ASSUME NEW i \in 1..Len(Tail(rows))
               PROVE  Tail(rows)[i] = [row |-> given + 1 + i, object |-> given + 1 + i]
    OBVIOUS
  <2>1. Tail(rows)[i] = [row |-> given + (i + 1), object |-> given + (i + 1)] BY <1>1, <1>2
  <2>2. given + (i + 1) = given + 1 + i BY <1>1
  <2> QED BY <2>1, <2>2
<1>5. Tail(rows) = [i \in 1..Len(Tail(rows)) |-> Tail(rows)[i]]
  <2>1. \A t \in Seq([row: Nat, object: Nat]) : t = [i \in 1..Len(t) |-> t[i]] OBVIOUS
  <2> QED BY <1>1, <2>1
<1> HIDE DEF Whole
<1>6. Tail(rows) = [i \in 1..Len(Tail(rows)) |-> [row |-> given + 1 + i, object |-> given + 1 + i]]
  <2> DEFINE t == Tail(rows)
  <2>1. t = [i \in 1..Len(t) |-> t[i]] /\ \A i \in 1..Len(t) : t[i] = [row |-> given + 1 + i, object |-> given + 1 + i]
    BY <1>4, <1>5
  <2> HIDE DEF t
  <2>2. t = [i \in 1..Len(t) |-> [row |-> given + 1 + i, object |-> given + 1 + i]] BY <2>1
  <2> QED BY <2>2 DEF t
<1> QED BY <1>1, <1>3, <1>6 DEF Follow

LEMMA NextRowIsGood ==
  ASSUME IInv, NEW s \in Statements, NextRow(s), UNCHANGED reader
  PROVE  StepOf(s) /\ Proper(s) /\ Sits(s)
<1> DEFINE q == statement[s]
<1>1. /\ message[s] = Asking("next") /\ q.at = "idle"
      /\ UNCHANGED <<autoCommit, results, sections, isClosed, open, sent>>
  BY CallNames DEF NextRow, At
<1>2. /\ Talk(Columns(s), results[s].ok, q, message[s], reader[s], place[s].given)
      /\ Data(RowsOf(s), results[s].ok, q, message[s], reader[s], place[s].given, sent[s])
      /\ Linked(q, calls[s]) /\ sections' \subseteq Sections
  BY <1>1, Standing
<1>3. q \in QueryType /\ reader[s] = "reads" /\ place[s].given \in Nat /\ message[s].what = "next"
  BY <1>1, <1>2, CallsDiffer DEF Talk, Said
<1>4. Keeps(s) <=> Columns(s) BY <1>1, <1>3 DEF Keeps, Keeping
<1>5. CASE q.rows # <<>> /\ message' = [message EXCEPT ![s] = Giving(Whole(Head(q.rows)))]
           /\ statement' = [statement EXCEPT ![s].rows = Tail(@)]
           /\ place' = [place EXCEPT ![s].given = @ + 1] /\ UNCHANGED transportVars
  <2> DEFINE p == [q EXCEPT !.rows = Tail(@)]
             given == place[s].given
  <2>1. /\ Whole(Head(q.rows)) = given + 1 /\ Len(Tail(q.rows)) + 1 = Len(q.rows)
        /\ Tail(q.rows) \in Seq([row: Nat, object: Nat])
        /\ Follow(Tail(q.rows), given + 1)
    <3>1. q.rows \in Seq([row: Nat, object: Nat]) BY <1>3 DEF QueryType
    <3>2. Follow(q.rows, given) BY <1>2 DEF Data, Follow
    <3> QED BY <1>3, <1>5, <3>1, <3>2, RowsLeft
  <2>2. /\ p \in QueryType /\ p.at = "idle" /\ p.section = q.section /\ p.rows = Tail(q.rows)
        /\ p.lobs = q.lobs /\ p.received = q.received /\ p.pending = q.pending
        /\ p.done = q.done /\ p.error = q.error
    BY <1>1, <1>3, <2>1 DEF QueryType
  <2>3. calls[s].state = "idle" BY <1>1, <1>2 DEF Linked
  <2>4. Calling(s, "idle") BY <1>5, <2>3, HasStood DEF IInv
  <2>5. statement' = [statement EXCEPT ![s] = p] BY <1>5
  <2> HIDE DEF p
  <2>6. /\ StepOf(s) /\ place'[s].given = IF UNCHANGED place THEN given ELSE given + 1
    BY <1>1, <1>2, <1>5, <2>4, <2>5, StepForm
  <2>7. message'[s] = Giving(given + 1) /\ statement'[s] = p BY <1>5, <2>1, <2>5 DEF IInv, Fields
  <2>8. place'[s].given = given + 1 BY <1>5 DEF IInv, Fields
  <2>9. Talk(Columns(s), results[s].ok, p, Giving(given + 1), reader[s], given + 1)
    BY <1>2, <1>3, <2>2, CallsDiffer DEF Talk, Said
  <2>10. Data(RowsOf(s), results[s].ok, p, Giving(given + 1), reader[s], given + 1, sent[s])
    <3>1. Len(q.rows) \in Nat /\ Len(Tail(q.rows)) \in Nat BY <1>3, <2>1 DEF QueryType
    <3>2. given + 1 + Len(p.rows) = q.received \div 2
      <4>1. given + Len(q.rows) = q.received \div 2 BY <1>2 DEF Data
      <4>2. Len(p.rows) + 1 = Len(q.rows) /\ Len(p.rows) \in Nat BY <2>1, <2>2, <3>1
      <4> DEFINE all == Len(q.rows)
                 left == Len(p.rows)
                 h == q.received \div 2
      <4>3. given \in Nat /\ left \in Nat /\ left + 1 = all /\ given + all = h BY <1>3, <4>1, <4>2
      <4> HIDE DEF given, all, left, h
      <4>4. given + 1 + left = h BY ONLY <4>3
      <4> QED BY <4>4 DEF left, h
    <3>3. p.rows = [i \in 1..Len(p.rows) |-> [row |-> given + 1 + i, object |-> given + 1 + i]]
      BY <2>1, <2>2 DEF Follow
    <3>4. /\ q.pending = q.received % 2 /\ q.lobs = <<>> /\ q.received <= sent[s]
          /\ IF q.done THEN q.received = 2 * RowsOf(s) /\ (q.error <=> ~results[s].ok) ELSE ~q.error
          /\ sent[s] \in Nat /\ sent[s] <= 2 * RowsOf(s)
      BY <1>2 DEF Data
    <3> QED BY <1>3, <2>2, <3>2, <3>3, <3>4, CallsDiffer DEF Data
  <2>11. Linked(p, calls'[s]) BY <2>2, <2>4 DEF Linked, Calling
  <2>12. Proper(s) BY <2>6, <2>7, <2>8, <2>9, <2>10, <2>11 DEF Proper, StepOf
  <2>13. Keeps(s)' <=> Columns(s)
    <3>1. Columns(s)' = Columns(s) /\ reader'[s] = "reads" BY <1>1, <1>3 DEF Columns
    <3> QED BY <2>2, <2>7, <3>1 DEF Keeps, Keeping
  <2> QED BY <1>1, <1>4, <2>2, <2>6, <2>7, <2>12, <2>13 DEF Sits
<1>6. CASE q.rows = <<>> /\ (q.done \/ ~Columns(s))
           /\ Answers(s, IF q.error THEN "error" ELSE "null")
           /\ UNCHANGED <<transportVars, statement, place>>
  <2> DEFINE m == Saying(IF q.error THEN "error" ELSE "null")
  <2>1. calls[s].state = "idle" BY <1>1, <1>2 DEF Linked
  <2>2. Calling(s, "idle") BY <1>6, <2>1, HasStood DEF IInv
  <2>3. message' = [message EXCEPT ![s] = m] BY <1>6, CallNames DEF Answers
  <2>4. m \in {Saying("error"), Saying("null")} OBVIOUS
  <2> HIDE DEF m
  <2>5. Talk(Columns(s), results[s].ok, q, m, reader[s], place[s].given)
    BY <1>1, <1>2, <1>3, <2>4, CallsDiffer DEF Talk, Said
  <2>6. Data(RowsOf(s), results[s].ok, q, m, reader[s], place[s].given, sent[s])
    BY <1>1, <1>2, <1>3, <2>4, CallsDiffer DEF Data
  <2>7. Linked(q, calls'[s]) BY <1>1, <2>2 DEF Linked, Calling
  <2>8. /\ StepOf(s) /\ Proper(s) /\ statement'[s] = q
        /\ Keeps(s)' <=> Keeping(Columns(s), q, m, reader[s])
    BY <1>1, <1>2, <1>6, <2>2, <2>3, <2>5, <2>6, <2>7, Went
  <2>9. Keeps(s)' <=> Columns(s) BY <1>1, <1>3, <2>8 DEF Keeping
  <2> QED BY <1>1, <1>4, <2>8, <2>9 DEF Sits
<1>7. CASE q.rows = <<>> /\ ~q.done /\ Columns(s)
           /\ Sends(s, "continue", "continue") /\ UNCHANGED <<message, place>>
  <2>1. StepOf(s) /\ Proper(s) /\ statement'[s].section = statement[s].section /\ Keeps(s)'
    BY <1>1, <1>2, <1>3, <1>7, SendsOn DEF Requests, Places, BodyOf, CallOf
  <2> QED BY <1>1, <1>4, <1>7, <2>1 DEF Sits
<1>8. Calls(s)!AnswerRow(Whole(Head(q.rows))) = Giving(Whole(Head(q.rows))) BY CallNames
<1> QED BY <1>5, <1>6, <1>7, <1>8 DEF NextRow

(* close() ends: the section is released, and the statement is committed.   *)
LEMMA EndIsGood ==
  ASSUME IInv, NEW s \in Statements, statement[s].at = "idle" \/ Got(s, "close"), Columns(s),
         message[s] = Asking("close"), EndOfStatement(s),
         UNCHANGED <<autoCommit, results, place, open, sent, reader>>
  PROVE  StepOf(s) /\ Proper(s) /\ Leaves(s)
<1> DEFINE q == statement[s]
           p == [q EXCEPT !.at = "idle"]
<1>1. /\ Talk(Columns(s), results[s].ok, q, message[s], reader[s], place[s].given)
      /\ Data(RowsOf(s), results[s].ok, q, message[s], reader[s], place[s].given, sent[s])
      /\ Linked(q, calls[s]) /\ sections \subseteq Sections
  BY Standing
<1>2. sections' = sections \ {q.section} /\ sections' \subseteq Sections
  BY <1>1 DEF EndOfStatement, Release
<1>3. q.at \in {"idle", "close"} /\ (q.at = "idle" \/ Settled(s)) BY DEF Got, At
<1>4. /\ q \in QueryType /\ reader[s] = "closes" /\ place[s].given \in Nat
      /\ message[s].what = "close" /\ message[s].to = "cursor"
  BY <1>1, CallsDiffer DEF Talk, Said
<1>5. Keeps(s) BY <1>3, <1>4 DEF Keeps, Keeping
<1>6. CASE autoCommit
  <2>1. Sends(s, "commit", "commitClose") /\ UNCHANGED message BY <1>6 DEF EndOfStatement
  <2>2. StepOf(s) /\ Proper(s) /\ ~Keeps(s)'
    BY <1>2, <1>4, <2>1, SendsOn DEF Requests, Places, BodyOf, CallOf
  <2> QED BY <1>2, <1>5, <2>2 DEF Leaves
<1>7. CASE ~autoCommit
  <2>1. Goes(s, "idle") /\ Answers(s, "closed") /\ IF Settled(s) THEN Taken(s) ELSE UNCHANGED transportVars
    BY <1>7 DEF EndOfStatement
  <2>2. Calling(s, "idle")
    <3>1. CASE Settled(s) BY <2>1, <3>1, HasTaken DEF IInv
    <3>2. CASE ~Settled(s)
      <4>1. calls[s].state = "idle" BY <1>1, <1>3, <3>2 DEF Linked
      <4> QED BY <2>1, <3>2, <4>1, HasStood DEF IInv
    <3> QED BY <3>1, <3>2
  <2>3. statement' = [statement EXCEPT ![s] = p] /\ message' = [message EXCEPT ![s] = Saying("closed")]
    BY <2>1, CallNames DEF Goes, Answers
  <2>4. /\ p \in QueryType /\ p.at = "idle" /\ p.rows = q.rows /\ p.lobs = q.lobs
        /\ p.received = q.received /\ p.pending = q.pending /\ p.done = q.done /\ p.error = q.error
    BY <1>4, QueryIdle
  <2> HIDE DEF p
  <2>5. Talk(Columns(s), results[s].ok, p, Saying("closed"), reader[s], place[s].given)
    BY <1>1, <1>4, <2>4, CallsDiffer DEF Talk, Said
  <2>6. Data(RowsOf(s), results[s].ok, p, Saying("closed"), reader[s], place[s].given, sent[s])
    BY <1>1, <1>3, <1>4, <2>4, CallsDiffer DEF Data
  <2>7. Linked(p, calls'[s]) BY <2>2, <2>4 DEF Linked, Calling
  <2>8. /\ StepOf(s) /\ Proper(s)
        /\ Keeps(s)' <=> Keeping(Columns(s), p, Saying("closed"), reader[s])
    BY <1>2, <2>2, <2>3, <2>5, <2>6, <2>7, Went
  <2>9. ~Keeps(s)' BY <1>4, <2>4, <2>8, CallsDiffer DEF Keeping
  <2> QED BY <1>2, <1>5, <2>8, <2>9 DEF Leaves
<1> QED BY <1>6, <1>7, Standing

LEMMA CloseIsGood ==
  ASSUME IInv, NEW s \in Statements, Close_(s), UNCHANGED reader
  PROVE  StepOf(s) /\ Proper(s) /\ (Sits(s) \/ Leaves(s))
<1> DEFINE q == statement[s]
<1>1. /\ message[s] = Asking("close") /\ q.at = "idle"
      /\ UNCHANGED <<autoCommit, results, place, isClosed, open, sent>>
  BY CallNames DEF Close_, At
<1>2. /\ Talk(Columns(s), results[s].ok, q, message[s], reader[s], place[s].given)
      /\ Data(RowsOf(s), results[s].ok, q, message[s], reader[s], place[s].given, sent[s])
      /\ Linked(q, calls[s]) /\ sections \subseteq Sections
  BY Standing
<1>3. /\ q \in QueryType /\ reader[s] = "closes" /\ place[s].given \in Nat
      /\ message[s].what = "close" /\ message[s].to = "cursor"
  BY <1>1, <1>2, CallsDiffer DEF Talk, Said
<1>4. CASE ~Columns(s)
  <2>1. Answers(s, "closed") /\ UNCHANGED <<transportVars, statement, sections>> BY <1>4 DEF Close_
  <2>2. calls[s].state = "idle" BY <1>1, <1>2 DEF Linked
  <2>3. Calling(s, "idle") BY <2>1, <2>2, HasStood DEF IInv
  <2>4. message' = [message EXCEPT ![s] = Saying("closed")] BY <2>1, CallNames DEF Answers
  <2>5. Talk(Columns(s), results[s].ok, q, Saying("closed"), reader[s], place[s].given)
    BY <1>1, <1>2, <1>3, CallsDiffer DEF Talk, Said
  <2>6. Data(RowsOf(s), results[s].ok, q, Saying("closed"), reader[s], place[s].given, sent[s])
    BY <1>1, <1>2, <1>3, CallsDiffer DEF Data
  <2>7. Linked(q, calls'[s]) BY <1>1, <2>3 DEF Linked, Calling
  <2>8. /\ StepOf(s) /\ Proper(s) /\ statement'[s] = q
        /\ Keeps(s)' <=> Keeping(Columns(s), q, Saying("closed"), reader[s])
    BY <1>1, <1>2, <2>1, <2>3, <2>4, <2>5, <2>6, <2>7, Went
  <2>9. ~Keeps(s) /\ ~Keeps(s)' BY <1>1, <1>4, <2>8 DEF Keeps, Keeping
  <2> QED BY <2>1, <2>8, <2>9 DEF Sits
<1>5. CASE Columns(s) /\ q.closedByServer
  <2>1. EndOfStatement(s) BY <1>5 DEF Close_
  <2> QED BY <1>1, <1>5, <2>1, EndIsGood
<1>6. CASE Columns(s) /\ ~q.closedByServer
  <2> DEFINE p == [q EXCEPT !.closedByServer = TRUE, !.at = "close"]
  <2>1. /\ Send(s, "close") /\ UNCHANGED <<message, sections>>
        /\ statement' = [statement EXCEPT ![s] = p]
    BY <1>6 DEF Close_
  <2>2. Calling(s, "queued") /\ calls'[s].body = "close" BY <2>1, HasSent DEF IInv, Requests
  <2>3. /\ p \in QueryType /\ p.at = "close" /\ p.section = q.section /\ p.rows = q.rows /\ p.lobs = q.lobs
        /\ p.received = q.received /\ p.pending = q.pending /\ p.done = q.done /\ p.error = q.error
    BY <1>3 DEF QueryType, Places
  <2> HIDE DEF p
  <2>4. Talk(Columns(s), results[s].ok, p, message[s], reader[s], place[s].given)
    BY <1>1, <1>2, <1>6, <2>3 DEF Talk, CallOf
  <2>5. Data(RowsOf(s), results[s].ok, p, message[s], reader[s], place[s].given, sent[s])
    BY <1>2, <1>3, <2>3 DEF Data
  <2>6. Linked(p, calls'[s]) BY <2>2, <2>3 DEF Linked, Calling, BodyOf
  <2>7. /\ StepOf(s) /\ Proper(s) /\ statement'[s] = p
        /\ Keeps(s)' <=> Keeping(Columns(s), p, message[s], reader[s])
    BY <1>1, <1>2, <2>1, <2>2, <2>4, <2>5, <2>6, Went
  <2>8. Keeps(s) /\ Keeps(s)' BY <1>1, <1>3, <1>6, <2>3, <2>7 DEF Keeps, Keeping
  <2> QED BY <2>1, <2>3, <2>7, <2>8 DEF Sits
<1> QED BY <1>3, <1>4, <1>5, <1>6, Standing DEF QueryType

LEMMA QueryClosedIsGood ==
  ASSUME IInv, NEW s \in Statements, QueryClosed(s), UNCHANGED reader
  PROVE  StepOf(s) /\ Proper(s) /\ Leaves(s)
<1>1. /\ Got(s, "close") /\ EndOfStatement(s)
      /\ UNCHANGED <<autoCommit, results, place, isClosed, open, sent>>
  BY DEF QueryClosed
<1>2. statement[s].at = "close" /\ message[s] = Asking("close") BY <1>1, Awaiting DEF Places, CallOf
<1>3. Columns(s) BY <1>2, Standing DEF Talk
<1> QED BY <1>1, <1>2, <1>3, EndIsGood

LEMMA CloseCommittedIsGood ==
  ASSUME IInv, NEW s \in Statements, CloseCommitted(s), UNCHANGED reader
  PROVE  StepOf(s) /\ Proper(s) /\ Sits(s)
<1> DEFINE q == statement[s]
           p == [q EXCEPT !.at = "idle"]
           m == Saying(IF Failed(s) THEN "error" ELSE "closed")
<1>1. /\ Got(s, "commitClose") /\ Goes(s, "idle") /\ Taken(s)
      /\ Answers(s, IF Failed(s) THEN "error" ELSE "closed")
      /\ UNCHANGED <<autoCommit, results, place, sections, isClosed, open, sent>>
  BY DEF CloseCommitted
<1>2. /\ q.at = "commitClose" /\ q \in QueryType /\ reader[s] = "closes" /\ message[s].what = "close"
  BY <1>1, Awaiting DEF Places, CallOf
<1>3. /\ Talk(Columns(s), results[s].ok, q, message[s], reader[s], place[s].given)
      /\ Data(RowsOf(s), results[s].ok, q, message[s], reader[s], place[s].given, sent[s])
      /\ sections' \subseteq Sections
  BY <1>1, Standing
<1>4. Calling(s, "idle") BY <1>1, HasTaken DEF IInv
<1>5. statement' = [statement EXCEPT ![s] = p] /\ message' = [message EXCEPT ![s] = m]
  BY <1>1, CallNames DEF Goes, Answers
<1>6. /\ p \in QueryType /\ p.at = "idle" /\ p.section = q.section /\ p.rows = q.rows /\ p.lobs = q.lobs
      /\ p.received = q.received /\ p.pending = q.pending /\ p.done = q.done /\ p.error = q.error
  BY <1>2, QueryIdle
<1>7. m \in {Saying("error"), Saying("closed")} OBVIOUS
<1> HIDE DEF p, m
<1>8. Talk(Columns(s), results[s].ok, p, m, reader[s], place[s].given)
  BY <1>2, <1>3, <1>6, <1>7, CallsDiffer DEF Talk, Said
<1>9. Data(RowsOf(s), results[s].ok, p, m, reader[s], place[s].given, sent[s])
  BY <1>2, <1>3, <1>6, <1>7, CallsDiffer DEF Data
<1>10. Linked(p, calls'[s]) BY <1>4, <1>6 DEF Linked, Calling
<1>11. /\ StepOf(s) /\ Proper(s) /\ statement'[s] = p
       /\ Keeps(s)' <=> Keeping(Columns(s), p, m, reader[s])
  BY <1>1, <1>3, <1>4, <1>5, <1>8, <1>9, <1>10, Went
<1>12. ~Keeps(s) /\ ~Keeps(s)'
  BY <1>2, <1>6, <1>7, <1>11, CallsDiffer DEF Keeps, Keeping
<1> QED BY <1>1, <1>6, <1>11, <1>12 DEF Sits

(* Its reader makes the next call.                                          *)
LEMMA ReadsIsGood ==
  ASSUME IInv, NEW s \in Statements, Reads(s)
  PROVE  StepOf(s) /\ Proper(s) /\ Sits(s)
<1> DEFINE q == statement[s]
<1>1. /\ message[s].to = "runner"
      /\ UNCHANGED <<transportVars, autoCommit, results, place, sections, statement, isClosed, open, sent>>
  BY DEF Reads
<1>2. PICK call, as :
        /\ message' = [message EXCEPT ![s] = Asking(call)] /\ reader' = [reader EXCEPT ![s] = as]
        /\ \/ reader[s] = "starts" /\ call = "open" /\ as = "opens"
           \/ reader[s] \in {"opens", "reads"} /\ message[s].what \in {"opened", "row"}
              /\ call = "next" /\ as = "reads"
           \/ reader[s] = "opens" /\ message[s].what = "opened" /\ call = "close" /\ as = "closes"
           \/ reader[s] = "reads" /\ call = "close" /\ as = "closes"
  BY CallNames DEF Reads, Asks
<1>3. /\ Talk(Columns(s), results[s].ok, q, message[s], reader[s], place[s].given)
      /\ Data(RowsOf(s), results[s].ok, q, message[s], reader[s], place[s].given, sent[s])
      /\ Linked(q, calls[s])
  BY Standing
<1>4. /\ q.at = "idle" /\ calls[s].state = "idle"
      /\ message[s] \in Said(reader[s], place[s].given)
      /\ q \in QueryType /\ place[s].given \in Nat
  BY <1>1, <1>3, CallsDiffer DEF Talk, Linked
<1>5. reader[s] = "opens" /\ message[s].what \in {"opened", "row"} => message[s].what = "opened"
  BY <1>4, CallsDiffer DEF Said
<1>6. Calling(s, "idle") BY <1>1, <1>4, HasStood DEF IInv
<1>7. /\ message'[s] = Asking(call) /\ reader'[s] = as
      /\ DOMAIN message' = Statements /\ DOMAIN reader' = Statements
      /\ \A t \in Statements : t # s => message'[t] = message[t] /\ reader'[t] = reader[t]
  BY <1>2 DEF IInv, Fields
<1>8. Fields' BY <1>1, <1>7 DEF IInv, Fields
<1>9. StepOf(s)
  <2>1. s # Closer /\ Closer \in Callers /\ Statements \subseteq Callers OBVIOUS
  <2> QED BY <1>1, <1>6, <1>7, <1>8, <2>1 DEF StepOf, Calling
<1>10. statement'[s] = q /\ place'[s] = place[s] BY <1>1
<1>11. Talk(Columns(s), results[s].ok, q, Asking(call), as, place[s].given)
  <2>1. as \in {"opens", "reads", "closes"} /\ Asking(call) \in Said(as, place[s].given)
    BY <1>2 DEF Said
  <2>2. ~Columns(s) /\ (as = "reads" \/ Asking(call).what = "opened") => results[s].ok
    BY <1>2, <1>3, <1>5, CallsDiffer DEF Talk
  <2> QED BY <1>4, <2>1, <2>2, CallsDiffer, ZenonT(60) DEF Talk
<1>12. Data(RowsOf(s), results[s].ok, q, Asking(call), as, place[s].given, sent[s])
  BY <1>2, <1>3, <1>4, CallsDiffer DEF Data
<1>13. Linked(q, calls'[s]) BY <1>4, <1>6 DEF Linked, Calling
<1>14. Proper(s) BY <1>7, <1>10, <1>11, <1>12, <1>13 DEF Proper
<1>15. Keeps(s)' <=> Keeps(s)
  <2>1. Keeps(s)' <=> Keeping(Columns(s), q, Asking(call), as)
    <3>1. Columns(s)' = Columns(s) BY <1>1 DEF Columns
    <3> QED BY <1>7, <1>10, <3>1 DEF Keeps
  <2>2. Keeping(Columns(s), q, Asking(call), as) <=> Keeping(Columns(s), q, message[s], reader[s])
    BY <1>1, <1>2, <1>4, <1>5, CallsDiffer DEF Keeping
  <2> QED BY <2>1, <2>2 DEF Keeps
<1> QED BY <1>1, <1>9, <1>10, <1>14, <1>15 DEF Sits

LEMMA StatementInv ==
  ASSUME IInv, NEW s \in Statements, Reads(s) \/ (Runs(s) /\ UNCHANGED reader)
  PROVE  IInv' /\ StepOf(s) /\ (Sits(s) \/ Takes(s) \/ Leaves(s))
<1>1. StepOf(s) /\ Proper(s) /\ (Sits(s) \/ Takes(s) \/ Leaves(s))
  <2>1. CASE Reads(s) BY <2>1, ReadsIsGood
  <2>2. CASE Execute(s) /\ UNCHANGED reader BY <2>2, ExecuteIsGood
  <2>3. CASE Prepared(s) /\ UNCHANGED reader BY <2>3, PreparedIsGood
  <2>4. CASE Executed(s) /\ UNCHANGED reader BY <2>4, ExecutedIsGood
  <2>5. CASE RunCommitted(s) /\ UNCHANGED reader BY <2>5, RunCommittedIsGood
  <2>6. CASE Opened(s) /\ UNCHANGED reader BY <2>6, OpenedIsGood
  <2>7. CASE NextRow(s) /\ UNCHANGED reader BY <2>7, NextRowIsGood
  <2>8. CASE Continued(s) /\ UNCHANGED reader BY <2>8, ContinuedIsGood
  <2>9. CASE Close_(s) /\ UNCHANGED reader BY <2>9, CloseIsGood
  <2>10. CASE QueryClosed(s) /\ UNCHANGED reader BY <2>10, QueryClosedIsGood
  <2>11. CASE CloseCommitted(s) /\ UNCHANGED reader BY <2>11, CloseCommittedIsGood
  <2> QED BY <2>1, <2>2, <2>3, <2>4, <2>5, <2>6, <2>7, <2>8, <2>9, <2>10, <2>11 DEF Runs
<1> QED BY <1>1, StepIsGood

-------------------------------------------------------------------------------
(* The transport's own steps, and the connection's, leave the statements    *)
(* where they are: only what became of a send() changes.                    *)
Onward(c) ==
  /\ calls'[c].state = "idle" <=> calls[c].state = "idle"
  /\ calls'[c].state = "queued" => calls[c].state = "queued"
  /\ calls'[c].state \in {"queued", "waiting"} =>
       calls[c].state \in {"queued", "waiting"} /\ calls'[c].body = calls[c].body
  /\ calls'[c].state = "resolved" =>
       \/ calls'[c] = calls[c]
       \/ waiting = c /\ 1 \in DOMAIN wire /\ calls'[c].reply = wire[1].reply

LEMMA ConnectionIsGood ==
  ASSUME IInv, Inv', Orderly', open' \subseteq open,
         UNCHANGED <<autoCommit, results, message, place, sections, statement, reader, sent>>,
         \A s \in Statements : Onward(s),
         \A i \in DOMAIN wire' : waiting' \in Statements =>
           waiting' = waiting /\ \E j \in DOMAIN wire : wire'[i] = wire[j]
  PROVE  IInv'
<1>1. Fields' BY DEF IInv, Fields
<1>2. Allocated' BY DEF IInv, Allocated, Keeps, Columns
<1>3. Underway'
  <2> SUFFICES ASSUME NEW w \in Statements, w = waiting', NEW i \in DOMAIN wire',
                      NEW r, r = wire'[i].reply
               PROVE  Told(RowsOf(w), results[w].ok, statement[w], sent[w], r)
    BY DEF Underway, ToldTo, RowsOf
  <2>1. waiting' = waiting /\ \E j \in DOMAIN wire : wire'[i] = wire[j] OBVIOUS
  <2> QED BY <2>1 DEF IInv, Underway, ToldTo
<1>4. ASSUME NEW s \in Statements PROVE Sound(s)'
  <2>1. Sound(s) /\ Onward(s) BY DEF IInv
  <2>2. calls'[s].state = "resolved" => ToldTo(s, calls'[s].reply)
    BY <2>1 DEF Sound, Onward, IInv, Underway
  <2>3. Linked(statement[s], calls'[s]) BY <2>1 DEF Sound, Linked, Onward
  <2>4. /\ Talk(Columns(s), results[s].ok, statement[s], message[s], reader[s], place[s].given)
        /\ Data(RowsOf(s), results[s].ok, statement[s], message[s], reader[s], place[s].given, sent[s])
    BY <2>1 DEF Sound
  <2> QED BY <2>2, <2>3, <2>4 DEF Sound, ToldTo, Columns, RowsOf
<1> QED BY <1>1, <1>2, <1>3, <1>4 DEF IInv

LEMMA TransportMoves ==
  ASSUME IInv, TransportStep
  PROVE  /\ \A c \in Callers : calls'[c].state = "rejected" => closed'
         /\ socket' # "up" => closed'
         /\ closed => closed'
         /\ request' # None => /\ ~closed' /\ waiting' = request'.by
                               /\ request'.body = calls'[waiting'].body
                               /\ request' = request \/ calls[request'.by].state = "queued"
         /\ \A c \in Callers : Onward(c)
         /\ \A i \in DOMAIN wire' : waiting' \in Statements =>
              waiting' = waiting /\ \E j \in DOMAIN wire : wire'[i] = wire[j]
<1>1. Inv BY DEF IInv
<1>2. Orderly BY DEF IInv
<1>3. wire # <<>> => request = None
  <2>1. request # None => waiting # None BY <1>1, <1>2 DEF Orderly, Inv, TransportTypeOK
  <2> QED BY <1>1, <2>1 DEF Inv, Exchange
<1>4. waiting # None => waiting \in Callers BY <1>1 DEF Inv, TransportTypeOK
<1>5. CASE Start
  <2>1. PICK c \in Callers :
           /\ calls[c].state = "queued" /\ waiting = None
           /\ calls'[c].body = calls[c].body /\ calls'[c].reply = calls[c].reply
           /\ \A d \in Callers : d # c => calls'[d] = calls[d]
           /\ IF closed THEN calls'[c].state = "rejected" /\ waiting' = None /\ request' = request
              ELSE /\ calls'[c].state = "waiting" /\ waiting' = c
                   /\ request' \in {request, Request(c, calls[c].number, calls[c].body)}
                   /\ wire = <<>> /\ request = None
           /\ UNCHANGED <<closed, socket, wire>>
    BY <1>1, <1>5, StartEffect
  <2>2. \A d \in Callers : Onward(d) BY <2>1 DEF Onward
  <2>3. \A i \in DOMAIN wire' : waiting' \notin Statements
    <3>1. None \notin Statements OBVIOUS
    <3> QED BY <2>1, <3>1
  <2> QED BY <1>2, <2>1, <2>2, <2>3 DEF Orderly, Request
<1>6. CASE Received
  <2>1. /\ UNCHANGED <<closed, socket, request>>
        /\ wire # <<>> /\ wire' = Tail(wire)
        /\ \/ UNCHANGED <<calls, waiting>>
           \/ /\ waiting \in Callers /\ waiting' = None /\ calls[waiting].state = "waiting"
              /\ calls'[waiting].state = "resolved" /\ calls'[waiting].reply = wire[1].reply
              /\ \A d \in Callers : d # waiting => calls'[d] = calls[d]
    BY <1>1, <1>6, ReceivedEffect
  <2>2. 1 \in DOMAIN wire /\ \A i \in DOMAIN wire' : \E j \in DOMAIN wire : wire'[i] = wire[j]
    BY <1>1, <2>1, HeadAndTail DEF Inv, TransportTypeOK
  <2>3. \A c \in Callers : Onward(c) BY <2>1, <2>2 DEF Onward
  <2>4. None \notin Statements OBVIOUS
  <2> QED BY <1>2, <1>3, <2>1, <2>2, <2>3, <2>4 DEF Orderly
<1>7. ASSUME Fail
      PROVE  /\ closed' /\ waiting' = None
             /\ \A c \in Callers : Onward(c) /\ (calls'[c].state = "rejected" => closed')
  BY <1>1, <1>7, FailEffect DEF Onward
<1>8. CASE Unreadable \/ Break \/ CloseEvent
  <2>1. Fail /\ request' = None
    BY <1>2, <1>3, <1>8 DEF Orderly, Unreadable, Break, CloseEvent
  <2>2. None \notin Statements OBVIOUS
  <2> QED BY <1>7, <2>1, <2>2
<1> QED BY <1>5, <1>6, <1>8 DEF TransportStep

LEMMA TransportStepInv == ASSUME IInv, TransportStep PROVE IInv'
<1>1. UNCHANGED <<autoCommit, results, message, place, sections, statement, reader, sent>>
  BY DEF TransportStep
<1>2. open' \subseteq open BY DEF TransportStep
<1>3. Inv'
  <2>1. Inv BY DEF IInv
  <2>2. Transport BY DEF TransportStep, Transport
  <2> QED BY <2>1, <2>2, NextInv DEF TransportNext
<1>4. Orderly'
  <2>1. Onward(Closer) /\ (calls[Closer].state \in {"queued", "waiting"} => calls[Closer].body = "rollback")
    BY TransportMoves DEF IInv, Orderly
  <2>2. calls'[Closer].state \in {"queued", "waiting"} => calls'[Closer].body = "rollback"
    BY <2>1 DEF Onward
  <2> QED BY <2>2, TransportMoves DEF Orderly
<1>5. Statements \subseteq Callers OBVIOUS
<1> QED BY <1>1, <1>2, <1>3, <1>4, <1>5, TransportMoves, ConnectionIsGood

LEMMA DisconnectInv ==
  ASSUME IInv, Disconnect, UNCHANGED reader
  PROVE  IInv'
<1>1. Closer \in Callers /\ Closer \notin Statements /\ "rollback" \in Bodies BY DEF Requests
<1>2. Inv /\ Orderly BY DEF IInv
<1>3. Send(Closer, "rollback") BY DEF Disconnect
<1>4. Inv' BY <1>1, <1>2, <1>3, SendInv
<1>5. /\ calls'[Closer].state = "queued" /\ calls'[Closer].body = "rollback" /\ waiting # Closer
      /\ \A d \in Callers : d # Closer => calls'[d] = calls[d]
      /\ UNCHANGED <<waiting, closed, socket, request, wire>>
  BY <1>1, <1>2, <1>3, SendEffect
<1>6. Orderly'
  <2>1. request # None => waiting \in Callers BY <1>2 DEF Orderly, Inv, TransportTypeOK
  <2> QED BY <1>2, <1>5, <2>1 DEF Orderly
<1>7. \A s \in Statements : Onward(s) BY <1>1, <1>5 DEF Onward
<1>8. \A i \in DOMAIN wire' : waiting' = waiting /\ \E j \in DOMAIN wire : wire'[i] = wire[j]
  BY <1>5
<1>9. open' \subseteq open BY DEF Disconnect
<1>10. UNCHANGED <<autoCommit, results, message, place, sections, statement, reader, sent>>
  BY DEF Disconnect
<1> QED BY <1>4, <1>6, <1>7, <1>8, <1>9, <1>10, ConnectionIsGood

LEMMA DisconnectedInv ==
  ASSUME IInv, Disconnected, UNCHANGED reader
  PROVE  IInv'
<1>1. Closer \in Callers /\ Closer \notin Statements OBVIOUS
<1>2. Inv /\ Orderly BY DEF IInv
<1>3. Settled(Closer) /\ Close /\ Forget(Closer) BY DEF Disconnected
<1>4. Inv' BY <1>1, <1>2, <1>3, CloseForgetInv
<1>5. calls'[Closer].state = "idle" /\ \A d \in Callers : d # Closer => calls'[d] = calls[d]
  BY <1>1, <1>2, <1>3 DEF Inv, TransportTypeOK, CallType, Forget, Unsent
<1>6. closed' /\ request' = None /\ wire' = <<>> BY <1>3 DEF Close
<1>7. Orderly' BY <1>2, <1>5, <1>6 DEF Orderly
<1>8. \A s \in Statements : Onward(s) BY <1>1, <1>5 DEF Onward
<1>9. open' \subseteq open BY DEF Disconnected
<1>10. UNCHANGED <<autoCommit, results, message, place, sections, statement, reader, sent>>
  BY DEF Disconnected
<1>11. \A i \in DOMAIN wire' : FALSE BY <1>6
<1> QED BY <1>4, <1>7, <1>8, <1>9, <1>10, <1>11, ConnectionIsGood

-------------------------------------------------------------------------------
(* The server says something to the caller that waits.                      *)
LEMMA ServeSays ==
  ASSUME IInv, NEW r, Serve(r)
  PROVE  /\ request # None /\ request' = None
         /\ waiting = request.by /\ waiting \in Callers /\ calls[waiting].state = "waiting"
         /\ calls[waiting].body = request.body
         /\ \A i \in DOMAIN wire' : wire'[i].reply = r
<1>1. Inv /\ Orderly BY DEF IInv
<1>2. request # None /\ request' = None BY DEF Serve
<1>3. waiting = request.by /\ waiting \in Callers /\ calls[waiting].body = request.body
  BY <1>1, <1>2 DEF Orderly, Inv, TransportTypeOK
<1>4. waiting # None /\ calls[waiting].state = "waiting" BY <1>1, <1>3 DEF Inv, Placed
<1>5. wire = <<>> BY <1>1, <1>2, <1>4 DEF Inv, Exchange
<1>6. \A i \in DOMAIN wire' : wire'[i].reply = r
  <2> DEFINE first == Piece(request, r, FALSE)
             final == Piece(request, r, TRUE)
  <2>1. first.reply = r /\ final.reply = r BY DEF Piece
  <2>2. wire' = wire \o <<final>> \/ wire' = wire \o <<first, final>> BY DEF Serve
  <2> HIDE DEF first, final
  <2>3. wire' = <<final>> \/ wire' = <<first, final>> BY <1>5, <2>2
  <2> QED BY <2>1, <2>3
<1> QED BY <1>2, <1>3, <1>4, <1>6

(* What it says fits the rows that it has sent by then.                     *)
LEMMA SaysIsGood ==
  ASSUME IInv, NEW r \in ReplyType, Serve(r),
         UNCHANGED <<calls, queue, waiting, closed, buffer, socket,
                     autoCommit, results, message, place, sections, statement, reader>>,
         open' \subseteq [section: Sections, of: Statements],
         NEW n \in Nat, UNCHANGED sent \/ sent' = [sent EXCEPT ![waiting] = n],
         ~UNCHANGED sent /\ waiting \in Statements =>
           /\ statement[waiting].at \in {"open", "continue"}
           /\ statement[waiting].received <= n /\ n <= 2 * RowsOf(waiting),
         waiting \in Statements =>
           Told(RowsOf(waiting), results[waiting].ok, statement[waiting], sent'[waiting], r)
  PROVE  IInv'
<1>1. /\ waiting \in Callers /\ calls[waiting].state = "waiting" /\ request' = None
      /\ \A i \in DOMAIN wire' : wire'[i].reply = r
  BY ServeSays
<1>6. Inv' /\ Orderly'
  <2>1. Inv /\ r \in Replies BY DEF IInv
  <2> QED BY <1>1, <2>1, ServeInv DEF IInv, Orderly
<1>2. Fields' BY DEF IInv, Fields
<1>3. Allocated' BY DEF IInv, Allocated, Keeps, Columns
<1>4. Underway' BY <1>1 DEF Underway, ToldTo, RowsOf
<1>5. ASSUME NEW s \in Statements PROVE Sound(s)'
  <2>1. /\ Talk(Columns(s), results[s].ok, statement[s], message[s], reader[s], place[s].given)
        /\ Data(RowsOf(s), results[s].ok, statement[s], message[s], reader[s], place[s].given, sent[s])
        /\ Linked(statement[s], calls[s])
        /\ calls[s].state = "resolved" => ToldTo(s, calls[s].reply)
    BY Standing
  <2>2. CASE sent'[s] = sent[s] BY <2>1, <2>2 DEF Sound, ToldTo, Columns, RowsOf
  <2>3. CASE sent'[s] # sent[s]
    <3>1. waiting = s /\ sent'[s] = n BY <2>3 DEF IInv, Fields
    <3>2. /\ statement[s].at \in {"open", "continue"}
          /\ statement[s].received <= n /\ n <= 2 * RowsOf(s)
      BY <2>3, <3>1
    <3>3. calls[s].state # "resolved" BY <1>1, <3>1
    <3>4. reader[s] # "starts" /\ (statement[s].at = "continue" => message[s].what # "open")
      BY <2>1, <3>2, CallsDiffer DEF Talk, Said, CallOf
    <3>5. Data(RowsOf(s), results[s].ok, statement[s], message[s], reader[s], place[s].given, n)
      BY <2>1, <3>2, <3>4 DEF Data
    <3> QED BY <2>1, <3>1, <3>3, <3>5 DEF Sound, Columns, RowsOf
  <2> QED BY <2>2, <2>3
<1> QED BY <1>2, <1>3, <1>4, <1>5, <1>6 DEF IInv

LEMMA ServerInv ==
  ASSUME IInv, ServerAnswers, UNCHANGED reader
  PROVE  IInv'
<1> DEFINE s == request.by
           body == request.body
           query == [section |-> statement[s].section, of |-> s]
<1>1. UNCHANGED <<calls, queue, waiting, closed, buffer, socket,
                  autoCommit, results, message, place, sections, statement, reader>>
  BY DEF ServerAnswers
<1>2. /\ request # None /\ waiting = s /\ s \in Callers /\ calls[s].state = "waiting"
      /\ calls[s].body = body
  <2>1. Inv /\ Orderly /\ request # None BY DEF IInv, ServerAnswers
  <2> QED BY <2>1 DEF Orderly, Inv, TransportTypeOK, Placed
<1>3. open \subseteq [section: Sections, of: Statements] BY DEF IInv, Fields
<1>4. ASSUME s \in Statements
      PROVE  /\ body = BodyOf(statement[s].at) /\ statement[s].at \in Places
             /\ statement[s].received \in Nat /\ sent[s] \in Nat /\ sent[s] <= 2 * RowsOf(s)
             /\ statement[s].received <= sent[s] /\ RowsOf(s) \in 0..MaxRows /\ Halves(s) = 2 * RowsOf(s)
             /\ body = "open" => statement[s].received = 0 /\ query \in [section: Sections, of: Statements]
  <2>1. /\ Talk(Columns(s), results[s].ok, statement[s], message[s], reader[s], place[s].given)
        /\ Data(RowsOf(s), results[s].ok, statement[s], message[s], reader[s], place[s].given, sent[s])
        /\ Linked(statement[s], calls[s])
        /\ RowsOf(s) \in 0..MaxRows /\ Halves(s) = 2 * RowsOf(s) /\ sections \subseteq Sections
    BY <1>4, Standing
  <2>2. body = BodyOf(statement[s].at) /\ statement[s] \in QueryType BY <1>2, <2>1 DEF Linked, Talk
  <2> HIDE DEF s, body, query
  <2>3. ASSUME body = "open"
        PROVE  statement[s].received = 0 /\ query \in [section: Sections, of: Statements]
    <3>1. statement[s].at = "open" BY <2>2, <2>3 DEF BodyOf
    <3>2. message[s] = Asking("open") BY <2>1, <3>1 DEF Talk, CallOf
    <3>3. statement[s].received = 0 BY <2>1, <3>2, CallsDiffer DEF Data
    <3>4. Keeps(s) BY <3>1 DEF Keeps, Keeping
    <3>5. statement[s].section \in Sections BY <1>4, <2>1, <3>4 DEF IInv, Allocated
    <3> QED BY <1>4, <3>3, <3>5 DEF query
  <2>4. statement[s].at \in Places /\ statement[s].received \in Nat BY <2>2 DEF QueryType
  <2> QED BY <2>1, <2>2, <2>3, <2>4 DEF Data
<1>5. \A kind \in {"done", "failure"} : Reply(kind) \in ReplyType /\ Reply(kind).kind = kind
  <2>1. 0 \in 0..2 * MaxRows OBVIOUS
  <2> QED BY <2>1 DEF Reply, ReplyType
(* A reply without rows.                                                    *)
<1>6. ASSUME NEW kind \in {"done", "failure"}, Serve(Reply(kind)), UNCHANGED sent,
             open' \subseteq [section: Sections, of: Statements],
             kind = "done" => body \notin {"open", "continue"}
                              /\ (body = "execute" /\ s \in Statements => results[s].ok)
      PROVE  IInv'
  <2> DEFINE r == Reply(kind)
  <2>1. r \in ReplyType /\ r.kind = kind BY <1>5
  <2> HIDE DEF r, s, body, query
  <2>2. s \in Statements => Told(RowsOf(s), results[s].ok, statement[s], sent'[s], r)
    BY <1>4, <1>6, <2>1 DEF Told, BodyOf
  <2>3. Serve(r) /\ 0 \in Nat BY <1>6 DEF r
  <2> QED BY <1>1, <1>2, <1>6, <2>1, <2>2, <2>3, SaysIsGood
(* A reply with rows.                                                       *)
<1>7. ASSUME s \in Statements, NEW label \in {"open", "continue"}, body = label, NEW atLeast \in Nat,
             label = "continue" => sent[s] <= atLeast,
             NEW r \in Blocks(s, label, atLeast), Serve(r),
             sent' = [sent EXCEPT ![s] = r.upto],
             open' \subseteq [section: Sections, of: Statements]
      PROVE  IInv'
  <2>1. /\ body = BodyOf(statement[s].at) /\ statement[s].at \in Places
        /\ statement[s].received \in Nat /\ sent[s] \in Nat
        /\ statement[s].received <= sent[s] /\ RowsOf(s) \in 0..MaxRows /\ Halves(s) = 2 * RowsOf(s)
        /\ body = "open" => statement[s].received = 0
    BY <1>4, <1>7
  <2> HIDE DEF s, body, query
  <2>2. /\ r.kind \in {"blocks", "undecodable"} /\ r.upto \in atLeast..Halves(s)
        /\ r.end \in BOOLEAN /\ r.ended \in BOOLEAN /\ r.error = ~results[s].ok
        /\ r \in [kind: {"blocks", "undecodable"}, upto: atLeast..Halves(s), end: BOOLEAN,
                  ended: BOOLEAN, error: {~results[s].ok}]
        /\ r.kind = "undecodable" => label \in Undecodable
        /\ r.end \/ r.ended => r.upto = Halves(s)
    BY DEF Blocks
  <2>3. statement[s].at = label BY <1>7, <2>1 DEF BodyOf, Places
  <2>4. r \in ReplyType
    <3>1. r.upto \in 0..2 * MaxRows BY <2>1, <2>2
    <3>2. results[s].ok \in BOOLEAN BY <1>7 DEF IInv, Fields, IsResult
    <3> QED BY <2>2, <3>1, <3>2 DEF ReplyType
  <2>5. r.upto \in Nat /\ statement[s].received <= r.upto /\ r.upto <= 2 * RowsOf(s)
    BY <1>7, <2>1, <2>2
  <2>6. sent'[s] = r.upto BY <1>7 DEF IInv, Fields
  <2>7. Told(RowsOf(s), results[s].ok, statement[s], sent'[s], r)
    BY <2>1, <2>2, <2>3, <2>4, <2>5, <2>6 DEF Told
  <2> QED BY <1>1, <1>2, <1>7, <2>3, <2>4, <2>5, <2>7, SaysIsGood
<1>8. ASSUME NEW label \in {"open", "continue"}, body = label, NEW atLeast \in Nat,
             label = "continue" => sent[s] <= atLeast,
             NEW more, more \subseteq [section: Sections, of: Statements],
             s \in Statements, SendsBlocks(s, label, atLeast, more)
      PROVE  IInv'
  <2> HIDE DEF s, body
  <2>1. PICK r \in Blocks(s, label, atLeast) :
          /\ Serve(r) /\ sent' = [sent EXCEPT ![s] = r.upto]
          /\ open' = IF r.ended THEN open \ {query} ELSE open \union more
    BY <1>8 DEF SendsBlocks
  <2>2. open' \subseteq [section: Sections, of: Statements] BY <1>3, <1>8, <2>1
  <2> QED BY <1>7, <1>8, <2>1, <2>2
<1>9. s \notin Statements => body = "rollback"
  <2>1. Orderly BY DEF IInv
  <2> QED BY <1>2, <2>1 DEF Orderly
<1>10. CASE s \notin Statements
  <2>1. Serve(Reply("done")) /\ open' = {} /\ UNCHANGED sent BY <1>9, <1>10 DEF ServerAnswers
  <2>2. open' \subseteq [section: Sections, of: Statements] BY <2>1
  <2>3. body \notin {"open", "continue", "execute"} BY <1>9, <1>10
  <2> HIDE DEF s, body, query
  <2> QED BY <1>6, <2>1, <2>2, <2>3
<1>11. CASE s \in Statements
  <2>1. \/ body \in {"prepare", "commit"} /\ (Agrees \/ Refuses)
        \/ body = "execute" /\ (IF results[s].ok THEN Agrees ELSE Refuses)
        \/ body = "open" /\ (SendsBlocks(s, "open", 0, {query}) \/ Refuses)
        \/ body = "continue" /\ SendsBlocks(s, "continue", IF sent[s] < Halves(s) THEN sent[s] + 1 ELSE Halves(s), {})
        \/ body \in {"continue", "close"} /\ Serve(Reply("failure")) /\ open' \subseteq open /\ UNCHANGED sent
        \/ body \in {"close", "rollback"} /\ Serve(Reply("done")) /\ open' \subseteq open /\ UNCHANGED sent
    BY DEF ServerAnswers, Refuses
  <2>2. CASE body = "open" /\ SendsBlocks(s, "open", 0, {query})
    <3>1. {query} \subseteq [section: Sections, of: Statements] BY <1>4, <1>11, <2>2
    <3>2. 0 \in Nat OBVIOUS
    <3> HIDE DEF s, body, query
    <3> QED BY <1>8, <1>11, <2>2, <3>1, <3>2
  <2>3. CASE body = "continue" /\ SendsBlocks(s, "continue", IF sent[s] < Halves(s) THEN sent[s] + 1 ELSE Halves(s), {})
    <3> DEFINE atLeast == IF sent[s] < Halves(s) THEN sent[s] + 1 ELSE Halves(s)
    <3>1. atLeast \in Nat /\ sent[s] <= atLeast
      <4>1. sent[s] \in Nat /\ sent[s] <= 2 * RowsOf(s) /\ RowsOf(s) \in Nat /\ Halves(s) = 2 * RowsOf(s)
        BY <1>4, <1>11
      <4> HIDE DEF s
      <4> QED BY <4>1
    <3>2. {} \subseteq [section: Sections, of: Statements] OBVIOUS
    <3> HIDE DEF s, body, query, atLeast
    <3> QED BY <1>8, <1>11, <2>3, <3>1, <3>2 DEF atLeast
  <2>4. CASE \/ body \in {"prepare", "commit"} /\ (Agrees \/ Refuses)
             \/ body = "execute" /\ (IF results[s].ok THEN Agrees ELSE Refuses)
             \/ body = "open" /\ Refuses
    BY <1>3, <1>6, <2>4 DEF Agrees, Refuses
  <2>5. CASE \/ body \in {"continue", "close"} /\ Serve(Reply("failure")) /\ open' \subseteq open /\ UNCHANGED sent
             \/ body \in {"close", "rollback"} /\ Serve(Reply("done")) /\ open' \subseteq open /\ UNCHANGED sent
    BY <1>3, <1>6, <2>5
  <2> HIDE DEF s, body, query
  <2> QED BY <2>1, <2>2, <2>3, <2>4, <2>5
<1> QED BY <1>10, <1>11

-------------------------------------------------------------------------------
LEMMA FreshIsSound ==
  ASSUME NEW cols, NEW ok, NEW rows \in Nat
  PROVE  /\ Talk(cols, ok, Fresh, Saying("none"), "starts", 0)
         /\ Data(rows, ok, Fresh, Saying("none"), "starts", 0, 0)
         /\ Linked(Fresh, Unsent) /\ ~Keeping(cols, Fresh, Saying("none"), "starts")
<1>1. Fresh \in QueryType
  <2>1. <<>> \in Seq([row: Nat, object: Nat]) /\ <<>> \in Seq(Nat) OBVIOUS
  <2> QED BY <2>1 DEF Fresh, QueryType, Places
<1>2. Talk(cols, ok, Fresh, Saying("none"), "starts", 0)
  BY <1>1, CallsDiffer DEF Talk, Said, Fresh
<1>3. Data(rows, ok, Fresh, Saying("none"), "starts", 0, 0)
  <2>1. 0 % 2 = 0 /\ 0 \div 2 = 0 /\ Len(<<>>) = 0 OBVIOUS
  <2>2. <<>> = [i \in 1..0 |-> [row |-> 0 + i, object |-> 0 + i]] OBVIOUS
  <2> QED BY <2>1, <2>2 DEF Data, Fresh
<1>4. Linked(Fresh, Unsent) /\ ~Keeping(cols, Fresh, Saying("none"), "starts")
  BY DEF Linked, Keeping, Fresh, Unsent
<1> QED BY <1>2, <1>3, <1>4

LEMMA InitIsGood == Init => IInv
<1> SUFFICES ASSUME Init PROVE IInv OBVIOUS
<1>1. Inv BY InitInv DEF Init
<1>2. PICK case \in Cases : autoCommit = case.autoCommit /\ results = case.results BY DEF Init
<1>3. autoCommit \in BOOLEAN /\ \A s \in Statements : IsResult(results[s])
  <2>1. case \in [autoCommit: BOOLEAN,
                  results: [Statements -> [sets: {<<[columns |-> FALSE, rows |-> 0]>>}
                                                   \union {<<[columns |-> TRUE, rows |-> n]>> : n \in 0..MaxRows},
                                           ok: BOOLEAN, reliable: {FALSE}]]]
    OBVIOUS
  <2>2. ASSUME NEW s \in Statements PROVE IsResult(results[s])
    <3> DEFINE Sets == {<<[columns |-> FALSE, rows |-> 0]>>}
                         \union {<<[columns |-> TRUE, rows |-> n]>> : n \in 0..MaxRows}
               r == results[s]
    <3>1. results \in [Statements -> [sets: Sets, ok: BOOLEAN, reliable: {FALSE}]] BY <1>2, <2>1
    <3>2. r \in [sets: Sets, ok: BOOLEAN, reliable: {FALSE}] BY <3>1
    <3>3. PICK cols \in BOOLEAN, n \in 0..MaxRows :
            r.sets = <<[columns |-> cols, rows |-> n]>> /\ (~cols => n = 0)
      <4>1. r.sets \in Sets BY <3>2
      <4>2. 0 \in 0..MaxRows OBVIOUS
      <4> HIDE DEF r
      <4> QED BY <4>1, <4>2
    <3>4. r.ok \in BOOLEAN /\ r.reliable = FALSE BY <3>2
    <3> HIDE DEF r
    <3>5. r.sets[1].columns = cols /\ r.sets[1].rows = n /\ Len(r.sets) = 1 BY <3>3
    <3>6. IsResult(r) BY <3>3, <3>4, <3>5 DEF IsResult
    <3> QED BY <3>6 DEF r
  <2> QED BY <1>2, <2>1, <2>2
<1>4. /\ \A s \in Statements : message[s] = Saying("none") /\ statement[s] = Fresh /\ reader[s] = "starts"
                               /\ place[s].given = 0 /\ sent[s] = 0 /\ calls[s] = Unsent
      /\ DOMAIN message = Statements /\ DOMAIN statement = Statements
      /\ DOMAIN reader = Statements /\ DOMAIN sent = Statements
      /\ place \in [Statements -> [set: {1}, given: Nat]]
  <2>1. \A s \in Statements : Calls(s)!Answer("none") = Saying("none") BY CallNames
  <2>2. Statements \subseteq Callers OBVIOUS
  <2> QED BY <2>1, <2>2 DEF Init, TransportInit
<1>5. sections = {} /\ open = {} /\ waiting = None /\ request = None /\ ~closed /\ socket = "up"
      /\ \A c \in Callers : calls[c].state = "idle"
  BY DEF Init, TransportInit, Unsent
<1>6. Fields BY <1>3, <1>4, <1>5 DEF Fields
<1>7. \A s \in Statements : RowsOf(s) \in Nat BY <1>3 DEF IsResult, RowsOf
<1>8. \A s \in Statements : Sound(s) /\ ~Keeps(s)
  <2> SUFFICES ASSUME NEW s \in Statements PROVE Sound(s) /\ ~Keeps(s) OBVIOUS
  <2>1. /\ message[s] = Saying("none") /\ statement[s] = Fresh /\ reader[s] = "starts"
        /\ place[s].given = 0 /\ sent[s] = 0 /\ calls[s] = Unsent
    BY <1>4
  <2>2. /\ Talk(Columns(s), results[s].ok, Fresh, Saying("none"), "starts", 0)
        /\ Data(RowsOf(s), results[s].ok, Fresh, Saying("none"), "starts", 0, 0)
        /\ Linked(Fresh, Unsent) /\ ~Keeping(Columns(s), Fresh, Saying("none"), "starts")
    BY <1>7, FreshIsSound
  <2>3. Unsent.state = "idle" BY DEF Unsent
  <2> QED BY <2>1, <2>2, <2>3 DEF Sound, Keeps
<1>9. None \notin Statements /\ Closer \in Callers OBVIOUS
<1> QED BY <1>1, <1>5, <1>6, <1>8, <1>9 DEF IInv, Orderly, Underway, Allocated

LEMMA NextIsGood == ASSUME IInv, [Next]_vars PROVE IInv'
<1>1. CASE TransportStep BY <1>1, TransportStepInv
<1>2. CASE ServerAnswers /\ UNCHANGED reader BY <1>2, ServerInv
<1>3. ASSUME NEW s \in Statements, Reads(s) \/ (Runs(s) /\ UNCHANGED reader) PROVE IInv'
  BY <1>3, StatementInv
<1>4. CASE (Disconnect \/ Disconnected) /\ UNCHANGED reader BY <1>4, DisconnectInv, DisconnectedInv
<1>5. CASE UNCHANGED vars
  <2>1. UNCHANGED transportVars /\ UNCHANGED <<autoCommit, results, message, place, sections, statement, reader, open, sent>>
    BY <1>5 DEF vars
  <2>2. Inv' BY <2>1, NextInv DEF IInv
  <2>3. UNCHANGED <<calls, waiting, closed, socket, request, wire>> BY <2>1 DEF transportVars
  <2>4. Orderly' BY <2>3 DEF IInv, Orderly
  <2>5. \A s \in Statements : Onward(s) BY <2>3 DEF Onward
  <2> QED BY <2>1, <2>2, <2>3, <2>4, <2>5, ConnectionIsGood
<1> QED BY <1>1, <1>2, <1>3, <1>4, <1>5 DEF Next

(* The inductive invariant of the connection and its statements.            *)
THEOREM ConnectionSound == Spec => []IInv
<1> QED BY InitIsGood, NextIsGood, PTL DEF Spec

LEMMA GoodIsTyped == IInv => TypeOK
<1> SUFFICES ASSUME IInv PROVE TypeOK OBVIOUS
<1>1. TransportTypeOK /\ sections \subseteq Sections /\ open \subseteq [section: Sections, of: Statements]
  BY DEF IInv, Inv, Fields
<1>2. ASSUME NEW s \in Statements
      PROVE  /\ place[s] \in [set: {1}, given: 0..MaxRows]
             /\ statement[s].at \in Places /\ statement[s].section \in Sections \union {0}
             /\ statement[s].pending \in {0, 1} /\ Len(statement[s].rows) <= MaxRows
             /\ sent[s] \in 0..Halves(s)
  <2>1. /\ Talk(Columns(s), results[s].ok, statement[s], message[s], reader[s], place[s].given)
        /\ Data(RowsOf(s), results[s].ok, statement[s], message[s], reader[s], place[s].given, sent[s])
        /\ RowsOf(s) \in 0..MaxRows /\ Halves(s) = 2 * RowsOf(s)
    BY Standing
  <2>2. statement[s] \in QueryType /\ place[s] \in [set: {1}, given: Nat]
    BY <2>1 DEF Talk, IInv, Fields
  <2>3. /\ place[s].given + Len(statement[s].rows) = statement[s].received \div 2
        /\ sent[s] \in Nat /\ sent[s] <= 2 * RowsOf(s) /\ statement[s].received <= sent[s]
    BY <2>1 DEF Data
  <2>4. statement[s].received \in Nat /\ Len(statement[s].rows) \in Nat /\ place[s].given \in Nat
    BY <2>2 DEF QueryType
  <2>5. 2 * (statement[s].received \div 2) <= statement[s].received /\ statement[s].received \div 2 \in Nat
    BY <2>4, HalvesOfRows
  <2>6. place[s].given <= MaxRows /\ Len(statement[s].rows) <= MaxRows
    <3>1. \A a, b, h, r, n, m \in Nat : a + b = h /\ 2 * h <= r /\ r <= n /\ n <= 2 * m /\ m <= MaxRows
                                          => a <= MaxRows /\ b <= MaxRows
      OBVIOUS
    <3> DEFINE a == place[s].given
               b == Len(statement[s].rows)
               r == statement[s].received
               h == r \div 2
    <3>2. a \in Nat /\ b \in Nat /\ h \in Nat /\ r \in Nat /\ sent[s] \in Nat /\ RowsOf(s) \in Nat
      BY <2>1, <2>3, <2>4, <2>5
    <3>3. a + b = h /\ 2 * h <= r /\ r <= sent[s] /\ sent[s] <= 2 * RowsOf(s) /\ RowsOf(s) <= MaxRows
      BY <2>1, <2>3, <2>5
    <3> HIDE DEF a, b, r, h
    <3>4. a <= MaxRows /\ b <= MaxRows BY ONLY <3>1, <3>2, <3>3
    <3> QED BY <3>4 DEF a, b
  <2> QED BY <2>1, <2>2, <2>3, <2>4, <2>6, SMTT(30) DEF QueryType
<1> QED BY <1>1, <1>2 DEF TypeOK

(* Every variable of the connection keeps its type.                         *)
THEOREM ConnectionTypeCorrect == Spec => []TypeOK
BY ConnectionSound, GoodIsTyped, PTL

(* send() of DrdaTransport.js on a whole connection: a statement, or the    *)
(* one who closes, is only ever given the whole reply to its own request.   *)
THEOREM ConnectionRepliesAreOwn == Spec => []OwnReply
<1>1. IInv => OwnReply BY DEF IInv, Inv
<1> QED BY <1>1, ConnectionSound, PTL

(* One request is in flight, however the statements take turns.             *)
THEOREM ConnectionOneInFlight == Spec => []OneInFlight
<1>1. IInv => OneInFlight BY DEF IInv, Inv, Placed, OneInFlight
<1> QED BY <1>1, ConnectionSound, PTL

(* #takeSection and #releaseSection of DrdaDatabaseConnection: when every   *)
(* statement is over no section of the package is held, whatever failed,    *)
(* and whoever closed the connection meanwhile.                             *)
THEOREM NoSectionIsLost == Spec => []SectionsReleased
<1>1. ASSUME IInv, NEW s \in Statements, Over(s) PROVE ~Keeps(s)
  <2>1. Talk(Columns(s), results[s].ok, statement[s], message[s], reader[s], place[s].given)
    BY <1>1, Standing
  <2>2. statement[s].at = "idle" BY <1>1, <2>1, CallsDiffer DEF Talk, Over
  <2> QED BY <1>1, <2>2 DEF Keeps, Keeping, Over
<1>2. IInv => SectionsReleased BY <1>1 DEF IInv, Allocated, SectionsReleased
<1> QED BY <1>2, ConnectionSound, PTL

-------------------------------------------------------------------------------
(* The server has a query open only in the section of the statement that it *)
(* is of, as long as requests can be sent: what it tells of the end of a    *)
(* query comes before the section is released.                              *)
IsOpen(s) == \E q \in open : q.of = s

(* The server has closed the query of the statement that gets this reply.   *)
Shut(at, r) ==
  \/ at = "close"
  \/ at = "open" /\ (r.kind = "failure" \/ r.ended)
  \/ at = "continue" /\ r.ended

OpensOf(s) ==
  /\ statement[s].closedByServer /\ statement[s].at # "close" => ~IsOpen(s)
  /\ statement[s].at = "open" /\ (calls[s].state = "queued" \/ (request # None /\ request.by = s)) => ~IsOpen(s)
  /\ calls[s].state = "resolved" /\ Shut(statement[s].at, calls[s].reply) => ~IsOpen(s)
  /\ waiting = s => \A i \in DOMAIN wire : Shut(statement[s].at, wire[i].reply) => ~IsOpen(s)

Opens ==
  /\ \A q \in open : /\ Keeps(q.of) /\ statement[q.of].section = q.section
                     /\ statement[q.of].at \in {"idle", "open", "continue", "close"}
  /\ \A s \in Statements : OpensOf(s)

(* What a statement may do while its query is open.                         *)
Harmless(s) ==
  IsOpen(s) =>
    /\ UNCHANGED sections /\ statement'[s].at \in {"idle", "continue", "close"}
    /\ statement'[s].closedByServer => statement'[s].at = "close"

LEMMA StepKeepsOpens ==
  ASSUME IInv, Opens, NEW s \in Statements, StepOf(s), Sits(s) \/ Takes(s) \/ Leaves(s),
         Harmless(s)
  PROVE  Opens'
<1>1. UNCHANGED open /\ UNCHANGED request /\ UNCHANGED waiting /\ UNCHANGED wire /\ waiting # s
  BY DEF StepOf
<1>2. \A t \in Statements : t # s =>
        (Keeps(t)' <=> Keeps(t)) /\ statement'[t] = statement[t] /\ calls'[t] = calls[t]
  BY OthersKeep DEF StepOf
<1>3. open \subseteq [section: Sections, of: Statements] BY DEF IInv, Fields
<1>4. ASSUME IsOpen(s) PROVE Keeps(s)' /\ statement'[s].section = statement[s].section
  <2>1. UNCHANGED sections BY <1>4 DEF Harmless
  <2>2. Keeps(s) BY <1>4 DEF Opens, IsOpen
  <2>3. statement[s].section \in sections BY <2>2 DEF IInv, Allocated
  <2> QED BY <2>1, <2>2, <2>3 DEF Sits, Takes, Leaves
<1> HIDE DEF Keeps
<1>5. ASSUME NEW q \in open
      PROVE  /\ Keeps(q.of)' /\ statement'[q.of].section = q.section
             /\ statement'[q.of].at \in {"idle", "open", "continue", "close"}
  <2>1. q.of \in Statements BY <1>3
  <2>2. /\ Keeps(q.of) /\ statement[q.of].section = q.section
        /\ statement[q.of].at \in {"idle", "open", "continue", "close"}
    BY DEF Opens
  <2>3. CASE q.of = s
    <3>1. IsOpen(s) BY <2>3 DEF IsOpen
    <3>2. Keeps(s)' /\ statement'[s].section = statement[s].section /\ statement'[s].at \in {"idle", "continue", "close"}
      BY <1>4, <3>1 DEF Harmless
    <3> QED BY <2>2, <2>3, <3>2
  <2>4. CASE q.of # s BY <1>2, <2>1, <2>2, <2>4
  <2> QED BY <2>3, <2>4
<1>6. ASSUME NEW t \in Statements PROVE OpensOf(t)'
  <2>1. OpensOf(t) BY DEF Opens
  <2>2. IsOpen(t)' <=> IsOpen(t) BY <1>1 DEF IsOpen
  <2>3. CASE t # s BY <1>1, <1>2, <2>1, <2>2, <2>3 DEF OpensOf
  <2>4. CASE t = s
    <3>1. calls'[s].state \in {"idle", "queued"} BY DEF StepOf
    <3> QED BY <1>1, <2>2, <2>4, <3>1 DEF OpensOf, Harmless
  <2> QED BY <2>3, <2>4
<1> QED BY <1>1, <1>5, <1>6 DEF Opens

LEMMA Unshut ==
  ASSUME IInv, Opens, ~closed, NEW s \in Statements, IsOpen(s)
  PROVE  /\ Keeps(s) /\ statement[s].at \in {"idle", "open", "continue", "close"}
         /\ statement[s].closedByServer => statement[s].at = "close"
         /\ Settled(s) => calls[s].state = "resolved" /\ ~Shut(statement[s].at, calls[s].reply)
<1>1. OpensOf(s) BY DEF Opens
<1>2. calls[s].state # "rejected" BY DEF IInv, Orderly
<1> QED BY <1>1, <1>2 DEF Opens, IsOpen, OpensOf, Settled

LEMMA StatementIsHarmless ==
  ASSUME "open" \notin Undecodable, IInv, Opens, ~closed, NEW s \in Statements,
         Reads(s) \/ (Runs(s) /\ UNCHANGED reader)
  PROVE  Harmless(s)
<1> SUFFICES ASSUME IsOpen(s)
             PROVE  /\ UNCHANGED sections /\ statement'[s].at \in {"idle", "continue", "close"}
                    /\ statement'[s].closedByServer => statement'[s].at = "close"
  BY DEF Harmless
<1> DEFINE q == statement[s]
<1>1. /\ Keeps(s) /\ q.at \in {"idle", "open", "continue", "close"}
      /\ q.closedByServer => q.at = "close"
      /\ Settled(s) => calls[s].state = "resolved" /\ ~Shut(q.at, calls[s].reply)
  BY Unshut
<1>2. Talk(Columns(s), results[s].ok, q, message[s], reader[s], place[s].given) BY Standing
<1>3. q \in QueryType /\ q.closedByServer \in BOOLEAN BY <1>2 DEF Talk, QueryType
<1>4. \A label, body : Sends(s, body, label) \/ Goes(s, label) =>
         statement'[s].at = label /\ statement'[s].closedByServer = q.closedByServer
  <2>1. DOMAIN statement = Statements BY DEF IInv, Fields
  <2>2. \A label : [q EXCEPT !.at = label].at = label
                   /\ [q EXCEPT !.at = label].closedByServer = q.closedByServer
    BY <1>3 DEF QueryType
  <2> QED BY <2>1, <2>2 DEF Sends, Goes
<1>5. CASE Reads(s)
  <2>1. message[s].to = "runner" /\ UNCHANGED <<statement, sections>> BY <1>5 DEF Reads
  <2>2. q.at = "idle" BY <1>2, <2>1, CallsDiffer DEF Talk
  <2> QED BY <1>1, <2>1, <2>2
<1>6. CASE Execute(s)
  <2>1. message[s] = Asking("open") /\ q.at = "idle" BY <1>6, CallNames DEF Execute, At
  <2>2. reader[s] = "opens" BY <1>2, <2>1, CallsDiffer DEF Talk, Said
  <2> QED BY <1>1, <2>1, <2>2, CallsDiffer DEF Keeps, Keeping
<1>7. CASE Prepared(s) \/ Executed(s) \/ RunCommitted(s)
  BY <1>1, <1>7 DEF Prepared, Executed, RunCommitted, Got, At
<1>8. CASE Opened(s)
  <2>1. Got(s, "open") /\ q.at = "open" BY <1>8 DEF Opened, Got, At
  <2>2. calls[s].state = "resolved" /\ ~Shut("open", calls[s].reply) /\ Settled(s)
    BY <1>1, <2>1 DEF Got
  <2>3. ~Failed(s) /\ ~calls[s].reply.ended BY <2>2 DEF Shut, Failed
  <2>4. calls[s].reply.kind # "undecodable"
    <3>1. ToldTo(s, calls[s].reply) BY <2>2, Standing
    <3> QED BY <2>1, <3>1 DEF ToldTo, Told
  <2> DEFINE p == [Receive(statement[s], calls[s].reply) EXCEPT !.at = "idle"]
  <2>5. p.at = "idle" /\ p.closedByServer = (q.closedByServer \/ calls[s].reply.ended)
    BY <2>1, <2>3, <2>4, RowsArrive
  <2>6. statement' = [statement EXCEPT ![s] = p] /\ UNCHANGED sections
    BY <1>8, <2>3, <2>4 DEF Opened
  <2> HIDE DEF p
  <2>7. statement'[s] = p BY <2>6 DEF IInv, Fields
  <2> QED BY <1>1, <2>1, <2>3, <2>5, <2>6, <2>7
<1>9. CASE NextRow(s)
  <2>1. q.at = "idle" /\ UNCHANGED sections BY <1>9 DEF NextRow, At
  <2>2. /\ statement'[s].at \in {"idle", "continue"}
        /\ statement'[s].closedByServer = q.closedByServer
    <3>1. CASE statement' = [statement EXCEPT ![s].rows = Tail(@)]
      <4>1. statement'[s] = [q EXCEPT !.rows = Tail(@)] BY <3>1 DEF IInv, Fields
      <4> QED BY <1>3, <2>1, <4>1 DEF QueryType
    <3>2. CASE UNCHANGED statement BY <2>1, <3>2
    <3>3. CASE Sends(s, "continue", "continue") BY <1>4, <3>3
    <3> QED BY <1>9, <3>1, <3>2, <3>3 DEF NextRow
  <2> QED BY <1>1, <2>1, <2>2
<1>10. CASE Continued(s)
  <2>1. Got(s, "continue") /\ q.at = "continue" /\ UNCHANGED sections BY <1>10 DEF Continued, Got, At
  <2>2. ~Shut("continue", calls[s].reply) BY <1>1, <2>1 DEF Got
  <2>3. ~calls[s].reply.ended BY <2>2 DEF Shut
  <2>4. CASE Failed(s) \/ calls[s].reply.kind = "undecodable"
    <3>1. Goes(s, "idle") BY <1>10, <2>4 DEF Continued
    <3> QED BY <1>1, <1>4, <2>1, <3>1
  <2>5. CASE ~(Failed(s) \/ calls[s].reply.kind = "undecodable")
    <3> DEFINE p == [Receive(statement[s], calls[s].reply) EXCEPT !.at = "idle"]
    <3>1. p.at = "idle" /\ p.closedByServer = (q.closedByServer \/ calls[s].reply.ended)
      BY <2>1, <2>5, RowsArrive
    <3>2. statement' = [statement EXCEPT ![s] = p] BY <1>10, <2>5 DEF Continued
    <3> HIDE DEF p
    <3>3. statement'[s] = p BY <3>2 DEF IInv, Fields
    <3> QED BY <1>1, <2>1, <2>3, <3>1, <3>3
  <2> QED BY <2>4, <2>5
<1>11. CASE Close_(s)
  <2>1. q.at = "idle" BY <1>11 DEF Close_, At
  <2>2. ~q.closedByServer BY <1>1, <2>1
  <2>3. CASE ~Columns(s) BY <1>1, <1>11, <2>1, <2>3 DEF Close_
  <2>4. CASE Columns(s)
    <3>1. /\ statement' = [statement EXCEPT ![s].closedByServer = TRUE, ![s].at = "close"]
          /\ UNCHANGED sections
      BY <1>11, <2>2, <2>4 DEF Close_
    <3>2. statement'[s].at = "close" BY <1>3, <3>1 DEF IInv, Fields, QueryType
    <3> QED BY <3>1, <3>2
  <2> QED BY <2>3, <2>4
<1>12. CASE QueryClosed(s)
  <2>1. q.at = "close" /\ Settled(s) BY <1>12 DEF QueryClosed, Got, At
  <2> QED BY <1>1, <2>1 DEF Shut
<1>13. CASE CloseCommitted(s)
  BY <1>1, <1>13 DEF CloseCommitted, Got, At
<1> QED BY <1>5, <1>6, <1>7, <1>8, <1>9, <1>10, <1>11, <1>12, <1>13 DEF Runs

(* A step that leaves the statements where they are, and opens nothing.     *)
LEMMA OpensStays ==
  ASSUME IInv, Opens, open' \subseteq open, UNCHANGED <<results, message, statement, reader>>,
         \A s \in Statements : Onward(s),
         request' # None => request' = request \/ calls[request'.by].state = "queued",
         \A i \in DOMAIN wire' : waiting' \in Statements =>
           waiting' = waiting /\ \E j \in DOMAIN wire : wire'[i] = wire[j]
  PROVE  Opens'
<1>1. \A s : IsOpen(s)' => IsOpen(s) BY DEF IsOpen
<1>2. \A q \in open' : /\ Keeps(q.of)' /\ statement'[q.of].section = q.section
                       /\ statement'[q.of].at \in {"idle", "open", "continue", "close"}
  BY DEF Opens, Keeps, Columns
<1>3. ASSUME NEW s \in Statements, IsOpen(s)' PROVE OpensOf(s)'
  <2>1. OpensOf(s) /\ IsOpen(s) /\ Onward(s) BY <1>1, <1>3 DEF Opens
  <2>2. ~(statement[s].closedByServer /\ statement[s].at # "close") BY <2>1 DEF OpensOf
  <2>3. ~(statement[s].at = "open" /\ (calls'[s].state = "queued" \/ (request' # None /\ request'.by = s)))
    BY <2>1 DEF OpensOf, Onward
  <2>4. waiting' = s => \A i \in DOMAIN wire' : ~Shut(statement[s].at, wire'[i].reply)
    BY <2>1 DEF OpensOf
  <2>5. ~(calls'[s].state = "resolved" /\ Shut(statement[s].at, calls'[s].reply))
    BY <2>1 DEF OpensOf, Onward
  <2> QED BY <2>2, <2>3, <2>4, <2>5 DEF OpensOf
<1>4. ASSUME NEW s \in Statements, ~IsOpen(s)' PROVE OpensOf(s)' BY <1>4 DEF OpensOf
<1> QED BY <1>2, <1>3, <1>4 DEF Opens

(* The server answers, and may open or close the query that it is asked of. *)
LEMMA ServerOpens ==
  ASSUME IInv, Opens, ServerAnswers, UNCHANGED reader, NEW s, s = request.by
  PROVE  Opens'
<1> DEFINE body == request.body
           query == [section |-> statement[s].section, of |-> s]
<1>1. UNCHANGED <<calls, queue, waiting, closed, buffer, socket,
                  autoCommit, results, message, place, sections, statement, reader>>
  BY DEF ServerAnswers
<1>2. /\ request # None /\ waiting = s /\ s \in Callers /\ calls[s].state = "waiting"
      /\ calls[s].body = body
  <2>1. Inv /\ Orderly /\ request # None BY DEF IInv, ServerAnswers
  <2> QED BY <2>1 DEF Orderly, Inv, TransportTypeOK, Placed
<1>3. open \subseteq [section: Sections, of: Statements] BY DEF IInv, Fields
<1>4. CASE s \notin Statements
  <2>1. Orderly BY DEF IInv
  <2>2. body = "rollback" BY <1>2, <1>4, <2>1 DEF Orderly
  <2>3. open' = {} /\ Serve(Reply("done")) BY <2>2, <1>4 DEF ServerAnswers
  <2>4. request' = None BY <2>3 DEF Serve
  <2>5. \A t \in Statements : Onward(t) BY <1>1 DEF Onward
  <2>6. waiting' \notin Statements BY <1>1, <1>2, <1>4
  <2> QED BY <1>1, <2>3, <2>4, <2>5, <2>6, OpensStays
<1>5. ASSUME s \in Statements
      PROVE  /\ body = BodyOf(statement[s].at) /\ statement[s].at \in Places /\ OpensOf(s)
             /\ \A q \in open : q.of = s => q = query
             /\ body = "open" => statement[s].at = "open" /\ ~IsOpen(s) /\ ~statement[s].closedByServer
  <2> HIDE DEF body
  <2>1. /\ Talk(Columns(s), results[s].ok, statement[s], message[s], reader[s], place[s].given)
        /\ Data(RowsOf(s), results[s].ok, statement[s], message[s], reader[s], place[s].given, sent[s])
        /\ Linked(statement[s], calls[s])
    BY <1>5, Standing
  <2>2. body = BodyOf(statement[s].at) /\ statement[s].at \in Places
    BY <1>2, <2>1 DEF Linked, Talk, QueryType
  <2>3. OpensOf(s) BY <1>5 DEF Opens
  <2>4. \A q \in open : q.of = s => q = query BY <1>3 DEF Opens
  <2>5. body = "open" => statement[s].at = "open" BY <2>2 DEF BodyOf
  <2>6. statement[s].at = "open" => message[s].what = "open" BY <2>1, CallsDiffer DEF Talk, CallOf
  <2>7. statement[s].at = "open" => ~statement[s].closedByServer BY <2>1, <2>6 DEF Data
  <2>8. statement[s].at = "open" => ~IsOpen(s) BY <1>2, <2>3 DEF OpensOf
  <2> QED BY <2>2, <2>3, <2>4, <2>5, <2>7, <2>8
<1>6. ASSUME s \in Statements, NEW r, Serve(r),
             open' \subseteq open \/ (body = "open" /\ open' \subseteq open \union {query}),
             IsOpen(s)' => ~Shut(statement[s].at, r)
      PROVE  Opens'
  <2>1. request' = None /\ \A i \in DOMAIN wire' : wire'[i].reply = r BY <1>6, ServeSays
  <2>2. query.of = s /\ query.section = statement[s].section OBVIOUS
  <2> HIDE DEF body, query
  <2>3. ASSUME NEW q \in open'
        PROVE  /\ Keeps(q.of) /\ statement[q.of].section = q.section
               /\ statement[q.of].at \in {"idle", "open", "continue", "close"}
    <3>1. CASE q \in open BY <3>1 DEF Opens
    <3>2. CASE q = query /\ body = "open"
      <4>1. statement[s].at = "open" BY <1>5, <1>6, <3>2
      <4>2. Keeps(s) BY <4>1 DEF Keeps, Keeping
      <4> QED BY <2>2, <3>2, <4>1, <4>2
    <3> QED BY <1>6, <3>1, <3>2
  <2>4. \A t \in Statements : Keeps(t)' <=> Keeps(t) BY <1>1 DEF Keeps, Columns
  <2>5. ASSUME NEW t \in Statements, IsOpen(t)' PROVE OpensOf(t)'
    <3>1. CASE t # s
      <4>1. IsOpen(t) BY <1>6, <2>2, <2>5, <3>1 DEF IsOpen
      <4>2. OpensOf(t) BY DEF Opens
      <4> QED BY <1>1, <1>2, <2>1, <3>1, <4>1, <4>2 DEF OpensOf
    <3>2. CASE t = s
      <4>1. ~statement[s].closedByServer \/ statement[s].at = "close"
        <5>1. CASE body = "open" BY <1>5, <1>6, <5>1
        <5>2. CASE body # "open"
          <6>1. IsOpen(s) BY <1>6, <2>5, <3>2, <5>2 DEF IsOpen
          <6> QED BY <1>5, <1>6, <6>1 DEF OpensOf
        <5> QED BY <5>1, <5>2
      <4>2. ~Shut(statement[s].at, r) BY <1>6, <2>5, <3>2
      <4> QED BY <1>1, <1>2, <2>1, <3>2, <4>1, <4>2 DEF OpensOf
    <3> QED BY <3>1, <3>2
  <2>6. ASSUME NEW t \in Statements, ~IsOpen(t)' PROVE OpensOf(t)' BY <2>6 DEF OpensOf
  <2>7. \A q \in open' : q.of \in Statements
    BY <1>3, <1>6, <2>2
  <2> QED BY <1>1, <2>3, <2>4, <2>5, <2>6, <2>7 DEF Opens
<1>7. CASE s \in Statements
  <2>1. ASSUME NEW label, body = label, label \in {"open", "continue"}, NEW atLeast,
               SendsBlocks(s, label, atLeast, IF label = "open" THEN {query} ELSE {})
        PROVE  Opens'
    <3>1. PICK r \in Blocks(s, label, atLeast) :
            /\ Serve(r)
            /\ open' = IF r.ended THEN open \ {query} ELSE open \union (IF label = "open" THEN {query} ELSE {})
      BY <2>1 DEF SendsBlocks
    <3>2. r.kind # "failure" /\ statement[s].at = label
      BY <1>5, <1>7, <2>1 DEF Blocks, BodyOf, Places
    <3>3. r.ended => ~IsOpen(s)' BY <1>5, <1>7, <3>1 DEF IsOpen
    <3>4. IsOpen(s)' => ~Shut(statement[s].at, r) BY <2>1, <3>2, <3>3 DEF Shut
    <3>5. open' \subseteq open \/ (body = "open" /\ open' \subseteq open \union {query})
      BY <2>1, <3>1
    <3> HIDE DEF body, query
    <3> QED BY <1>6, <1>7, <3>1, <3>4, <3>5
  <2>2. ASSUME NEW r, Serve(r), open' \subseteq open, IsOpen(s)' => ~Shut(statement[s].at, r) PROVE Opens'
    BY <1>6, <1>7, <2>2
  <2>3. \A kind : ~Reply(kind).ended BY DEF Reply
  <2>4. CASE body \in {"prepare", "execute", "commit"}
    <3>1. PICK r : Serve(r) /\ open' = open
      BY <2>4 DEF ServerAnswers, Agrees, Refuses
    <3>2. ~Shut(statement[s].at, r) BY <1>5, <1>7, <2>4 DEF Shut, BodyOf
    <3> QED BY <2>2, <3>1, <3>2
  <2>5. CASE body = "open"
    <3>1. SendsBlocks(s, "open", 0, {query}) \/ Refuses BY <2>5 DEF ServerAnswers
    <3>2. CASE SendsBlocks(s, "open", 0, {query}) BY <2>1, <2>5, <3>2
    <3>3. CASE Refuses
      <4>1. Serve(Reply("failure")) /\ open' = open BY <3>3 DEF Refuses
      <4>2. ~IsOpen(s)' BY <1>5, <1>7, <2>5, <4>1 DEF IsOpen
      <4> QED BY <2>2, <4>1, <4>2
    <3> QED BY <3>1, <3>2, <3>3
  <2>6. CASE body = "continue"
    <3> DEFINE atLeast == IF sent[s] < Halves(s) THEN sent[s] + 1 ELSE Halves(s)
    <3>1. SendsBlocks(s, "continue", atLeast, {})
          \/ (Serve(Reply("failure")) /\ open' \subseteq open)
      BY <2>6 DEF ServerAnswers, Refuses
    <3>2. statement[s].at = "continue" BY <1>5, <1>7, <2>6 DEF BodyOf, Places
    <3>3. CASE SendsBlocks(s, "continue", atLeast, {}) BY <2>1, <2>6, <3>3
    <3>4. CASE Serve(Reply("failure")) /\ open' \subseteq open
      BY <2>2, <2>3, <3>2, <3>4 DEF Shut
    <3> QED BY <3>1, <3>3, <3>4
  <2>7. CASE body = "close"
    <3>1. \E r : Serve(r) /\ open' \subseteq open /\ query \notin open'
      BY <2>7 DEF ServerAnswers, Refuses
    <3>2. ~IsOpen(s)' BY <1>5, <1>7, <3>1 DEF IsOpen
    <3> QED BY <2>2, <3>1, <3>2
  <2>8. body \in {"prepare", "execute", "commit", "open", "continue", "close"}
    <3>1. body = BodyOf(statement[s].at) /\ statement[s].at \in Places BY <1>5, <1>7
    <3>2. request.body # "idle"
      <4>1. calls[s].state # "idle" /\ Linked(statement[s], calls[s]) BY <1>2, <1>7, Standing
      <4> QED BY <3>1, <4>1 DEF Linked, BodyOf
    <3> HIDE DEF body
    <3> QED BY <3>1, <3>2 DEF BodyOf, Places, body
  <2> QED BY <2>4, <2>5, <2>6, <2>7, <2>8
<1> QED BY <1>4, <1>7

LEMMA OpensIsGood ==
  ASSUME "open" \notin Undecodable, IInv, ~closed => Opens, [Next]_vars
  PROVE  ~closed' => Opens'
<1> SUFFICES ASSUME ~closed' PROVE Opens' OBVIOUS
<1>1. CASE TransportStep
  <2>1. open' \subseteq open /\ UNCHANGED <<results, message, statement, reader>>
    BY <1>1 DEF TransportStep
  <2>2. Statements \subseteq Callers OBVIOUS
  <2>3. /\ ~closed /\ \A s \in Statements : Onward(s)
        /\ request' # None => request' = request \/ calls[request'.by].state = "queued"
        /\ \A i \in DOMAIN wire' : waiting' \in Statements =>
             waiting' = waiting /\ \E j \in DOMAIN wire : wire'[i] = wire[j]
    BY <1>1, <2>2, TransportMoves
  <2> QED BY <2>1, <2>3, OpensStays
<1>2. CASE ServerAnswers /\ UNCHANGED reader
  <2>1. UNCHANGED closed BY <1>2 DEF ServerAnswers
  <2> QED BY <1>2, <2>1, ServerOpens
<1>3. ASSUME NEW s \in Statements, Reads(s) \/ (Runs(s) /\ UNCHANGED reader) PROVE Opens'
  <2>1. StepOf(s) /\ (Sits(s) \/ Takes(s) \/ Leaves(s)) BY <1>3, StatementInv
  <2>2. ~closed /\ Opens BY <2>1 DEF StepOf
  <2>3. Harmless(s) BY <1>3, <2>2, StatementIsHarmless
  <2> QED BY <2>1, <2>2, <2>3, StepKeepsOpens
<1>4. CASE Disconnect /\ UNCHANGED reader
  <2>1. Inv /\ Send(Closer, "rollback") /\ Closer \in Callers /\ Closer \notin Statements
    BY <1>4 DEF IInv, Disconnect
  <2>2. /\ \A d \in Callers : d # Closer => calls'[d] = calls[d]
        /\ UNCHANGED <<waiting, closed, socket, request, wire>>
    BY <2>1, SendEffect
  <2>3. \A s \in Statements : Onward(s) BY <2>1, <2>2 DEF Onward
  <2>4. UNCHANGED <<results, message, statement, reader>> /\ open' \subseteq open
    BY <1>4 DEF Disconnect
  <2> QED BY <2>2, <2>3, <2>4, OpensStays
<1>5. CASE Disconnected
  BY <1>5 DEF Disconnected, Close
<1>6. CASE UNCHANGED vars
  <2>1. UNCHANGED <<results, message, statement, reader>> /\ open' \subseteq open
        /\ UNCHANGED <<calls, waiting, closed, request, wire>>
    BY <1>6 DEF vars, transportVars
  <2>2. \A s \in Statements : Onward(s) BY <2>1 DEF Onward
  <2> QED BY <2>1, <2>2, OpensStays
<1> QED BY <1>1, <1>2, <1>3, <1>4, <1>5, <1>6 DEF Next

LEMMA HoldsIsKeeps ==
  ASSUME IInv, NEW s \in Statements, Holds(s)
  PROVE  Keeps(s)
<1>1. Talk(Columns(s), results[s].ok, statement[s], message[s], reader[s], place[s].given)
  BY Standing
<1>2. reader[s] = "reads" => statement[s].at \in {"idle", "continue"}
  BY <1>1, CallsDiffer DEF Talk, Said, CallOf, QueryType, Places
<1> QED BY <1>2 DEF Keeps, Keeping, Holds

(* #takeSection and #releaseSection of DrdaDatabaseConnection: nobody holds *)
(* the section of another statement, and the server has no other query open *)
(* in it, as long as the connection is good.  It takes that the rows of the *)
(* reply to an open can be decoded: openQuery releases the section of a     *)
(* query that it leaves open when they can not.                             *)
THEOREM SectionsAreFree ==
  ASSUME "open" \notin Undecodable
  PROVE  Spec => []SectionIsFree
<1>1. Init => Opens
  <2>1. ASSUME Init PROVE Opens
    <3>1. open = {} /\ \A s \in Statements : ~IsOpen(s) BY <2>1 DEF Init, IsOpen
    <3> QED BY <3>1 DEF Opens, OpensOf
  <2> QED BY <2>1
<1>2. IInv /\ (~closed => Opens) => SectionIsFree
  <2> SUFFICES ASSUME IInv, Opens, NEW s \in Statements, Holds(s)
               PROVE  /\ statement[s].section \in sections
                      /\ \A q \in open : q.section = statement[s].section => q.of = s
                      /\ \A t \in Statements : Holds(t) /\ statement[t].section = statement[s].section => s = t
    BY DEF SectionIsFree
  <2>1. Keeps(s) /\ \A t \in Statements : Holds(t) => Keeps(t) BY HoldsIsKeeps
  <2>2. \A q \in open : q.of \in Statements BY DEF IInv, Fields
  <2> QED BY <2>1, <2>2 DEF IInv, Allocated, Opens
<1>3. IInv /\ (~closed => Opens) /\ [Next]_vars => IInv' /\ (~closed' => Opens')
  BY NextIsGood, OpensIsGood
<1> QED BY <1>1, <1>2, <1>3, InitIsGood, PTL DEF Spec

-------------------------------------------------------------------------------
(* What ResultCursor promises of each statement's cursor.                   *)
Promise(s) == INSTANCE ResultCursor WITH result <- results[s], message <- message[s], place <- place[s]

LEMMA PromisedSteps ==
  ASSUME IInv, NEW s \in Statements, UNCHANGED results
  PROVE  /\ message[s].to = "runner" /\ (\E call \in {"open", "next", "close"} : message'[s] = Asking(call))
            /\ UNCHANGED place[s] => Promise(s)!Next
         /\ message[s] = Asking("open") /\ message'[s] \in {Saying("opened"), Saying("error")}
            /\ UNCHANGED place[s] => Promise(s)!Next
         /\ message[s] = Asking("next") /\ place[s].given < RowsOf(s)
            /\ place'[s] = [place[s] EXCEPT !.given = @ + 1]
            /\ message'[s] = Giving(place[s].given + 1) => Promise(s)!Next
         /\ message[s] = Asking("next")
            /\ (message'[s] = Saying("error") \/ (place[s].given = RowsOf(s) /\ results[s].ok
                                                  /\ message'[s] = Saying("null")))
            /\ UNCHANGED place[s] => Promise(s)!Next
         /\ message[s] = Asking("close") /\ message'[s] \in {Saying("closed"), Saying("error")}
            /\ UNCHANGED place[s] => Promise(s)!Next
<1>1. place[s] \in [set: {1}, given: Nat] /\ ~results[s].reliable BY DEF IInv, Fields, IsResult
<1>2. results'[s] = results[s] OBVIOUS
<1> USE DEF Promise!Next, Promise!Settling, Promise!Ask, Promise!Answer, Promise!AnswerRow, Promise!Asked,
            Asking, Saying, Giving
<1>3. message[s].to = "runner" /\ (\E call \in {"open", "next", "close"} : message'[s] = Asking(call))
      /\ UNCHANGED place[s] => Promise(s)!Next
  BY <1>2 DEF Promise!Read, Promise!Calls
<1>4. message[s] = Asking("open") /\ message'[s] \in {Saying("opened"), Saying("error")}
      /\ UNCHANGED place[s] => Promise(s)!Next
  BY <1>1, <1>2 DEF Promise!Open, Promise!MayFail
<1>5. message[s] = Asking("next") /\ place[s].given < RowsOf(s)
      /\ place'[s] = [place[s] EXCEPT !.given = @ + 1]
      /\ message'[s] = Giving(place[s].given + 1) => Promise(s)!Next
  BY <1>1, <1>2 DEF Promise!NextRow, Promise!Rows, RowsOf
<1>6. message[s] = Asking("next")
      /\ (message'[s] = Saying("error") \/ (place[s].given = RowsOf(s) /\ results[s].ok
                                            /\ message'[s] = Saying("null")))
      /\ UNCHANGED place[s] => Promise(s)!Next
  BY <1>1, <1>2 DEF Promise!NoMoreRows, Promise!Fail, Promise!MayFail, Promise!Rows, RowsOf
<1>7. message[s] = Asking("close") /\ message'[s] \in {Saying("closed"), Saying("error")}
      /\ UNCHANGED place[s] => Promise(s)!Next
  BY <1>1, <1>2 DEF Promise!Close
<1> QED BY <1>3, <1>4, <1>5, <1>6, <1>7

LEMMA StatementPromises ==
  ASSUME IInv, NEW s \in Statements, Reads(s) \/ (Runs(s) /\ UNCHANGED reader)
  PROVE  Promise(s)!Next \/ UNCHANGED <<message[s], place[s]>>
<1> DEFINE q == statement[s]
           given == place[s].given
<1>1. UNCHANGED results
  <2>1. StepOf(s) BY StatementInv
  <2> QED BY <2>1 DEF StepOf
<1>2. /\ \A what : Answers(s, what) => message'[s] = Saying(what)
      /\ \A row : message' = [message EXCEPT ![s] = Calls(s)!AnswerRow(row)] => message'[s] = Giving(row)
      /\ \A call, as : Asks(s, call, as) => message'[s] = Asking(call)
  BY CallNames DEF IInv, Fields, Answers, Asks
<1>3. CASE Reads(s)
  <2>1. message[s].to = "runner" /\ UNCHANGED place BY <1>3 DEF Reads
  <2>2. \E call \in {"open", "next", "close"} : message'[s] = Asking(call) BY <1>2, <1>3 DEF Reads
  <2> QED BY <1>1, <2>1, <2>2, PromisedSteps
<1>4. CASE Execute(s) \/ Prepared(s) \/ Executed(s) \/ RunCommitted(s) \/ Opened(s)
  <2>1. message[s] = Asking("open")
    <3>1. CASE Execute(s) BY <3>1, CallNames DEF Execute
    <3>2. CASE Prepared(s) \/ Executed(s) \/ RunCommitted(s) \/ Opened(s)
      <4>1. PICK label \in {"prepare", "execute", "commitRun", "open"} : Got(s, label)
        BY <3>2 DEF Prepared, Executed, RunCommitted, Opened
      <4>2. label \in Places \ {"idle"} /\ CallOf(label) = "open" BY DEF Places, CallOf
      <4> QED BY <4>1, <4>2, Awaiting
    <3> QED BY <1>4, <3>1, <3>2
  <2>2. UNCHANGED place BY <1>4 DEF Execute, Prepared, Executed, RunCommitted, Opened
  <2>3. UNCHANGED message \/ message'[s] \in {Saying("opened"), Saying("error")}
    BY <1>2, <1>4 DEF Execute, Prepared, Executed, RunCommitted, Opened, RunFails
  <2> QED BY <1>1, <2>1, <2>2, <2>3, PromisedSteps
<1>5. CASE Continued(s)
  <2>1. message[s] = Asking("next") BY <1>5, Awaiting DEF Continued, Places, CallOf
  <2>2. UNCHANGED place /\ (UNCHANGED message \/ message'[s] = Saying("error"))
    BY <1>2, <1>5 DEF Continued
  <2> QED BY <1>1, <2>1, <2>2, PromisedSteps
<1>6. CASE Close_(s) \/ QueryClosed(s) \/ CloseCommitted(s)
  <2>1. message[s] = Asking("close")
    <3>1. CASE Close_(s) BY <3>1, CallNames DEF Close_
    <3>2. CASE QueryClosed(s) \/ CloseCommitted(s)
      <4>1. PICK label \in {"close", "commitClose"} : Got(s, label)
        BY <3>2 DEF QueryClosed, CloseCommitted
      <4>2. label \in Places \ {"idle"} /\ CallOf(label) = "close" BY DEF Places, CallOf
      <4> QED BY <4>1, <4>2, Awaiting
    <3> QED BY <1>6, <3>1, <3>2
  <2>2. UNCHANGED place BY <1>6 DEF Close_, QueryClosed, CloseCommitted
  <2>3. UNCHANGED message \/ message'[s] \in {Saying("closed"), Saying("error")}
    BY <1>2, <1>6 DEF Close_, QueryClosed, CloseCommitted, EndOfStatement
  <2> QED BY <1>1, <2>1, <2>2, <2>3, PromisedSteps
<1>7. CASE NextRow(s)
  <2>1. message[s] = Asking("next") /\ q.at = "idle" BY <1>7, CallNames DEF NextRow, At
  <2>2. /\ Talk(Columns(s), results[s].ok, q, message[s], reader[s], given)
        /\ Data(RowsOf(s), results[s].ok, q, message[s], reader[s], given, sent[s])
        /\ RowsOf(s) \in Nat /\ (~Columns(s) => RowsOf(s) = 0) /\ results[s].ok \in BOOLEAN
    <3>1. RowsOf(s) \in 0..MaxRows /\ IsResult(results[s]) BY Standing
    <3>2. RowsOf(s) \in Nat /\ results[s].ok \in BOOLEAN BY <3>1 DEF IsResult
    <3> QED BY <3>2, Standing
  <2>3. q \in QueryType /\ given \in Nat /\ reader[s] = "reads" BY <2>1, <2>2, CallsDiffer DEF Talk, Said
  <2>4. /\ q.rows \in Seq([row: Nat, object: Nat]) /\ q.received \in Nat
        /\ Len(q.rows) \in Nat /\ q.error \in BOOLEAN
    BY <2>3 DEF QueryType
  <2>5. /\ given + Len(q.rows) = q.received \div 2 /\ q.received <= 2 * RowsOf(s)
        /\ Follow(q.rows, given)
        /\ IF q.done THEN q.received = 2 * RowsOf(s) /\ (q.error <=> ~results[s].ok) ELSE ~q.error
    BY <2>2, <2>4 DEF Data, Follow
  <2>6. given + Len(q.rows) <= RowsOf(s) /\ (q.done => given + Len(q.rows) = RowsOf(s))
    <3> DEFINE r == q.received
               n == RowsOf(s)
               k == given + Len(q.rows)
    <3>1. r \in Nat /\ n \in Nat /\ k = r \div 2 /\ r <= 2 * n /\ (q.done => r = 2 * n)
      BY <2>2, <2>4, <2>5
    <3> HIDE DEF r, n, k
    <3>2. r \div 2 <= n /\ (r = 2 * n => r \div 2 = n) BY ONLY <3>1
    <3>3. k <= n /\ (q.done => k = n) BY <3>1, <3>2
    <3> QED BY <3>3 DEF k, n
  <2> HIDE DEF q, given
  <2>7. CASE q.rows # <<>> /\ message' = [message EXCEPT ![s] = Calls(s)!AnswerRow(Whole(Head(q.rows)))]
             /\ place' = [place EXCEPT ![s].given = @ + 1]
    <3>1. message'[s] = Giving(given + 1)
      <4>1. Whole(Head(q.rows)) = given + 1 BY <2>3, <2>4, <2>5, <2>7, RowsLeft
      <4> QED BY <1>2, <2>7, <4>1
    <3>2. given < RowsOf(s)
      <4>1. Len(q.rows) > 0 BY <2>4, <2>7
      <4> QED BY <2>2, <2>3, <2>4, <2>6, <4>1
    <3>3. place'[s] = [place[s] EXCEPT !.given = @ + 1] BY <2>7 DEF IInv, Fields
    <3> QED BY <1>1, <2>1, <3>1, <3>2, <3>3, PromisedSteps DEF given
  <2>8. CASE q.rows = <<>> /\ (q.done \/ ~Columns(s)) /\ UNCHANGED place
             /\ Answers(s, IF q.error THEN "error" ELSE "null")
    <3>1. CASE q.error
      <4>1. message'[s] = Saying("error") BY <1>2, <2>8, <3>1
      <4> QED BY <1>1, <2>1, <2>8, <4>1, PromisedSteps
    <3>2. CASE ~q.error
      <4>1. message'[s] = Saying("null") BY <1>2, <2>8, <3>2
      <4>2. Len(q.rows) = 0 BY <2>8
      <4>3. given = RowsOf(s)
        BY <2>2, <2>3, <2>6, <2>8, <4>2
      <4>4. results[s].ok
        <5>1. CASE q.done BY <2>5, <3>2, <5>1
        <5>2. CASE ~Columns(s) BY <2>2, <2>3, <5>2 DEF Talk
        <5> QED BY <2>8, <5>1, <5>2
      <4> QED BY <1>1, <2>1, <2>8, <4>1, <4>3, <4>4, PromisedSteps DEF given
    <3> QED BY <3>1, <3>2
  <2>9. CASE UNCHANGED <<message, place>> BY <2>9
  <2> QED BY <1>7, <2>7, <2>8, <2>9 DEF NextRow, q
<1> QED BY <1>3, <1>4, <1>5, <1>6, <1>7 DEF Runs

(* DrdaCursor is a ResultCursor, whatever else goes on on the connection:   *)
(* each step of the program is a step of the promise to each reader, or     *)
(* nothing to it.  Rows come in order and once, with their own large        *)
(* objects, through blocks that end anywhere, and the end is only said at   *)
(* the end.                                                                 *)
THEOREM StepsOfResultCursor ==
  ASSUME NEW s \in Statements
  PROVE  Spec => Promise(s)!Init /\ [][Promise(s)!Next]_(Promise(s)!cursorVars)
<1>1. Init => Promise(s)!Init
  <2>1. ASSUME Init PROVE message[s] = Saying("none") /\ place[s] = [set |-> 1, given |-> 0]
    BY <2>1, CallNames DEF Init
  <2> QED BY <2>1 DEF Promise!Init, Promise!Answer, Saying
<1>2. IInv /\ [Next]_vars => [Promise(s)!Next]_(Promise(s)!cursorVars)
  <2> SUFFICES ASSUME IInv, [Next]_vars
               PROVE  Promise(s)!Next \/ UNCHANGED <<results, message[s], place[s]>>
    BY DEF Promise!cursorVars
  <2>1. CASE TransportStep BY <2>1 DEF TransportStep
  <2>2. CASE ServerAnswers BY <2>2 DEF ServerAnswers
  <2>3. ASSUME NEW t \in Statements, Reads(t) \/ (Runs(t) /\ UNCHANGED reader)
        PROVE  Promise(s)!Next \/ UNCHANGED <<results, message[s], place[s]>>
    <3>1. StepOf(t) BY <2>3, StatementInv
    <3>2. CASE t # s BY <3>1, <3>2 DEF StepOf
    <3>3. CASE t = s BY <2>3, <3>1, <3>3, StatementPromises DEF StepOf
    <3> QED BY <3>2, <3>3
  <2>4. CASE Disconnect \/ Disconnected BY <2>4 DEF Disconnect, Disconnected
  <2>5. CASE UNCHANGED vars BY <2>5 DEF vars
  <2> QED BY <2>1, <2>2, <2>3, <2>4, <2>5 DEF Next
<1> QED BY <1>1, <1>2, ConnectionSound, PTL DEF Spec
===============================================================================
