----------------------------- MODULE DrdaTransport -----------------------------
(***************************************************************************)
(* drivers/drda/DrdaTransport.js: the socket to a DRDA server.  Callers    *)
(* send requests at any time; they go out one after the other, each when   *)
(* the one before it was answered or failed, as DRDA requires.  A reply    *)
(* arrives in pieces.  The socket can break, a reply can be unreadable,    *)
(* and the connection can be closed at any moment.                         *)
(***************************************************************************)
EXTENDS Naturals, Sequences

CONSTANTS
  Callers,        \* those who send on the connection
  Bodies,         \* what a request asks for
  Replies,        \* what a reply says
  Long,           \* bound: the requests whose replies can come in two pieces
  None

ASSUME TransportAssumption == None \notin Callers

VARIABLES
  calls,          \* of each caller, its latest send() and what became of it
  queue,          \* callers whose send() waits for the ones before it
  waiting,        \* the caller whose reply is awaited
  closed,
  buffer,         \* pieces of a reply that have been received
  socket,         \* "up", "destroyed" by close(), or "down": its events are over
  request,        \* the request that the server has to answer
  wire            \* pieces of its answer, on their way

transportVars == <<calls, queue, waiting, closed, buffer, socket, request, wire>>

(* A caller numbers its requests, 0 and 1 in turn, so that a reply to an    *)
(* earlier one shows.                                                       *)
Request(c, n, body)   == [by |-> c, number |-> n, body |-> body]
Piece(r, reply, last) == [by |-> r.by, number |-> r.number, reply |-> reply, last |-> last]
Unsent == [state |-> "idle", number |-> 0, body |-> None, reply |-> None, own |-> TRUE]

Settled(c) == calls[c].state \in {"resolved", "rejected"}

TransportInit ==
  /\ calls = [c \in Callers |-> Unsent]
  /\ queue = <<>>
  /\ waiting = None
  /\ closed = FALSE
  /\ buffer = <<>> /\ wire = <<>>
  /\ socket = "up"
  /\ request = None
-------------------------------------------------------------------------------
(* send(): the request joins the chain of promises that is #queue.          *)
Send(c, body) ==
  /\ c \notin {queue[i] : i \in DOMAIN queue} /\ waiting # c
  /\ calls' = [calls EXCEPT ![c] = [state |-> "queued", number |-> 1 - @.number, body |-> body,
                                    reply |-> None, own |-> TRUE]]
  /\ queue' = Append(queue, c)
  /\ UNCHANGED <<waiting, closed, buffer, socket, request, wire>>

(* The caller goes on with the outcome of its send().  *)
Forget(c) == calls' = [calls EXCEPT ![c] = [Unsent EXCEPT !.number = calls[c].number]]

Taken(c) ==
  /\ Settled(c)
  /\ Forget(c)
  /\ UNCHANGED <<queue, waiting, closed, buffer, socket, request, wire>>

(* Mutant: a request is written as soon as it is made.  *)
StartAtOnce ==
  /\ queue # <<>>
  /\ queue' = Tail(queue)
  /\ LET c == Head(queue) IN
     IF closed
       THEN /\ calls' = [calls EXCEPT ![c].state = "rejected"]
            /\ UNCHANGED <<waiting, request>>
       ELSE /\ calls' = [calls EXCEPT ![c].state = "waiting"]
            /\ waiting' = c
            /\ request' = IF socket = "up" THEN Request(c, calls[c].number, calls[c].body) ELSE request
  /\ UNCHANGED <<closed, buffer, socket, wire>>

(* The promise before it has settled: the first request of the queue is     *)
(* written, unless the connection is closed by now.                         *)
Start ==
  /\ queue # <<>> /\ waiting = None
  /\ queue' = Tail(queue)
  /\ LET c == Head(queue) IN
     IF closed
       THEN /\ calls' = [calls EXCEPT ![c].state = "rejected"]
            /\ UNCHANGED <<waiting, request>>
       ELSE /\ calls' = [calls EXCEPT ![c].state = "waiting"]
            /\ waiting' = c
            /\ request' = IF socket = "up" THEN Request(c, calls[c].number, calls[c].body) ELSE request
  /\ UNCHANGED <<closed, buffer, socket, wire>>

(* The server answers a request in one piece or in two.  *)
Serve(reply) ==
  /\ request # None
  /\ request' = None
  /\ \/ wire' = wire \o <<Piece(request, reply, TRUE)>>
     \/ /\ request.body \in Long
        /\ wire' = wire \o <<Piece(request, reply, FALSE), Piece(request, reply, TRUE)>>

(* Mutant: what is buffered is the reply, complete or not.  *)
CompleteWhenAny(pieces) == pieces # <<>>

(* DdmReply.parseChain: the structures received are a whole chain, and      *)
(* nothing follows it.                                                      *)
Complete(pieces) ==
  /\ pieces # <<>> /\ pieces[Len(pieces)].last
  /\ \A i \in 1..Len(pieces) - 1 : ~pieces[i].last

(* Mutant: the caller that waits is not told.  *)
FailUntold ==
  /\ closed' = TRUE
  /\ UNCHANGED <<calls, waiting>>

(* #fail: for good; the caller that waits is told.  *)
Fail ==
  /\ closed' = TRUE
  /\ calls' = IF waiting = None THEN calls ELSE [calls EXCEPT ![waiting].state = "rejected"]
  /\ waiting' = None

(* #received: a piece is kept until the chain is whole, and for nobody if   *)
(* nobody waits.                                                            *)
Received ==
  /\ socket = "up" /\ wire # <<>>
  /\ wire' = Tail(wire)
  /\ LET pieces == Append(buffer, Head(wire)) IN
     IF waiting # None /\ Complete(pieces)
       THEN /\ calls' = [calls EXCEPT ![waiting] =
                 [@ EXCEPT !.state = "resolved", !.reply = Head(wire).reply,
                           !.own = /\ Head(wire).last
                                   /\ \A i \in DOMAIN pieces :
                                        pieces[i].by = waiting /\ pieces[i].number = calls[waiting].number]]
            /\ waiting' = None
            /\ buffer' = <<>>
       ELSE /\ buffer' = pieces
            /\ UNCHANGED <<calls, waiting>>
  /\ UNCHANGED <<queue, closed, socket, request>>

(* #received of a piece that can not be parsed: the socket stays open.  *)
Unreadable ==
  /\ socket = "up" /\ wire # <<>> /\ waiting # None
  /\ wire' = Tail(wire)
  /\ buffer' = Append(buffer, Head(wire))
  /\ Fail
  /\ UNCHANGED <<queue, socket, request>>

(* The error and close events of the socket: the connection broke, or the   *)
(* server ended it.                                                         *)
Break ==
  /\ socket = "up"
  /\ socket' = "down" /\ request' = None /\ wire' = <<>>
  /\ Fail
  /\ UNCHANGED <<queue, buffer>>

Close ==
  /\ closed' = TRUE
  /\ socket' = IF socket = "up" THEN "destroyed" ELSE socket
  /\ request' = None /\ wire' = <<>>
  /\ UNCHANGED <<queue, waiting, buffer>>

(* The close event of a socket that close() destroyed.  *)
CloseEvent ==
  /\ socket = "destroyed"
  /\ socket' = "down"
  /\ Fail
  /\ UNCHANGED <<queue, buffer, request, wire>>

Transport == Start \/ Received \/ Unreadable \/ Break \/ CloseEvent

(* The transport by itself, with any callers and a server that answers.  *)
TransportNext ==
  \/ \E c \in Callers : Taken(c) \/ \E body \in Bodies : Send(c, body)
  \/ \E reply \in Replies : Serve(reply) /\ UNCHANGED <<calls, queue, waiting, closed, buffer, socket>>
  \/ Transport
  \/ Close /\ UNCHANGED calls

TransportSpec == TransportInit /\ [][TransportNext]_transportVars
-------------------------------------------------------------------------------
CallType == [state: {"idle", "queued", "waiting", "resolved", "rejected"}, number: {0, 1},
             body: Bodies \union {None}, reply: Replies \union {None}, own: BOOLEAN]
PieceType == [by: Callers, number: {0, 1}, reply: Replies, last: BOOLEAN]

TransportTypeOK ==
  /\ calls \in [Callers -> CallType]
  /\ queue \in Seq(Callers)
  /\ waiting \in Callers \union {None}
  /\ closed \in BOOLEAN
  /\ buffer \in Seq(PieceType) /\ wire \in Seq(PieceType)
  /\ socket \in {"up", "destroyed", "down"}
  /\ request \in [by: Callers, number: {0, 1}, body: Bodies] \union {None}

(* "sends one request chain and waits for its whole reply chain": a caller  *)
(* is only ever given the reply to the request it made last, whole, however *)
(* the callers and the pieces interleave.                                   *)
OwnReply == \A c \in Callers : calls[c].own

(* "One request is in flight at a time, as DRDA requires."                  *)
OneInFlight == \A c, d \in Callers : calls[c].state = "waiting" /\ calls[d].state = "waiting" => c = d
===============================================================================
