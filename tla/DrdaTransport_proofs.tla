------------------------- MODULE DrdaTransport_proofs -------------------------
(***************************************************************************)
(* Proofs about the transport of the DRDA client, for any callers, any     *)
(* requests and replies, and a server that answers in one piece or two.    *)
(***************************************************************************)
EXTENDS DrdaTransport, TLAPS

(* A caller is in the queue, or awaited, exactly as its call says.          *)
Placed ==
  /\ \A c \in Callers : calls[c].state = "queued" <=> \E i \in DOMAIN queue : queue[i] = c
  /\ \A c \in Callers : calls[c].state = "waiting" <=> waiting = c
  /\ \A i, j \in DOMAIN queue : queue[i] = queue[j] => i = j
  /\ \A c \in Callers : calls[c].state = "queued" => calls[c].body \in Bodies

(* What is under way belongs to the caller that waits, to the request that  *)
(* it made last; only the last piece on its way can be the last of a reply. *)
Belongs(x) == x.by = waiting /\ x.number = calls[waiting].number

Exchange ==
  waiting # None =>
    /\ request # None => Belongs(request) /\ wire = <<>> /\ buffer = <<>>
    /\ \A i \in DOMAIN wire : Belongs(wire[i])
    /\ \A i \in DOMAIN buffer : Belongs(buffer[i])
    /\ \A i \in DOMAIN wire : wire[i].last => i = Len(wire)

(* Between two requests nothing is under way, as long as the connection is  *)
(* good: so the reply to one can not be taken for the next one's.           *)
Silence == waiting = None /\ ~closed => request = None /\ wire = <<>> /\ buffer = <<>>

Inv == TransportTypeOK /\ Placed /\ Exchange /\ Silence /\ OwnReply

USE TransportAssumption

LEMMA InitInv == TransportInit => Inv
<1> SUFFICES ASSUME TransportInit PROVE Inv OBVIOUS
<1> USE DEF TransportInit
<1>1. TransportTypeOK
  <2>1. Unsent \in CallType BY DEF Unsent, CallType
  <2>2. calls \in [Callers -> CallType] BY <2>1
  <2>3. <<>> \in Seq(Callers) /\ <<>> \in Seq(PieceType) OBVIOUS
  <2> QED BY <2>2, <2>3 DEF TransportTypeOK
<1>2. Placed BY DEF Placed, Unsent
<1>3. OwnReply BY DEF OwnReply, Unsent
<1> QED BY <1>1, <1>2, <1>3 DEF Inv, Exchange, Silence

(* The first piece of a sequence, and the rest.                             *)
LEMMA HeadAndTail ==
  ASSUME NEW S, NEW s \in Seq(S), s # <<>>
  PROVE  /\ Head(s) \in S /\ Tail(s) \in Seq(S)
         /\ Len(Tail(s)) = Len(s) - 1
         /\ Head(s) = s[1] /\ 1 \in DOMAIN s
         /\ \A i \in DOMAIN Tail(s) : i + 1 \in DOMAIN s /\ Tail(s)[i] = s[i + 1]
  OBVIOUS

LEMMA SendInv == ASSUME Inv, NEW c \in Callers, NEW body \in Bodies, Send(c, body) PROVE Inv'
<1> USE DEF Inv, Send
<1>1. TransportTypeOK' BY SMTT(30) DEF TransportTypeOK, CallType
<1>2. Placed'
  <2>1. /\ Len(queue') = Len(queue) + 1 /\ queue'[Len(queue) + 1] = c
        /\ \A i \in DOMAIN queue : i \in DOMAIN queue' /\ queue'[i] = queue[i]
        /\ \A i \in DOMAIN queue' : i \in DOMAIN queue \/ i = Len(queue) + 1
        /\ Len(queue) + 1 \in DOMAIN queue' /\ Len(queue) + 1 \notin DOMAIN queue
    BY DEF TransportTypeOK
  <2>2. \A i, j \in DOMAIN queue' : queue'[i] = queue'[j] => i = j
    <3>1. \A i \in DOMAIN queue : queue[i] # c OBVIOUS
    <3> QED BY <2>1, <3>1 DEF Placed
  <2>3. \A d \in Callers : /\ calls'[d].state = IF d = c THEN "queued" ELSE calls[d].state
                           /\ calls'[d].body = IF d = c THEN body ELSE calls[d].body
    <3>1. calls \in [Callers -> CallType] BY DEF TransportTypeOK
    <3>2. calls'[c].state = "queued" /\ calls'[c].body = body BY <3>1
    <3>3. \A d \in Callers : d # c => calls'[d] = calls[d] BY <3>1
    <3> QED BY <3>2, <3>3
  <2> QED BY <2>1, <2>2, <2>3 DEF Placed
<1>3. Exchange' /\ Silence' BY DEF Exchange, Silence, Belongs, TransportTypeOK, CallType
<1>4. OwnReply' BY DEF OwnReply, TransportTypeOK, CallType
<1> QED BY <1>1, <1>2, <1>3, <1>4

LEMMA TakenInv == ASSUME Inv, NEW c \in Callers, Taken(c) PROVE Inv'
<1> USE DEF Inv, Taken, Forget, Settled, Unsent
<1>1. TransportTypeOK' BY DEF TransportTypeOK, CallType
<1>2. Placed' BY DEF Placed, TransportTypeOK, CallType
<1>3. Exchange' /\ Silence' BY DEF Exchange, Silence, Belongs, TransportTypeOK, CallType, Placed
<1>4. OwnReply' BY DEF OwnReply, TransportTypeOK, CallType
<1> QED BY <1>1, <1>2, <1>3, <1>4

LEMMA ServeInv ==
  ASSUME Inv, NEW reply \in Replies, Serve(reply),
         UNCHANGED <<calls, queue, waiting, closed, buffer, socket>>
  PROVE  Inv'
<1> USE DEF Inv, Serve
<1>0. \A last \in BOOLEAN : Piece(request, reply, last) \in PieceType
  BY DEF TransportTypeOK, PieceType, Piece
<1>1. TransportTypeOK'
  <2>1. wire' \in Seq(PieceType)
    <3> DEFINE first == Piece(request, reply, FALSE)
               final == Piece(request, reply, TRUE)
    <3>1. wire' = wire \o <<final>> \/ wire' = wire \o <<first, final>> OBVIOUS
    <3>2. first \in PieceType /\ final \in PieceType BY <1>0
    <3>3. wire \in Seq(PieceType) BY DEF TransportTypeOK
    <3> HIDE DEF first, final
    <3>4. <<final>> \in Seq(PieceType) /\ <<first, final>> \in Seq(PieceType) BY <3>2
    <3>5. \A more \in Seq(PieceType) : wire \o more \in Seq(PieceType) BY <3>3
    <3> QED BY <3>1, <3>4, <3>5
  <2> QED BY <2>1 DEF TransportTypeOK
<1>2. Placed' /\ OwnReply' BY DEF Placed, OwnReply
<1>3. Silence' BY DEF Silence
<1>4. ASSUME waiting # None PROVE Exchange'
  <2>1. Belongs(request) /\ wire = <<>> /\ buffer = <<>> BY <1>4 DEF Exchange
  <2> DEFINE first == Piece(request, reply, FALSE)
             final == Piece(request, reply, TRUE)
             Ours(x) == x.by = waiting /\ x.number = calls[waiting].number
  <2>2. Ours(first) /\ ~first.last /\ Ours(final) BY <2>1 DEF Belongs, Piece
  <2>3. wire' = wire \o <<final>> \/ wire' = wire \o <<first, final>> OBVIOUS
  <2> HIDE DEF first, final
  <2>7. wire' = <<final>> \/ wire' = <<first, final>> BY <2>1, <2>3
  <2>4. \A i \in DOMAIN wire' : Ours(wire'[i]) BY <2>2, <2>7
  <2>5. \A i \in DOMAIN wire' : wire'[i].last => i = Len(wire') BY <2>2, <2>7, SMTT(30)
  <2>6. request' = None /\ buffer' = <<>> BY <2>1
  <2> QED BY <2>4, <2>5, <2>6 DEF Exchange, Belongs
<1> QED BY <1>1, <1>2, <1>3, <1>4 DEF Exchange

(* The first of the queue goes out when nobody waits: nothing is under way. *)
LEMMA StartInv == ASSUME Inv, Start PROVE Inv'
<1> USE DEF Inv, Start
<1> DEFINE c == Head(queue)
<1>1. /\ c \in Callers /\ c = queue[1] /\ 1 \in DOMAIN queue
      /\ Tail(queue) \in Seq(Callers)
      /\ \A i \in DOMAIN Tail(queue) : i + 1 \in DOMAIN queue /\ Tail(queue)[i] = queue[i + 1]
      /\ \A i \in DOMAIN queue : i # 1 => i - 1 \in DOMAIN Tail(queue)
  BY DEF TransportTypeOK
<1>2. TransportTypeOK'
  <2>1. \A state \in {"rejected", "waiting"} : [calls EXCEPT ![c].state = state] \in [Callers -> CallType]
    BY <1>1, ZenonT(40) DEF TransportTypeOK, CallType
  <2>2. calls' \in [Callers -> CallType] BY <2>1
  <2>3. request' \in [by: Callers, number: {0, 1}, body: Bodies] \union {None}
    BY <1>1 DEF TransportTypeOK, CallType, Request, Placed
  <2> QED BY <1>1, <2>2, <2>3 DEF TransportTypeOK
<1>3. Placed'
  <2>1. \A i, j \in DOMAIN queue' : queue'[i] = queue'[j] => i = j
    BY <1>1 DEF Placed, TransportTypeOK
  <2>2. \A d \in Callers : (\E i \in DOMAIN queue' : queue'[i] = d)
                             <=> d # c /\ \E i \in DOMAIN queue : queue[i] = d
    <3>1. \A i \in DOMAIN queue' : queue'[i] # c BY <1>1 DEF Placed, TransportTypeOK
    <3>2. ASSUME NEW d \in Callers, d # c, NEW i \in DOMAIN queue, queue[i] = d
          PROVE  \E j \in DOMAIN queue' : queue'[j] = d
      <4>1. i # 1 /\ i - 1 \in DOMAIN queue' /\ i \in Nat BY <1>1, <3>2 DEF TransportTypeOK
      <4>2. queue'[i - 1] = queue[i] BY <1>1, <4>1
      <4> QED BY <3>2, <4>1, <4>2
    <3> QED BY <1>1, <3>1, <3>2
  <2>3. \A d \in Callers : d # c => calls'[d] = calls[d] BY DEF TransportTypeOK
  <2>4. calls'[c].state = IF closed THEN "rejected" ELSE "waiting" BY <1>1 DEF TransportTypeOK, CallType
  <2>5. waiting' = IF closed THEN None ELSE c OBVIOUS
  <2>6. c \in Callers /\ None \notin Callers /\ waiting = None /\ \E i \in DOMAIN queue : queue[i] = c BY <1>1
  <2> HIDE DEF c
  <2>7. ASSUME NEW d \in Callers
        PROVE  /\ calls'[d].state = "queued" <=> \E i \in DOMAIN queue' : queue'[i] = d
               /\ calls'[d].state = "waiting" <=> waiting' = d
               /\ calls'[d].state = "queued" => calls'[d].body \in Bodies
    <3>1. CASE d = c BY <2>2, <2>4, <2>5, <2>6, <3>1
    <3>2. CASE d # c BY <2>2, <2>3, <2>5, <2>6, <3>2 DEF Placed
    <3> QED BY <3>1, <3>2
  <2> QED BY <2>1, <2>7 DEF Placed
<1>4. Exchange' /\ Silence'
  BY <1>1 DEF Exchange, Silence, Belongs, TransportTypeOK, CallType, Request
<1>5. OwnReply'
  <2>1. calls' = [calls EXCEPT ![c].state = IF closed THEN "rejected" ELSE "waiting"] OBVIOUS
  <2>2. calls \in [Callers -> CallType] /\ c \in Callers BY <1>1 DEF TransportTypeOK
  <2> HIDE DEF c
  <2>3. \A d \in Callers : calls'[d].own = calls[d].own BY <2>1, <2>2 DEF CallType
  <2> QED BY <2>3 DEF OwnReply
<1> QED BY <1>2, <1>3, <1>4, <1>5

(* What #fail does, to whatever else happens with it.                       *)
LEMMA FailInv ==
  ASSUME Inv, Fail, UNCHANGED queue, socket' \in {"up", "destroyed", "down"},
         buffer' \in Seq(PieceType), wire' \in Seq(PieceType), request' \in {request, None}
  PROVE  Inv'
<1> USE DEF Inv, Fail
<1>1. TransportTypeOK' BY ZenonT(40) DEF TransportTypeOK, CallType
<1>2. Placed' BY DEF Placed, TransportTypeOK, CallType
<1>3. Exchange' /\ Silence' BY DEF Exchange, Silence
<1>4. OwnReply' BY DEF OwnReply, TransportTypeOK, CallType
<1> QED BY <1>1, <1>2, <1>3, <1>4

LEMMA ReceivedInv == ASSUME Inv, Received PROVE Inv'
<1> USE DEF Inv, Received
<1> DEFINE pieces == Append(buffer, Head(wire))
<1>1. /\ Head(wire) \in PieceType /\ Tail(wire) \in Seq(PieceType)
      /\ Len(wire) \in Nat /\ Len(wire) >= 1 /\ Len(Tail(wire)) = Len(wire) - 1
      /\ Head(wire) = wire[1] /\ 1 \in DOMAIN wire
      /\ \A i \in DOMAIN Tail(wire) : i + 1 \in DOMAIN wire /\ Tail(wire)[i] = wire[i + 1]
  BY HeadAndTail DEF TransportTypeOK
<1>2. /\ pieces \in Seq(PieceType) /\ Len(pieces) = Len(buffer) + 1
      /\ pieces[Len(pieces)] = Head(wire)
      /\ \A i \in DOMAIN pieces : (i \in DOMAIN buffer /\ pieces[i] = buffer[i]) \/ pieces[i] = Head(wire)
  BY <1>1 DEF TransportTypeOK
<1>3. CASE waiting # None /\ Complete(pieces)
  <2>1. Head(wire).last BY <1>2, <1>3 DEF Complete
  <2>2. Len(wire) = 1 BY <1>1, <1>3, <2>1 DEF Exchange
  <2>3. wire' = <<>> BY <1>1, <2>2
  <2>4. request = None BY <1>1, <1>3 DEF Exchange
  <2>5. \A i \in DOMAIN pieces : pieces[i].by = waiting /\ pieces[i].number = calls[waiting].number
    BY <1>1, <1>2, <1>3 DEF Exchange, Belongs
  <2>6. /\ calls' = [calls EXCEPT ![waiting] =
                       [@ EXCEPT !.state = "resolved", !.reply = Head(wire).reply, !.own = TRUE]]
        /\ waiting' = None /\ buffer' = <<>>
    <3>1. calls' = [calls EXCEPT ![waiting] =
                 [@ EXCEPT !.state = "resolved", !.reply = Head(wire).reply,
                           !.own = /\ Head(wire).last
                                   /\ \A i \in DOMAIN pieces :
                                        pieces[i].by = waiting /\ pieces[i].number = calls[waiting].number]]
      BY <1>3, Zenon
    <3>2. (/\ Head(wire).last
           /\ \A i \in DOMAIN pieces :
                pieces[i].by = waiting /\ pieces[i].number = calls[waiting].number) = TRUE
      BY <2>1, <2>5, <1>1 DEF PieceType
    <3> QED BY <1>3, <3>1, <3>2
  <2>7. TransportTypeOK'
    <3>1. waiting \in Callers /\ Head(wire).reply \in Replies BY <1>1, <1>3 DEF TransportTypeOK, PieceType
    <3>2. [calls[waiting] EXCEPT !.state = "resolved", !.reply = Head(wire).reply, !.own = TRUE] \in CallType
      BY <3>1, ZenonT(40) DEF TransportTypeOK, CallType
    <3>3. calls' \in [Callers -> CallType] BY <2>6, <3>1, <3>2 DEF TransportTypeOK
    <3> QED BY <1>1, <2>6, <3>3 DEF TransportTypeOK
  <2>8. Placed' BY <1>3, <2>6 DEF Placed, TransportTypeOK, CallType
  <2>9. OwnReply' BY <1>3, <2>6 DEF OwnReply, TransportTypeOK, CallType
  <2> QED BY <2>3, <2>4, <2>6, <2>7, <2>8, <2>9 DEF Exchange, Silence
<1>4. CASE ~(waiting # None /\ Complete(pieces))
  <2>1. buffer' = pieces /\ UNCHANGED <<calls, waiting>> BY <1>4
  <2>2. TransportTypeOK' BY <1>1, <1>2, <2>1 DEF TransportTypeOK
  <2>3. Placed' /\ OwnReply' BY <2>1 DEF Placed, OwnReply
  <2>4. Silence' BY <1>1, <2>1 DEF Silence
  <2>5. Exchange'
    <3> SUFFICES ASSUME waiting # None PROVE Exchange' BY <2>1 DEF Exchange
    <3>1. request = None BY <1>1 DEF Exchange
    <3>2. (\A i \in DOMAIN buffer : Belongs(buffer[i]))' BY <1>1, <1>2, <2>1 DEF Exchange, Belongs
    <3>3. (\A i \in DOMAIN wire : Belongs(wire[i]))' BY <1>1, <2>1 DEF Exchange, Belongs
    <3>4. \A i \in DOMAIN wire' : wire'[i].last => i = Len(wire')
      BY <1>1 DEF Exchange, TransportTypeOK
    <3> QED BY <3>1, <3>2, <3>3, <3>4 DEF Exchange, Belongs
  <2> QED BY <2>2, <2>3, <2>4, <2>5
<1> QED BY <1>3, <1>4

LEMMA CloseInv == ASSUME Inv, Close, UNCHANGED calls PROVE Inv'
<1> USE DEF Inv, Close
<1>1. TransportTypeOK' BY DEF TransportTypeOK
<1>2. Placed' /\ OwnReply' BY DEF Placed, OwnReply
<1>3. Exchange' /\ Silence' BY DEF Exchange, Silence, Belongs
<1> QED BY <1>1, <1>2, <1>3

LEMMA NextInv == Inv /\ [TransportNext]_transportVars => Inv'
<1> SUFFICES ASSUME Inv, [TransportNext]_transportVars PROVE Inv' OBVIOUS
<1>1. ASSUME NEW c \in Callers, Taken(c) PROVE Inv' BY <1>1, TakenInv
<1>2. ASSUME NEW c \in Callers, NEW body \in Bodies, Send(c, body) PROVE Inv' BY <1>2, SendInv
<1>3. ASSUME NEW reply \in Replies, Serve(reply), UNCHANGED <<calls, queue, waiting, closed, buffer, socket>>
      PROVE  Inv'
  BY <1>3, ServeInv
<1>4. CASE Start BY <1>4, StartInv
<1>5. CASE Received BY <1>5, ReceivedInv
<1>6. CASE Unreadable
  <2>1. buffer' \in Seq(PieceType) /\ wire' \in Seq(PieceType)
    BY <1>6, HeadAndTail DEF Unreadable, Inv, TransportTypeOK
  <2> QED BY <1>6, <2>1, FailInv DEF Unreadable, Inv, TransportTypeOK
<1>7. CASE Break BY <1>7, FailInv DEF Break, Inv, TransportTypeOK
<1>8. CASE CloseEvent BY <1>8, FailInv DEF CloseEvent, Inv, TransportTypeOK
<1>9. CASE Close /\ UNCHANGED calls BY <1>9, CloseInv
<1>10. CASE UNCHANGED transportVars
  BY <1>10 DEF transportVars, Inv, TransportTypeOK, Placed, Exchange, Belongs, Silence, OwnReply
<1> QED BY <1>1, <1>2, <1>3, <1>4, <1>5, <1>6, <1>7, <1>8, <1>9, <1>10 DEF TransportNext, Transport

(* All of it together is inductive.  *)
THEOREM InvHolds == TransportSpec => []Inv
  BY InitInv, NextInv, PTL DEF TransportSpec

(* The type invariant of the transport.  *)
THEOREM TransportTypeCorrect == TransportSpec => []TransportTypeOK
  BY InvHolds, PTL DEF Inv

(* A caller of send() is only ever given the whole reply to the request it  *)
(* made last, through replies in pieces, failures and close() at any time.  *)
THEOREM RepliesAreOwn == TransportSpec => []OwnReply
  BY InvHolds, PTL DEF Inv

(* One request is in flight at a time.                                      *)
THEOREM OneAtATime == TransportSpec => []OneInFlight
<1>1. Inv => OneInFlight BY DEF Inv, Placed, OneInFlight
<1> QED BY <1>1, InvHolds, PTL
===============================================================================
