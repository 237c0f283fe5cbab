------------------------------ MODULE MySqlCursor ------------------------------
(***************************************************************************)
(* drivers/MySqlDriver.js, MySqlCursor: rows arrive as events of mysql2    *)
(* while the reader waits for a promise that the next event resolves.  The *)
(* connection is paused when a batch is waiting, and hands the packets it  *)
(* holds back to the cursor as soon as it is resumed.                      *)
(***************************************************************************)
EXTENDS CursorCalls, SequencesExt

CONSTANT Batch    \* MySqlCursor.BATCH

VARIABLES
  wire,           \* the packets that the server still has to send
  cursor          \* the fields of the cursor, and at: where next() or close() is

Packet(kind, row) == [kind |-> kind, row |-> row]

(* What the server sends for a statement: mysql2 announces the end of a     *)
(* statement after its error, too.                                          *)
Packets(r) ==
  LET OfSet(set) == IF set.columns
                      THEN <<Packet("fields", 0)>> \o [i \in 1..set.rows |-> Packet("row", i)]
                      ELSE <<Packet("ok", 0)>>
      sets == [i \in DOMAIN r.sets |-> IF r.sets[i].columns \/ r.ok THEN OfSet(r.sets[i]) ELSE <<>>]
  IN  FlattenSeq(sets) \o (IF r.ok THEN <<>> ELSE <<Packet("error", 0)>>) \o <<Packet("end", 0)>>

New == [rows |-> <<>>, sets |-> 0, started |-> FALSE, ended |-> FALSE, paused |-> FALSE,
        discard |-> FALSE, error |-> FALSE, wake |-> "none", at |-> "idle"]

Wake(c) == IF c.wake = "armed" THEN [c EXCEPT !.wake = "fired"] ELSE c

(* Mutant: the connection is paused one row late.  *)
PushPastBatch(c, row) ==
  IF c.sets > 1 \/ c.discard
    THEN c
    ELSE LET rows == Append(c.rows, row)
         IN  Wake([c EXCEPT !.rows = rows, !.paused = @ \/ Len(rows) > Batch])

(* #push: rows of further sets, and all of them once the cursor is closing, *)
(* are dropped.                                                             *)
Push(c, row) ==
  IF c.sets > 1 \/ c.discard
    THEN c
    ELSE LET rows == Append(c.rows, row)
         IN  Wake([c EXCEPT !.rows = rows, !.paused = @ \/ Len(rows) >= Batch])

(* Resolves open()'s promise, the first time.  *)
Start ==
  /\ cursor' = [cursor EXCEPT !.started = TRUE]
  /\ message' = IF cursor.started THEN message ELSE Answer("opened")

(* open()'s handlers of the events that mysql2 emits for a packet.  *)
Event ==
  /\ wire # <<>> /\ ~cursor.paused
  /\ (cursor.started \/ Asked("open"))
  /\ wire' = Tail(wire)
  /\ LET packet == Head(wire) IN
     CASE packet.kind = "fields" ->
            /\ cursor' = [cursor EXCEPT !.sets = @ + 1, !.started = TRUE]
            /\ message' = IF cursor.started THEN message ELSE Answer("opened")
       [] packet.kind = "row"    -> cursor' = Push(cursor, packet.row) /\ UNCHANGED message
       [] packet.kind = "ok"     -> Start
       [] packet.kind = "end"    ->
            cursor' = Wake([cursor EXCEPT !.ended = TRUE]) /\ UNCHANGED message
       [] packet.kind = "error" /\ cursor.started ->
            cursor' = Wake([cursor EXCEPT !.error = TRUE]) /\ UNCHANGED message
       [] packet.kind = "error" /\ ~cursor.started ->
            cursor' = [cursor EXCEPT !.started = TRUE] /\ message' = Answer("error")
  /\ UNCHANGED <<result, place>>

(* The end of next(): the error, a row that is waiting, or null.  *)
NextReturns ==
  /\ Asked("next") /\ cursor.at = "idle"
  /\ cursor.rows # <<>> \/ cursor.ended \/ cursor.error
  /\ IF cursor.error
       THEN message' = Answer("error") /\ UNCHANGED <<cursor, place>>
       ELSE IF cursor.rows = <<>>
         THEN message' = Answer("null") /\ UNCHANGED <<cursor, place>>
         ELSE /\ message' = AnswerRow(Head(cursor.rows))
              /\ cursor' = [cursor EXCEPT !.rows = Tail(@)]
              /\ place' = [place EXCEPT !.given = @ + 1]
  /\ UNCHANGED <<result, wire>>

(* close() drops what is waiting and what still arrives, up to the end.  *)
Discard ==
  /\ Asked("close") /\ ~cursor.discard
  /\ cursor' = [cursor EXCEPT !.discard = TRUE, !.rows = <<>>]
  /\ UNCHANGED <<result, message, place, wire>>

(* Mutant: what the server still has to send is left to the next statement.  *)
CloseAtOnce ==
  /\ Asked("close") /\ cursor.discard /\ cursor.at = "idle"
  /\ message' = Answer("closed")
  /\ UNCHANGED <<result, place, wire, cursor>>

CloseReturns ==
  /\ Asked("close") /\ cursor.discard /\ cursor.at = "idle"
  /\ cursor.ended \/ cursor.error
  /\ message' = Answer("closed")
  /\ UNCHANGED <<result, place, wire, cursor>>

(* The loops of next() and close(), when nothing has arrived.  *)
MustWait ==
  /\ cursor.at = "idle"
  /\ Asked("next") \/ (Asked("close") /\ cursor.discard)
  /\ ~cursor.ended /\ ~cursor.error /\ cursor.rows = <<>>

Woken == cursor.at = "waiting" /\ cursor.wake = "fired"

(* Mutant: a paused connection is resumed, and hands over the packets it    *)
(* holds, before the promise is made.                                       *)
WaitAfterResume ==
  /\ \/ MustWait /\ cursor.paused /\ cursor' = [cursor EXCEPT !.paused = FALSE, !.at = "resuming"]
     \/ /\ (MustWait /\ ~cursor.paused) \/ cursor.at = "resuming"
        /\ cursor' = [cursor EXCEPT !.wake = "armed", !.at = "waiting"]
     \/ Woken /\ cursor' = [cursor EXCEPT !.at = "idle"]
  /\ UNCHANGED <<result, message, place, wire>>

(* The promise is made before the connection is resumed, which may deliver  *)
(* what it holds at once; then the promise is awaited.                      *)
Wait ==
  /\ \/ MustWait /\ cursor' = [cursor EXCEPT !.wake = "armed", !.paused = FALSE, !.at = "waiting"]
     \/ Woken /\ cursor' = [cursor EXCEPT !.at = "idle"]
  /\ UNCHANGED <<result, message, place, wire>>

MySqlNext ==
  \/ Event \/ NextReturns \/ Discard \/ CloseReturns \/ Wait
  \/ NoNextResultSet /\ UNCHANGED <<wire, cursor>>
===============================================================================
