------------------------- MODULE ConsoleSession_proofs -------------------------
(***************************************************************************)
(* Proofs about the sessions and logons of one browser, for any number of  *)
(* requests, connections and ids, any clock and any time limit.            *)
(***************************************************************************)
EXTENDS ConsoleSession, TLAPS

USE SessionAssumption, NoSessionAssumption

(* Past its arrival, until the response ends, a request has a session.      *)
Working(q) == q.pc \notin {"idle", "sent"}
WellFormed(q) == q \in RequestState /\ (Working(q) => q.id \in Ids /\ q.copy \in Content)

-------------------------------------------------------------------------------
(* The operators on the content of a session.                               *)

LEMMA WithResult ==
  ASSUME NEW content \in Content, NEW n \in Names, NEW record \in Records
  PROVE  /\ With(content, n, record) \in Content
         /\ With(content, n, record).stamp = content.stamp
         /\ \A m \in Names : With(content, n, record).connections[m] =
              IF m = n THEN record ELSE content.connections[m]
BY DEF With, Content

LEMMA WithoutIsWith ==
  ASSUME NEW content, NEW n
  PROVE  Without(content, n) = With(content, n, "none")
BY DEF Without, With

(* A new session, as Arrive opens it.                                       *)
Empty == [connections |-> NoConnections, stamp |-> now]
Opened(q) == IF Known(q.id) THEN sessions[q.id] ELSE Empty

LEMMA EmptyResult ==
  ASSUME now \in 0..MaxTime
  PROVE  Empty \in Content /\ ~Expired(Empty) /\ \A n \in Names : Empty.connections[n] = "none"
BY DEF Empty, NoConnections, Content, Records, Expired

LEMMA OpenedResult ==
  ASSUME TypeOK, NEW q \in RequestState
  PROVE  /\ Opened(q) \in Content
         /\ ~Known(q.id) => Opened(q) = Empty
         /\ Known(q.id) => q.id \in Ids /\ Opened(q) = sessions[q.id]
<1>1. CASE Known(q.id)
  <2>1. q.id \in Ids BY <1>1 DEF Known, RequestState
  <2> QED BY <1>1, <2>1 DEF Opened, Known, TypeOK, Sessions
<1>2. CASE ~Known(q.id) BY <1>2, EmptyResult DEF Opened, TypeOK
<1> QED BY <1>1, <1>2

LEMMA BegunResult ==
  ASSUME NEW content \in Content, NEW kind, NEW n \in Names, now \in 0..MaxTime
  PROVE  /\ Begun(content, kind, n) \in Content
         /\ Begun(content, kind, n).stamp \in {content.stamp, now}
         /\ Expired(content) => \A m \in Names : Begun(content, kind, n).connections[m] = "none"
         /\ ~Expired(content) /\ kind = "check" => Begun(content, kind, n).stamp = content.stamp
         /\ ~Expired(content) =>
              \A m \in Names : Begun(content, kind, n).connections[m] =
                IF kind = "logout" /\ m = n THEN "blank" ELSE content.connections[m]
<1>1. content.connections \in [Names -> Records] /\ content.stamp \in 0..MaxTime BY DEF Content
<1>2. CASE Expired(content) BY <1>1, <1>2 DEF Begun, Content, NoConnections, Records
<1>3. CASE ~Expired(content) BY <1>1, <1>3 DEF Begun, Content, Records
<1> QED BY <1>2, <1>3

-------------------------------------------------------------------------------
(* Types.                                                                   *)

LEMMA IdleResult == WellFormed(Idle) /\ Idle.pc = "idle" /\ Idle.name \in Names /\ Idle.outcome = ""
<1>1. Idle.name \in Names BY DEF Idle
<1> QED BY <1>1 DEF Idle, WellFormed, Working, RequestState, Labels, AllKinds, Sessions, Outcomes

LEMMA ReqIsWellFormed ==
  ASSUME TypeOK, NEW r \in Requests
  PROVE  WellFormed(req[r])
BY DEF TypeOK, WellFormed, Working

(* Started fills in a request that arrives.                                 *)
IsStarted(s, q, id, loaded, begun) ==
  /\ WellFormed(s) /\ Working(s)
  /\ s.kind = q.kind /\ s.name = q.name /\ s.id = id /\ s.loaded = loaded /\ (s.new <=> id # q.id)
  /\ s.copy = IF q.kind \in {"disconnect", "remove"} THEN Without(begun, q.name) ELSE begun
  /\ s.todo = IF q.kind = "check" THEN {m \in Names : Authenticated(begun, m)} ELSE {}
  /\ s.pc = "test" => q.kind = "connect"
  /\ s.pc = "save" => q.kind = "remove"
  /\ s.pc = "statuses" => q.kind = "check"
  /\ s.pc \notin {"auto", "renew"} /\ s.outcome # "connected"
  /\ s.outcome = "served" => q.kind = "use" /\ Authenticated(begun, q.name)

LEMMA StartedResult ==
  ASSUME NEW q \in RequestState, NEW id \in Ids, NEW loaded \in Sessions, NEW begun \in Content
  PROVE  IsStarted(Started(q, id, loaded, begun), q, id, loaded, begun)
<1>1. Without(begun, q.name) \in Content BY WithResult, WithoutIsWith DEF RequestState, Records
<1>2. q.kind \in AllKinds /\ q.name \in Names BY DEF RequestState
<1>3. begun \in Sessions /\ Without(begun, q.name) \in Sessions BY <1>1 DEF Sessions
<1> USE DEF IsStarted, Started, WellFormed, Working, RequestState, Labels, Outcomes
<1>4. CASE q.kind = "connect" BY <1>1, <1>2, <1>3, <1>4, ZenonT(60)
<1>5. CASE q.kind = "disconnect" BY <1>1, <1>2, <1>3, <1>5, ZenonT(60)
<1>6. CASE q.kind = "remove" BY <1>1, <1>2, <1>3, <1>6, ZenonT(60)
<1>7. CASE q.kind = "check" BY <1>1, <1>2, <1>3, <1>7, ZenonT(60)
<1>8. CASE q.kind = "logout" BY <1>1, <1>2, <1>3, <1>8, ZenonT(60)
<1>9. CASE q.kind = "use"
  <2>1. q.name \in {m \in Names : Authenticated(begun, m)} <=> Authenticated(begun, q.name) BY <1>2
  <2>2. CASE Authenticated(begun, q.name) BY <1>1, <1>2, <1>3, <1>9, <2>1, <2>2, ZenonT(60)
  <2>3. CASE ~Authenticated(begun, q.name)
    <3>1. Started(q, id, loaded, begun) =
            [q EXCEPT !.pc = "reply", !.id = id, !.new = id # q.id, !.loaded = loaded,
                      !.copy = begun, !.todo = {}, !.outcome = "notConnected"]
      BY <1>9, <2>1, <2>3
    <3> HIDE DEF Started
    <3> QED BY <1>2, <1>3, <1>9, <2>3, <3>1, ZenonT(60)
  <2> QED BY <2>2, <2>3
<1> QED BY <1>2, <1>4, <1>5, <1>6, <1>7, <1>8, <1>9 DEF AllKinds

(* A step of one request leaves the others alone.                           *)
Moves(r, q) ==
  /\ req' \in [Requests -> RequestState] /\ WellFormed(req'[r])
  /\ req'[r] = q
  /\ \A s \in Requests : s # r => req'[s] = req[s]

LEMMA PutMoves ==
  ASSUME TypeOK, NEW r \in Requests, NEW q, WellFormed(q), req' = [req EXCEPT ![r] = q]
  PROVE  Moves(r, q)
BY DEF TypeOK, Moves, WellFormed

(* What an action does between its awaits to the request it is for.         *)
Proceeds(r, q) ==
  /\ Moves(r, q) /\ Working(req[r]) /\ Working(q)
  /\ q.kind = req[r].kind /\ q.name = req[r].name
  /\ q.id = req[r].id /\ q.new = req[r].new /\ q.loaded = req[r].loaded
  /\ UNCHANGED <<sessions, cookie, now, told, touched>>

LEMMA TestedResult ==
  ASSUME TypeOK, NEW r \in Requests, Tested(r)
  PROVE  /\ Proceeds(r, req'[r]) /\ UNCHANGED auto
         /\ \/ /\ req'[r].pc = "save" /\ req'[r].outcome = req[r].outcome
               /\ req'[r].copy = With(req[r].copy, req[r].name, "up")
            \/ /\ req'[r].pc = "reply" /\ req'[r].outcome = "refused"
               /\ req'[r].copy = req[r].copy
<1> DEFINE up == [req[r] EXCEPT !.pc = "save", !.copy = With(req[r].copy, req[r].name, "up")]
           no == [req[r] EXCEPT !.pc = "reply", !.outcome = "refused"]
<1>1. WellFormed(req[r]) /\ Working(req[r]) BY ReqIsWellFormed DEF Tested, Working
<1>2. With(req[r].copy, req[r].name, "up") \in Content
  BY <1>1, WithResult DEF WellFormed, RequestState, Records
<1>3. WellFormed(up) /\ Working(up) /\ WellFormed(no) /\ Working(no)
  BY <1>1, <1>2 DEF WellFormed, Working, RequestState, Labels, Outcomes, Sessions
<1>4. req' = [req EXCEPT ![r] = up] \/ req' = [req EXCEPT ![r] = no] BY DEF Tested
<1>5. Moves(r, up) \/ Moves(r, no) BY <1>3, <1>4, PutMoves
<1> QED BY <1>1, <1>3, <1>5 DEF Proceeds, Moves, Tested, WellFormed, RequestState

LEMMA StoreSavedResult ==
  ASSUME TypeOK, NEW r \in Requests, StoreSaved(r)
  PROVE  /\ Proceeds(r, req'[r]) /\ auto' \subseteq auto /\ req'[r].copy = req[r].copy
         /\ IF req[r].kind = "connect"
              THEN req'[r].pc = "renew" /\ req'[r].outcome = req[r].outcome
              ELSE req'[r].pc = "reply" /\ req'[r].outcome = "done"
<1> DEFINE on == [req[r] EXCEPT !.pc = "renew"]
           off == [req[r] EXCEPT !.pc = "reply", !.outcome = "done"]
<1>1. WellFormed(req[r]) /\ Working(req[r]) BY ReqIsWellFormed DEF StoreSaved, Working
<1>2. WellFormed(on) /\ Working(on) /\ WellFormed(off) /\ Working(off)
  BY <1>1 DEF WellFormed, Working, RequestState, Labels, Outcomes
<1>3. req' = IF req[r].kind = "connect" THEN [req EXCEPT ![r] = on] ELSE [req EXCEPT ![r] = off]
  BY DEF StoreSaved
<1>4. IF req[r].kind = "connect" THEN Moves(r, on) ELSE Moves(r, off) BY <1>2, <1>3, PutMoves
<1>5. auto' \subseteq auto BY DEF StoreSaved
<1> QED BY <1>1, <1>2, <1>4, <1>5 DEF Proceeds, Moves, StoreSaved, WellFormed, RequestState

LEMMA StoreThrowsResult ==
  ASSUME TypeOK, NEW r \in Requests, StoreThrows(r)
  PROVE  /\ Proceeds(r, req'[r]) /\ UNCHANGED auto /\ req'[r].copy = req[r].copy
         /\ req'[r].pc = "reply" /\ req'[r].outcome \in {"refused", "failed"}
<1> DEFINE thrown(o) == [req[r] EXCEPT !.pc = "reply", !.outcome = o]
           o == IF req[r].kind = "connect" THEN "refused" ELSE "failed"
<1>1. WellFormed(req[r]) /\ Working(req[r]) BY ReqIsWellFormed DEF StoreThrows, Working
<1>2. WellFormed(thrown(o)) /\ Working(thrown(o))
  BY <1>1 DEF WellFormed, Working, RequestState, Labels, Outcomes
<1>3. req' = [req EXCEPT ![r] = thrown(o)] BY DEF StoreThrows
<1>4. Moves(r, thrown(o)) BY <1>2, <1>3, PutMoves
<1> QED BY <1>1, <1>2, <1>4 DEF Proceeds, Moves, StoreThrows, WellFormed, RequestState

LEMMA StatusTestedResult ==
  ASSUME TypeOK, NEW r \in Requests, StatusTested(r)
  PROVE  /\ Proceeds(r, req'[r]) /\ UNCHANGED auto
         /\ req[r].pc = "statuses" /\ req'[r].pc = "statuses" /\ req'[r].outcome = req[r].outcome
         /\ \E n \in req[r].todo \intersect Names, status \in {"up", "down"} :
              req'[r].copy = With(req[r].copy, n, status) /\ req'[r].todo = req[r].todo \ {n}
<1>1. WellFormed(req[r]) /\ Working(req[r]) BY ReqIsWellFormed DEF StatusTested, Working
<1>2. PICK n \in req[r].todo, status \in {"up", "down"} :
        req' = [req EXCEPT ![r].copy = With(@, n, status), ![r].todo = @ \ {n}]
  BY DEF StatusTested
<1> DEFINE q == [req[r] EXCEPT !.copy = With(req[r].copy, n, status), !.todo = req[r].todo \ {n}]
<1>3. n \in Names BY <1>1 DEF WellFormed, RequestState
<1>4. With(req[r].copy, n, status) \in Content BY <1>1, <1>3, WithResult DEF WellFormed, Records
<1>5. WellFormed(q) /\ Working(q) BY <1>1, <1>4 DEF WellFormed, Working, RequestState, Sessions
<1>6. req' = [req EXCEPT ![r] = q] BY <1>2
<1>7. Moves(r, q) BY <1>5, <1>6, PutMoves
<1> QED BY <1>1, <1>3, <1>5, <1>7, SMTT(30) DEF Proceeds, Moves, StatusTested, WellFormed, RequestState

LEMMA StoreListedResult ==
  ASSUME TypeOK, NEW r \in Requests, StoreListed(r)
  PROVE  /\ Proceeds(r, req'[r]) /\ UNCHANGED auto /\ req'[r].copy = req[r].copy
         /\ req[r].pc = "statuses"
         /\ \/ req'[r].pc = "auto" /\ req'[r].todo = auto /\ req'[r].outcome = req[r].outcome
            \/ req'[r].pc = "reply" /\ req'[r].outcome = "failed"
<1> DEFINE list == [req[r] EXCEPT !.pc = "auto", !.todo = auto]
           no == [req[r] EXCEPT !.pc = "reply", !.outcome = "failed"]
<1>1. WellFormed(req[r]) /\ Working(req[r]) BY ReqIsWellFormed DEF StoreListed, Working
<1>2. auto \in SUBSET Names BY DEF TypeOK
<1>3. WellFormed(list) /\ Working(list) /\ WellFormed(no) /\ Working(no)
  BY <1>1, <1>2 DEF WellFormed, Working, RequestState, Labels, Outcomes
<1>4. req' = [req EXCEPT ![r] = list] \/ req' = [req EXCEPT ![r] = no] BY DEF StoreListed
<1>5. Moves(r, list) \/ Moves(r, no) BY <1>3, <1>4, PutMoves
<1> QED BY <1>1, <1>3, <1>5 DEF Proceeds, Moves, StoreListed, WellFormed, RequestState

LEMMA AutoConnectedResult ==
  ASSUME TypeOK, NEW r \in Requests, AutoConnected(r)
  PROVE  /\ Proceeds(r, req'[r]) /\ UNCHANGED auto
         /\ req[r].pc = "auto" /\ req'[r].pc = "auto" /\ req'[r].outcome = req[r].outcome
         /\ \E n \in req[r].todo \intersect Names :
              /\ req'[r].todo = req[r].todo \ {n}
              /\ req'[r].copy \in {req[r].copy, With(req[r].copy, n, "up")}
<1>1. WellFormed(req[r]) /\ Working(req[r]) BY ReqIsWellFormed DEF AutoConnected, Working
<1>2. PICK n \in req[r].todo :
        \/ req' = [req EXCEPT ![r].todo = @ \ {n}]
        \/ req' = [req EXCEPT ![r].todo = @ \ {n}, ![r].copy = With(@, n, "up")]
  BY DEF AutoConnected
<1> DEFINE no == [req[r] EXCEPT !.todo = req[r].todo \ {n}]
           on == [req[r] EXCEPT !.todo = req[r].todo \ {n}, !.copy = With(req[r].copy, n, "up")]
<1>3. n \in Names BY <1>1 DEF WellFormed, RequestState
<1>4. With(req[r].copy, n, "up") \in Content BY <1>1, <1>3, WithResult DEF WellFormed, Records
<1>5. WellFormed(no) /\ Working(no) /\ WellFormed(on) /\ Working(on)
  BY <1>1, <1>4 DEF WellFormed, Working, RequestState, Sessions
<1>6. req' = [req EXCEPT ![r] = no] \/ req' = [req EXCEPT ![r] = on] BY <1>2
<1>7. Moves(r, no) \/ Moves(r, on) BY <1>5, <1>6, PutMoves
<1> QED BY <1>1, <1>3, <1>5, <1>7, SMTT(30) DEF Proceeds, Moves, AutoConnected, WellFormed, RequestState

LEMMA FinishedResult ==
  ASSUME TypeOK, NEW r \in Requests, Finished(r)
  PROVE  /\ Proceeds(r, req'[r]) /\ UNCHANGED auto /\ req'[r].copy = req[r].copy
         /\ req[r].pc \in {"auto", "run"} /\ req'[r].pc = "reply"
         /\ req'[r].outcome = IF req[r].outcome = "" THEN "done" ELSE req[r].outcome
<1> DEFINE q == [req[r] EXCEPT !.pc = "reply",
                               !.outcome = IF req[r].outcome = "" THEN "done" ELSE req[r].outcome]
<1>1. WellFormed(req[r]) /\ Working(req[r]) BY ReqIsWellFormed DEF Finished, Working
<1>2. WellFormed(q) /\ Working(q) BY <1>1 DEF WellFormed, Working, RequestState, Labels, Outcomes
<1>3. req' = [req EXCEPT ![r] = q] BY DEF Finished
<1>4. Moves(r, q) BY <1>2, <1>3, PutMoves
<1> QED BY <1>1, <1>2, <1>4 DEF Proceeds, Moves, Finished, WellFormed, RequestState

(* A new id is neither the browser's nor another request's.                 *)
LEMMA RenewResult ==
  ASSUME TypeOK, NEW r \in Requests, Renew(r)
  PROVE  /\ Moves(r, req'[r]) /\ Working(req'[r]) /\ Working(req[r])
         /\ req[r].pc = "renew" /\ req'[r].pc = "reply" /\ req'[r].outcome = "connected"
         /\ req'[r].kind = req[r].kind /\ req'[r].name = req[r].name /\ req'[r].copy = req[r].copy
         /\ req'[r].new /\ req'[r].id \in Ids \ {cookie} /\ req[r].id \in Ids
         /\ sessions' = [sessions EXCEPT ![req[r].id] = NoSession]
         /\ UNCHANGED <<cookie, auto, now, told, touched>>
<1>1. WellFormed(req[r]) /\ Working(req[r]) BY ReqIsWellFormed DEF Renew, Working
<1>2. PICK id \in FreshIds :
        req' = [req EXCEPT ![r].pc = "reply", ![r].id = id, ![r].new = TRUE, ![r].outcome = "connected"]
  BY DEF Renew
<1> DEFINE q == [req[r] EXCEPT !.pc = "reply", !.id = id, !.new = TRUE, !.outcome = "connected"]
<1>3. id \in Ids \ {cookie} BY DEF FreshIds
<1>4. WellFormed(q) /\ Working(q) BY <1>1, <1>3 DEF WellFormed, Working, RequestState, Labels, Outcomes
<1>5. req' = [req EXCEPT ![r] = q] BY <1>2
<1>6. Moves(r, q) BY <1>4, <1>5, PutMoves
<1>7. req'[r] = q /\ q.new /\ q.id = id /\ q.pc = "reply" /\ q.outcome = "connected"
      /\ q.kind = req[r].kind /\ q.name = req[r].name /\ q.copy = req[r].copy
  BY <1>1, <1>6 DEF Moves, WellFormed, RequestState
<1>8. req[r].id \in Ids BY <1>1 DEF WellFormed
<1>9. req[r].pc = "renew" /\ sessions' = [sessions EXCEPT ![req[r].id] = NoSession]
      /\ UNCHANGED <<cookie, auto, now, told, touched>>
  BY DEF Renew
<1> QED BY <1>1, <1>3, <1>4, <1>6, <1>7, <1>8, <1>9, Zenon

LEMMA ArriveResult ==
  ASSUME TypeOK, NEW r \in Requests, Arrive(r)
  PROVE  /\ req[r].pc = "sent"
         /\ \E id \in Ids :
              /\ Moves(r, Started(req[r], id, IF Known(req[r].id) THEN sessions[req[r].id] ELSE NoSession,
                                  Begun(Opened(req[r]), req[r].kind, req[r].name)))
              /\ Known(req[r].id) => id = req[r].id
              /\ ~Known(req[r].id) => id # req[r].id
         /\ touched' = IF req[r].kind = "check" THEN touched ELSE now
         /\ told' = IF Expired(Opened(req[r])) THEN [n \in Names |-> "unknown"] ELSE told
         /\ UNCHANGED <<sessions, cookie, auto, now>>
<1> DEFINE q == req[r]
           loaded == IF Known(q.id) THEN sessions[q.id] ELSE NoSession
           begun == Begun(Opened(q), q.kind, q.name)
<1>1. q \in RequestState BY DEF TypeOK
<1>2. Opened(q) \in Content /\ (Known(q.id) => q.id \in Ids) BY <1>1, OpenedResult
<1>3. begun \in Content BY <1>1, <1>2, BegunResult DEF TypeOK, RequestState
<1>4. loaded \in Sessions BY <1>2 DEF TypeOK, Sessions
<1>5. Opened(q) = IF Known(q.id) THEN loaded ELSE [connections |-> NoConnections, stamp |-> now]
  BY DEF Opened, Empty
<1>6. PICK id \in IF Known(q.id) THEN {q.id} ELSE FreshIds :
        req' = [req EXCEPT ![r] = Started(q, id, loaded, begun)]
  BY <1>5 DEF Arrive
<1>7. id \in Ids /\ (Known(q.id) => id = q.id) /\ (~Known(q.id) => id # q.id)
  BY <1>2, <1>6 DEF FreshIds
<1>8. WellFormed(Started(q, id, loaded, begun))
  <2> HIDE DEF q, loaded, begun
  <2> QED BY <1>1, <1>3, <1>4, <1>7, StartedResult DEF IsStarted
<1>9. Moves(r, Started(q, id, loaded, begun)) BY <1>6, <1>8, PutMoves
<1>10. /\ q.pc = "sent"
       /\ touched' = IF q.kind = "check" THEN touched ELSE now
       /\ told' = IF Expired(Opened(q)) THEN [n \in Names |-> "unknown"] ELSE told
       /\ UNCHANGED <<sessions, cookie, auto, now>>
  BY <1>5 DEF Arrive
<1> QED BY <1>7, <1>9, <1>10

LEMMA SendResult ==
  ASSUME TypeOK, NEW r \in Requests, Send(r)
  PROVE  /\ req[r].pc = "idle"
         /\ \A s \in Requests : InProgress(s) => {req'[r].kind, req[s].kind} \intersect Overlapping # {}
         /\ Moves(r, req'[r]) /\ req'[r].pc = "sent" /\ req'[r].id = cookie /\ req'[r].outcome = ""
         /\ told' = [m \in Names |-> IF m \in Concerned(req'[r].kind, req'[r].name)
                                       THEN "unknown" ELSE told[m]]
         /\ UNCHANGED <<sessions, cookie, auto, now, touched>>
<1>1. PICK kind \in Kinds, n \in Names :
        /\ \A s \in Requests : InProgress(s) => {kind, req[s].kind} \intersect Overlapping # {}
        /\ req' = [req EXCEPT ![r] = [Idle EXCEPT !.pc = "sent", !.kind = kind, !.name = n, !.id = cookie]]
        /\ told' = [m \in Names |-> IF m \in Concerned(kind, n) THEN "unknown" ELSE told[m]]
  BY DEF Send
<1> DEFINE q == [Idle EXCEPT !.pc = "sent", !.kind = kind, !.name = n, !.id = cookie]
<1>2. Idle \in RequestState /\ Idle.outcome = "" BY IdleResult DEF WellFormed
<1>3. kind \in AllKinds /\ cookie \in Ids \union {NoId} BY DEF TypeOK
<1>4. /\ WellFormed(q) /\ q.pc = "sent" /\ q.id = cookie /\ q.outcome = "" /\ q.kind = kind /\ q.name = n
  BY <1>2, <1>3 DEF WellFormed, Working, RequestState, Labels
<1>5. Moves(r, q) BY <1>1, <1>4, PutMoves
<1>6. req'[r] = q BY <1>5 DEF Moves
<1>7. req[r].pc = "idle" /\ UNCHANGED <<sessions, cookie, auto, now, touched>> BY DEF Send, InProgress
<1> HIDE DEF q
<1> QED BY <1>1, <1>4, <1>5, <1>6, <1>7

LEMMA ReplyResult ==
  ASSUME TypeOK, NEW r \in Requests, Reply(r)
  PROVE  /\ req[r].pc = "reply" /\ Working(req[r]) /\ Moves(r, Idle)
         /\ cookie' = IF req[r].new THEN req[r].id ELSE cookie
         /\ \E saved \in {MustSave(req[r]), MaySave(req[r])} :
              LET all == IF saved THEN [sessions EXCEPT ![req[r].id] = req[r].copy] ELSE sessions
              IN  /\ sessions' \in [Ids -> Sessions]
                  /\ \A i \in Ids : sessions'[i] \in {all[i], NoSession} /\ (i = cookie' => sessions'[i] = all[i])
         /\ told' = [told EXCEPT ![req[r].name] = Told(req[r])]
         /\ UNCHANGED <<auto, now, touched>>
<1>1. WellFormed(req[r]) /\ Working(req[r]) BY ReqIsWellFormed DEF Reply, Working
<1>2. Moves(r, Idle) BY IdleResult, PutMoves DEF Reply
<1>3. PICK saved \in {MustSave(req[r]), MaySave(req[r])} :
        sessions' = Reachable(IF saved THEN [sessions EXCEPT ![req[r].id] = req[r].copy]
                             ELSE sessions, cookie', r)
  BY DEF Reply
<1> DEFINE all == IF saved THEN [sessions EXCEPT ![req[r].id] = req[r].copy] ELSE sessions
<1>4. all \in [Ids -> Sessions] BY <1>1 DEF TypeOK, WellFormed, Sessions
<1>5. sessions' = Reachable(all, cookie', r) BY <1>3
<1> HIDE DEF all
<1>6. /\ sessions' \in [Ids -> Sessions]
      /\ \A i \in Ids : sessions'[i] \in {all[i], NoSession} /\ (i = cookie' => sessions'[i] = all[i])
  BY <1>4, <1>5 DEF Reachable, Sessions
<1>7. /\ cookie' = IF req[r].new THEN req[r].id ELSE cookie
      /\ told' = [told EXCEPT ![req[r].name] = Told(req[r])]
      /\ req[r].pc = "reply" /\ UNCHANGED <<auto, now, touched>>
  BY DEF Reply
<1> QED BY <1>1, <1>2, <1>6, <1>7 DEF all

LEMMA TypeOKInit == Init => TypeOK
<1> SUFFICES ASSUME Init PROVE TypeOK OBVIOUS
<1>1. req \in [Requests -> RequestState] BY IdleResult DEF Init, WellFormed
<1>2. \A r \in Requests : req[r].pc = "idle" BY IdleResult DEF Init
<1> QED BY <1>1, <1>2 DEF Init, TypeOK, Sessions

(* TypeOK, given what a step makes of the requests.                         *)
LEMMA TypeOKMoved ==
  ASSUME TypeOK, NEW r \in Requests, NEW q, Moves(r, q),
         sessions' \in [Ids -> Sessions], cookie' \in Ids \union {NoId}, auto' \subseteq auto, UNCHANGED now,
         told' \in [Names -> {"on", "off", "unknown"}], touched' \in {touched, now}
  PROVE  TypeOK'
<1>1. \A s \in Requests : WellFormed(req'[s]) BY ReqIsWellFormed DEF Moves
<1> QED BY <1>1 DEF TypeOK, Moves, WellFormed, Working, Content, Sessions, RequestState

LEMMA TypeOKNext == TypeOK /\ [Next]_vars => TypeOK'
<1> SUFFICES ASSUME TypeOK, [Next]_vars PROVE TypeOK' OBVIOUS
<1> USE DEF TypeOK
<1>1. ASSUME NEW r \in Requests, \E q : Proceeds(r, q), auto' \subseteq auto PROVE TypeOK'
  BY <1>1, TypeOKMoved DEF Proceeds
<1>2. ASSUME NEW r \in Requests, Send(r) PROVE TypeOK'
  <2>1. told' \in [Names -> {"on", "off", "unknown"}] BY <1>2, SendResult
  <2>2. Moves(r, req'[r]) /\ UNCHANGED <<sessions, cookie, auto, now, touched>> BY <1>2, SendResult
  <2> QED BY <2>1, <2>2, TypeOKMoved
<1>3. ASSUME NEW r \in Requests, Arrive(r) PROVE TypeOK'
  BY <1>3, ArriveResult, TypeOKMoved
<1>4. ASSUME NEW r \in Requests, Renew(r) PROVE TypeOK'
  BY <1>4, RenewResult, TypeOKMoved DEF Sessions
<1>5. ASSUME NEW r \in Requests, Reply(r) PROVE TypeOK'
  <2>1. WellFormed(req[r]) /\ Working(req[r]) /\ Moves(r, Idle) /\ sessions' \in [Ids -> Sessions]
        /\ UNCHANGED <<auto, now, touched>>
    BY <1>5, ReplyResult, ReqIsWellFormed
  <2>2. cookie' \in Ids \union {NoId} BY <1>5, <2>1, ReplyResult DEF WellFormed
  <2>3. Told(req[r]) \in {"on", "off", "unknown"} BY <2>1 DEF Told, WellFormed, RequestState
  <2>4. told' \in [Names -> {"on", "off", "unknown"}] BY <1>5, <2>3, ReplyResult
  <2> QED BY <2>1, <2>2, <2>4, TypeOKMoved
<1>6. CASE Restart BY <1>6, IdleResult DEF Restart, WellFormed, Working, Sessions
<1>7. CASE Tick BY <1>7 DEF Tick
<1>8. CASE UNCHANGED vars BY <1>8 DEF vars
<1>9. ASSUME NEW r \in Requests, Proceed(r) PROVE TypeOK'
  <2>1. CASE Tested(r) BY <2>1, <1>1, TestedResult
  <2>2. CASE StoreSaved(r) BY <2>2, <1>1, StoreSavedResult
  <2>3. CASE StoreThrows(r) BY <2>3, <1>1, StoreThrowsResult
  <2>4. CASE StatusTested(r) BY <2>4, <1>1, StatusTestedResult
  <2>5. CASE StoreListed(r) BY <2>5, <1>1, StoreListedResult
  <2>6. CASE AutoConnected(r) BY <2>6, <1>1, AutoConnectedResult
  <2>7. CASE Finished(r) BY <2>7, <1>1, FinishedResult
  <2> QED BY <1>3, <1>4, <1>5, <1>9, <2>1, <2>2, <2>3, <2>4, <2>5, <2>6, <2>7 DEF Proceed
<1> QED BY <1>2, <1>6, <1>7, <1>8, <1>9 DEF Next

(* The type invariant of ConsoleSession.                                    *)
THEOREM TypeCorrect == Spec => []TypeOK
BY TypeOKInit, TypeOKNext, PTL DEF Spec
-------------------------------------------------------------------------------
(* Whatever overlaps: a session that has been used since it was stamped has *)
(* nothing on but what a poll may log on, and no stamp is ahead of its      *)
(* time.  A request other than a poll is itself a use.                      *)
AgedAt(content, time, used) ==
  /\ content.stamp <= time
  /\ content.stamp <= used \/ \A n \in Names \ AutoConnect : ~Authenticated(content, n)
Aged(content) == AgedAt(content, now, touched)

Polled(q) ==
  /\ q.pc = "statuses" => \A n \in q.todo : Authenticated(q.copy, n)
  /\ q.pc = "auto" => q.todo \subseteq AutoConnect

Ages ==
  /\ touched <= now
  /\ \A i \in Ids : sessions[i] # NoSession => Aged(sessions[i])
  /\ \A r \in Requests :
       /\ req[r].pc = "sent" => req[r].outcome = ""
       /\ req[r].pc = "test" => req[r].kind # "check"
       /\ Working(req[r]) =>
            /\ Aged(req[r].copy)
            /\ req[r].kind # "check" => req[r].copy.stamp <= touched
            /\ Polled(req[r])

LEMMA AuthenticatedWith ==
  ASSUME NEW content \in Content, NEW n \in Names, NEW record \in Records, NEW m \in Names
  PROVE  Authenticated(With(content, n, record), m) <=>
           IF m = n THEN record \in {"up", "down"} ELSE Authenticated(content, m)
BY WithResult DEF Authenticated

LEMMA UsedInTime == TypeOK /\ Ages => touched <= now /\ touched \in Nat /\ now \in Nat
<1>1. Ages => touched <= now BY DEF Ages
<1>2. TypeOK => touched \in Nat /\ now \in Nat BY DEF TypeOK
<1> QED BY <1>1, <1>2

LEMMA AgesInit == Init => Ages
<1> SUFFICES ASSUME Init PROVE Ages OBVIOUS
<1>1. \A r \in Requests : req[r].pc = "idle" BY IdleResult DEF Init
<1>2. touched <= now /\ \A i \in Ids : sessions[i] = NoSession BY DEF Init
<1> QED BY <1>1, <1>2 DEF Ages, Working

LEMMA AgesProceeds ==
  ASSUME TypeOK, Ages, NEW r \in Requests, NEW q, Proceeds(r, q), q.pc # "test",
         q.copy.stamp = req[r].copy.stamp, Aged(q.copy), Polled(q)
  PROVE  Ages'
<1>1. q.pc # "sent" BY DEF Proceeds, Working
<1> QED BY <1>1, ZenonT(60) DEF Proceeds, Moves, Ages, Aged, Polled

LEMMA AgedWith ==
  ASSUME TypeOK, NEW content \in Content, Aged(content), NEW n \in Names, NEW record \in Records,
         \/ record \notin {"up", "down"}
         \/ content.stamp <= touched
         \/ n \in AutoConnect
         \/ Authenticated(content, n)
  PROVE  Aged(With(content, n, record))
BY AuthenticatedWith, WithResult DEF Aged, AgedAt

LEMMA AgesAwaits ==
  ASSUME TypeOK, Ages, NEW r \in Requests,
         \/ Tested(r) \/ StoreSaved(r) \/ StoreThrows(r)
         \/ StatusTested(r) \/ StoreListed(r) \/ AutoConnected(r) \/ Finished(r)
  PROVE  Ages'
<1> DEFINE q == req[r]
<1>1. WellFormed(q) BY ReqIsWellFormed
<1>2. Working(q) => q.copy \in Content /\ q.name \in Names BY <1>1 DEF WellFormed, RequestState
<1>3. Working(q) => Aged(q.copy) /\ Polled(q) BY DEF Ages
<1>4. CASE Tested(r)
  <2>1. q.pc = "test" /\ Working(q) BY <1>4 DEF Tested, Working
  <2>2. q.copy.stamp <= touched BY <2>1 DEF Ages
  <2>3. Aged(With(q.copy, q.name, "up")) BY <1>2, <1>3, <2>1, <2>2, AgedWith DEF Records
  <2>4. With(q.copy, q.name, "up").stamp = q.copy.stamp BY <1>2, <2>1, WithResult, ZenonT(60) DEF Records
  <2> QED BY <1>3, <1>4, <2>1, <2>3, <2>4, TestedResult, AgesProceeds DEF Polled
<1>5. CASE StoreSaved(r) BY <1>3, <1>5, StoreSavedResult, AgesProceeds DEF Polled, Proceeds
<1>6. CASE StoreThrows(r) BY <1>3, <1>6, StoreThrowsResult, AgesProceeds DEF Polled, Proceeds
<1>7. CASE StatusTested(r)
  <2>1. Proceeds(r, req'[r]) /\ q.pc = "statuses" /\ req'[r].pc = "statuses" /\ Working(q)
    BY <1>7, StatusTestedResult DEF Proceeds
  <2>2. PICK n \in q.todo \intersect Names, status \in {"up", "down"} :
          req'[r].copy = With(q.copy, n, status) /\ req'[r].todo = q.todo \ {n}
    BY <1>7, StatusTestedResult
  <2>3. status \in Records /\ Authenticated(q.copy, n) BY <1>3, <2>1, <2>2 DEF Records, Polled
  <2>4. Aged(With(q.copy, n, status)) /\ With(q.copy, n, status).stamp = q.copy.stamp
    BY <1>2, <1>3, <2>1, <2>3, AgedWith, WithResult
  <2>5. \A m \in req'[r].todo : Authenticated(req'[r].copy, m)
    BY <1>1, <1>2, <1>3, <2>1, <2>2, <2>3, AuthenticatedWith DEF Polled, WellFormed, RequestState
  <2> QED BY <2>1, <2>2, <2>4, <2>5, AgesProceeds DEF Polled
<1>8. CASE StoreListed(r)
  <2>1. auto \subseteq AutoConnect BY DEF TypeOK
  <2> QED BY <1>3, <1>8, <2>1, StoreListedResult, AgesProceeds DEF Polled, Proceeds
<1>9. CASE AutoConnected(r)
  <2>1. Proceeds(r, req'[r]) /\ q.pc = "auto" /\ req'[r].pc = "auto" /\ Working(q)
    BY <1>9, AutoConnectedResult DEF Proceeds
  <2>2. PICK n \in q.todo \intersect Names :
          req'[r].todo = q.todo \ {n} /\ req'[r].copy \in {q.copy, With(q.copy, n, "up")}
    BY <1>9, AutoConnectedResult
  <2>3. n \in AutoConnect BY <1>3, <2>1, <2>2 DEF Polled
  <2>4. Aged(With(q.copy, n, "up")) /\ With(q.copy, n, "up").stamp = q.copy.stamp
    BY <1>2, <1>3, <2>1, <2>3, AgedWith, WithResult DEF Records
  <2> QED BY <1>3, <2>1, <2>2, <2>4, AgesProceeds DEF Polled
<1>10. CASE Finished(r) BY <1>3, <1>10, FinishedResult, AgesProceeds DEF Polled, Proceeds
<1> QED BY <1>4, <1>5, <1>6, <1>7, <1>8, <1>9, <1>10

(* What is stored is as old as it was, or comes of a request.               *)
LEMMA AgesStored ==
  ASSUME TypeOK, Ages, NEW r \in Requests, NEW q, Moves(r, q), UNCHANGED <<now, touched>>,
         \A i \in Ids : sessions'[i] \in {sessions[i], NoSession} \/ (Working(req[r]) /\ sessions'[i] = req[r].copy),
         \/ ~Working(q) /\ (q.pc = "sent" => q.outcome = "")
         \/ Working(req[r]) /\ q.pc = "reply" /\ q.copy = req[r].copy /\ q.kind = req[r].kind
  PROVE  Ages'
<1>1. \A i \in Ids : sessions'[i] # NoSession => Aged(sessions'[i]) BY DEF Ages
<1> QED BY <1>1 DEF Moves, Ages, Aged, Polled, Working

LEMMA AgesArrive ==
  ASSUME TypeOK, Ages, NEW r \in Requests, Arrive(r)
  PROVE  Ages'
<1> DEFINE q == req[r]
           begun == Begun(Opened(q), q.kind, q.name)
           loaded == IF Known(q.id) THEN sessions[q.id] ELSE NoSession
           StillAged(content) == AgedAt(content, now', touched')
<1>1. /\ now \in Nat /\ touched \in Nat /\ touched <= now /\ UNCHANGED <<sessions, now>>
      /\ touched' = IF q.kind = "check" THEN touched ELSE now
  BY ArriveResult, UsedInTime
<1>2. q \in RequestState /\ q.name \in Names BY DEF TypeOK, RequestState
<1>3. Opened(q) \in Content BY <1>2, OpenedResult
<1>4. Aged(Opened(q))
  <2>1. CASE Known(q.id) BY <1>2, <2>1, OpenedResult DEF Ages, Known
  <2>2. CASE ~Known(q.id)
    <3>1. Opened(q) = Empty BY <1>2, <2>2, OpenedResult
    <3>2. Empty.stamp = now BY DEF Empty
    <3> QED BY <1>1, <3>1, <3>2, EmptyResult DEF Aged, AgedAt, TypeOK, Authenticated
  <2> QED BY <2>1, <2>2
<1>5. begun \in Content /\ begun.stamp \in {Opened(q).stamp, now} BY <1>2, <1>3, BegunResult DEF TypeOK
<1>6. begun.stamp \in Nat /\ begun.stamp <= now BY <1>1, <1>3, <1>4, <1>5 DEF Aged, AgedAt, Content
<1>7. ASSUME NEW content \in Content, Aged(content) PROVE StillAged(content)
  BY <1>1, <1>7 DEF Aged, AgedAt, Content
<1>8. q.kind = "check" => begun.stamp <= touched \/ \A n \in Names \ AutoConnect : ~Authenticated(begun, n)
  <2>1. CASE Expired(Opened(q))
    <3>1. \A n \in Names : begun.connections[n] = "none" BY <1>2, <1>3, <2>1, BegunResult DEF TypeOK
    <3> QED BY <3>1 DEF Authenticated
  <2>2. CASE q.kind = "check" /\ ~Expired(Opened(q))
    <3>1. /\ begun.stamp = Opened(q).stamp
          /\ \A n \in Names : begun.connections[n] = Opened(q).connections[n]
      BY <1>2, <1>3, <2>2, BegunResult DEF TypeOK
    <3> QED BY <1>1, <1>3, <1>4, <3>1 DEF Aged, AgedAt, Authenticated, Content
  <2> QED BY <2>1, <2>2
<1>9. PICK id \in Ids : Moves(r, Started(q, id, loaded, begun)) BY ArriveResult
<1>10. loaded \in Sessions BY <1>2, OpenedResult DEF Sessions, TypeOK
<1> DEFINE s == Started(q, id, loaded, begun)
<1>11. /\ s.kind = q.kind /\ s.name = q.name /\ Working(s)
       /\ s.copy = IF q.kind \in {"disconnect", "remove"} THEN Without(begun, q.name) ELSE begun
       /\ s.todo = IF q.kind = "check" THEN {m \in Names : Authenticated(begun, m)} ELSE {}
       /\ s.pc = "test" => q.kind = "connect"
       /\ s.pc # "auto" /\ s.pc # "sent"
       /\ s.pc = "statuses" => q.kind = "check"
  <2> HIDE DEF q, loaded, begun
  <2> QED BY <1>2, <1>5, <1>9, <1>10, StartedResult DEF IsStarted, Working
<1>12. req'[r] = s BY <1>9 DEF Moves
<1>13. \A t \in Requests : t # r => req'[t] = req[t] BY <1>9 DEF Moves
<1> HIDE DEF s, begun, q
<1>14. s.copy.stamp = begun.stamp
  <2>1. Without(begun, q.name).stamp = begun.stamp BY <1>2, <1>5, WithResult, WithoutIsWith DEF Records
  <2> QED BY <1>11, <2>1
<1>15. StillAged(s.copy) /\ (s.kind # "check" => s.copy.stamp <= touched')
  BY <1>1, <1>6, <1>8, <1>11, <1>14 DEF AgedAt
<1>16. Polled(s) BY <1>11 DEF Polled
<1>17. \A i \in Ids : sessions'[i] # NoSession => StillAged(sessions'[i])
  BY <1>1, <1>7 DEF Ages, TypeOK, Sessions
<1>18. ASSUME NEW t \in Requests, t # r
       PROVE  /\ req'[t].pc = "sent" => req'[t].outcome = ""
              /\ req'[t].pc = "test" => req'[t].kind # "check"
              /\ Working(req'[t]) =>
                   /\ StillAged(req'[t].copy) /\ Polled(req'[t])
                   /\ req'[t].kind # "check" => req'[t].copy.stamp <= touched'
  <2>1. req'[t] = req[t] BY <1>13, <1>18
  <2>2. Working(req[t]) => req[t].copy \in Content BY ReqIsWellFormed DEF WellFormed
  <2>3. Working(req[t]) => StillAged(req[t].copy) BY <1>7, <2>2 DEF Ages
  <2>4. Working(req[t]) /\ req[t].kind # "check" => req[t].copy.stamp <= touched'
    <3>1. Working(req[t]) /\ req[t].kind # "check" => req[t].copy.stamp <= touched BY DEF Ages
    <3> QED BY <1>1, <2>2, <3>1 DEF Content
  <2> QED BY <2>1, <2>3, <2>4 DEF Ages
<1>19. touched' <= now' BY <1>1
<1> QED BY <1>11, <1>12, <1>15, <1>16, <1>17, <1>18, <1>19 DEF Ages, Aged

LEMMA AgesNext == TypeOK /\ Ages /\ [Next]_vars => Ages'
<1> SUFFICES ASSUME TypeOK, Ages, [Next]_vars PROVE Ages' OBVIOUS
<1>1. ASSUME NEW r \in Requests, Send(r) PROVE Ages'
  BY <1>1, SendResult, AgesStored DEF Working
<1>2. ASSUME NEW r \in Requests, Renew(r) PROVE Ages'
  BY <1>2, RenewResult, AgesStored DEF TypeOK
<1>3. ASSUME NEW r \in Requests, Reply(r) PROVE Ages'
  <2>1. Moves(r, Idle) /\ Working(req[r]) /\ UNCHANGED <<now, touched>> BY <1>3, ReplyResult
  <2>2. \A i \in Ids : sessions'[i] \in {sessions[i], NoSession, req[r].copy}
    BY <1>3, ReplyResult DEF TypeOK
  <2> QED BY <2>1, <2>2, IdleResult, AgesStored DEF Working
<1>4. CASE Restart BY <1>4, IdleResult DEF Restart, Ages, Working
<1>5. CASE Tick
  <2>1. UNCHANGED <<sessions, req, touched>> /\ now' = now + 1 /\ now \in Nat /\ touched \in Nat
    BY <1>5 DEF Tick, TypeOK
  <2>2. ASSUME NEW content \in Content, Aged(content) PROVE AgedAt(content, now', touched')
    BY <2>1, <2>2 DEF Aged, AgedAt, Content
  <2>3. \A i \in Ids : sessions[i] # NoSession => AgedAt(sessions[i], now', touched')
    BY <2>2 DEF Ages, TypeOK, Sessions
  <2>4. \A r \in Requests : Working(req[r]) => AgedAt(req[r].copy, now', touched')
    BY <2>2, ReqIsWellFormed DEF Ages, WellFormed
  <2>5. touched' <= now' BY <2>1, UsedInTime
  <2> QED BY <2>1, <2>3, <2>4, <2>5 DEF Ages, Aged, Polled
<1>6. CASE UNCHANGED vars BY <1>6 DEF vars, Ages, Aged, Polled
<1> QED BY <1>1, <1>2, <1>3, <1>4, <1>5, <1>6, AgesAwaits, AgesArrive DEF Next, Proceed

(* What arrives, and is served at once, comes of a session that did not     *)
(* expire: it is not older than the last use.                               *)
LEMMA ServedIsUsed ==
  ASSUME TypeOK, Ages, [Next]_vars, ~SignonTimeout, NEW r \in Requests,
         req[r].pc = "sent", req'[r].outcome = "served"
  PROVE  req[r].name \in AutoConnect \/ now <= touched + IdleLimit
<1> DEFINE q == req[r]
<1>1. q.outcome # "served" BY DEF Ages
<1>2. ASSUME NEW t \in Requests, NEW p, Proceeds(t, p) PROVE FALSE
  BY <1>1, <1>2 DEF Proceeds, Moves, Working
<1>3. Arrive(r)
  <2>1. ~Restart /\ ~Tick /\ ~UNCHANGED vars BY <1>1, IdleResult DEF Restart, Tick, vars
  <2>2. ASSUME NEW t \in Requests, Send(t) PROVE FALSE BY <1>1, <2>2, SendResult DEF Moves
  <2>3. ASSUME NEW t \in Requests, Arrive(t), t # r PROVE FALSE BY <1>1, <2>3, ArriveResult DEF Moves
  <2>4. ASSUME NEW t \in Requests, Renew(t) PROVE FALSE BY <1>1, <2>4, RenewResult DEF Moves, Working
  <2>5. ASSUME NEW t \in Requests, Reply(t) PROVE FALSE BY <1>1, <2>5, ReplyResult, IdleResult DEF Moves
  <2> QED BY <1>2, <2>1, <2>2, <2>3, <2>4, <2>5, TestedResult, StoreSavedResult, StoreThrowsResult,
             StatusTestedResult, StoreListedResult, AutoConnectedResult, FinishedResult, ZenonT(60) DEF Next, Proceed
<1> DEFINE begun == Begun(Opened(q), q.kind, q.name)
           loaded == IF Known(q.id) THEN sessions[q.id] ELSE NoSession
<1>4. q \in RequestState /\ q.name \in Names /\ now \in 0..MaxTime BY DEF TypeOK, RequestState
<1>5. Opened(q) \in Content /\ begun \in Content /\ loaded \in Sessions
  BY <1>4, OpenedResult, BegunResult DEF Sessions, TypeOK
<1>6. PICK id \in Ids : req'[r] = Started(q, id, loaded, begun) BY <1>3, ArriveResult DEF Moves
<1>7. q.kind = "use" /\ Authenticated(begun, q.name)
  <2>1. req'[r].outcome = "served" OBVIOUS
  <2> HIDE DEF q, loaded, begun
  <2>2. IsStarted(req'[r], q, id, loaded, begun) BY <1>4, <1>5, <1>6, StartedResult
  <2> QED BY <2>1, <2>2 DEF IsStarted
<1>8. ~Expired(Opened(q)) /\ Authenticated(Opened(q), q.name)
  BY <1>4, <1>5, <1>7, BegunResult DEF Authenticated
<1>9. Known(q.id) /\ Opened(q) = sessions[q.id] /\ q.id \in Ids
  BY <1>4, <1>8, OpenedResult, EmptyResult DEF Authenticated
<1>10. Aged(Opened(q)) BY <1>9 DEF Ages, Known
<1>11. now <= Opened(q).stamp + IdleLimit BY <1>4, <1>5, <1>8 DEF Expired, Content
<1> QED BY <1>4, <1>5, <1>8, <1>10, <1>11 DEF Aged, AgedAt, Content, TypeOK

(* A session left alone serves no connection that its user logged on to,    *)
(* whatever requests overlap and however late their copies are stored.      *)
THEOREM IdleServesNothing == Spec => IdleSessionServesNothing
<1>1. TypeOK /\ Ages /\ [Next]_vars =>
        [~SignonTimeout =>
           \A r \in Requests :
             req[r].pc = "sent" /\ req'[r].outcome = "served" =>
               req[r].name \in AutoConnect \/ now <= touched + IdleLimit]_vars
  BY ServedIsUsed
<1>2. Spec => []Ages BY AgesInit, AgesNext, TypeCorrect, PTL DEF Spec
<1> QED BY <1>1, <1>2, TypeCorrect, PTL DEF Spec, IdleSessionServesNothing
-------------------------------------------------------------------------------
(* One request at a time: what the browser was told is true of the copy     *)
(* that the request works on, and of the session when there is no request;  *)
(* what the request is about has been withdrawn.  A request whose session   *)
(* is not new has taken it from the store, where it still is.               *)
Agrees(content, says) ==
  \A n \in Names : /\ says[n] = "off" => ~Authenticated(content, n)
                   /\ says[n] = "on" => Authenticated(content, n)

Withdrawn(q, says, marked) ==
  /\ q.kind \notin {"use", "check"} => says[q.name] = "unknown"
  /\ q.kind = "check" => \A n \in marked : says[n] = "unknown"

Stages(q) ==
  /\ q.pc \in {"test", "renew"} => q.kind = "connect"
  /\ q.pc \in {"statuses", "auto"} => q.kind = "check"
  /\ q.pc = "save" => q.kind \in {"connect", "remove"}
  /\ q.pc = "renew" \/ (q.pc = "save" /\ q.kind = "connect") \/ q.outcome = "connected"
       => q.kind = "connect" /\ Authenticated(q.copy, q.name)
  /\ q.kind \in {"disconnect", "remove"} => ~Authenticated(q.copy, q.name)

Serial ==
  /\ \A r, s \in Requests : InProgress(r) /\ InProgress(s) => r = s
  /\ (\A r \in Requests : ~Working(req[r])) => Agrees(Current, told)
  /\ \A r \in Requests :
       /\ req[r].pc = "sent" => req[r].id = cookie
       /\ InProgress(r) => Withdrawn(req[r], told, auto)
       /\ req[r].pc = "auto" => req[r].todo \subseteq auto
       /\ Working(req[r]) =>
            /\ Agrees(req[r].copy, told) /\ Stages(req[r])
            /\ ~req[r].new => req[r].id = cookie /\ sessions[cookie] = req[r].loaded

LEMMA SerialInit == Init => Serial
<1> SUFFICES ASSUME Init PROVE Serial OBVIOUS
<1>1. \A r \in Requests : req[r].pc = "idle" BY IdleResult DEF Init
<1>2. Agrees(Current, told) BY DEF Init, Agrees
<1> QED BY <1>1, <1>2 DEF Serial, Working, InProgress

LEMMA WorksAlone ==
  ASSUME Serial, NEW r \in Requests, InProgress(r), NEW s \in Requests, s # r
  PROVE  req[s].pc = "idle" /\ ~Working(req[s])
BY DEF Serial, InProgress, Working

LEMMA SerialProceeds ==
  ASSUME TypeOK, Serial, NEW r \in Requests, NEW q, Proceeds(r, q), auto' \subseteq auto,
         Agrees(q.copy, told), Stages(q), q.pc = "auto" => q.todo \subseteq auto'
  PROVE  Serial'
<1>1. InProgress(r) BY DEF Proceeds, Working, InProgress
<1>2. \A s \in Requests : s # r => req'[s] = req[s] /\ req[s].pc = "idle" /\ ~Working(req[s])
  BY <1>1, WorksAlone DEF Proceeds, Moves
<1>3. req'[r] = q /\ Working(q) /\ q.pc \notin {"idle", "sent"} BY DEF Proceeds, Moves, Working
<1>4. /\ q.kind = req[r].kind /\ q.name = req[r].name /\ q.id = req[r].id /\ q.new = req[r].new
      /\ q.loaded = req[r].loaded /\ UNCHANGED <<sessions, cookie, told>>
  BY DEF Proceeds
<1>5. Withdrawn(q, told, auto') BY <1>1, <1>4 DEF Serial, Withdrawn
<1>6. ~q.new => q.id = cookie /\ sessions[cookie] = q.loaded BY <1>4 DEF Serial, Proceeds
<1> QED BY <1>2, <1>3, <1>4, <1>5, <1>6 DEF Serial, InProgress

(* What a record says of a connection that was withdrawn does not matter.   *)
LEMMA AgreesWith ==
  ASSUME NEW content \in Content, NEW says, Agrees(content, says),
         NEW n \in Names, NEW record \in Records,
         \/ says[n] = "unknown"
         \/ Authenticated(content, n) /\ record \in {"up", "down"}
  PROVE  Agrees(With(content, n, record), says)
BY AuthenticatedWith DEF Agrees

LEMMA SerialAwaits ==
  ASSUME TypeOK, Ages, Serial, NEW r \in Requests,
         \/ Tested(r) \/ StoreSaved(r) \/ StoreThrows(r)
         \/ StatusTested(r) \/ StoreListed(r) \/ AutoConnected(r) \/ Finished(r)
  PROVE  Serial'
<1> DEFINE q == req[r]
<1>1. WellFormed(q) BY ReqIsWellFormed
<1>2. Working(q) => q.copy \in Content /\ q.name \in Names BY <1>1 DEF WellFormed, RequestState
<1>3. Working(q) => Agrees(q.copy, told) /\ Stages(q) /\ Withdrawn(q, told, auto)
                    /\ (q.pc = "auto" => q.todo \subseteq auto)
  BY DEF Serial, Working, InProgress
<1>4. CASE Tested(r)
  <2>1. q.pc = "test" /\ Working(q) /\ Proceeds(r, req'[r]) BY <1>4, TestedResult DEF Tested, Working
  <2>2. told[q.name] = "unknown" /\ q.kind = "connect" BY <1>3, <2>1 DEF Withdrawn, Stages
  <2>3. /\ Agrees(With(q.copy, q.name, "up"), told)
        /\ Authenticated(With(q.copy, q.name, "up"), q.name)
    BY <1>2, <1>3, <2>1, <2>2, AgreesWith, AuthenticatedWith DEF Records
  <2>4. req'[r].kind = "connect" /\ req'[r].name = q.name BY <2>1, <2>2 DEF Proceeds
  <2>5. Agrees(req'[r].copy, told) /\ Stages(req'[r]) /\ req'[r].pc # "auto"
    BY <1>3, <1>4, <2>1, <2>3, <2>4, TestedResult DEF Stages
  <2> QED BY <1>4, <2>1, <2>5, SerialProceeds, TestedResult
<1>5. CASE StoreSaved(r)
  <2>1. /\ Proceeds(r, req'[r]) /\ auto' \subseteq auto /\ q.pc = "save" /\ Working(q)
        /\ req'[r].copy = q.copy /\ req'[r].kind = q.kind /\ req'[r].name = q.name
        /\ req'[r].pc # "auto"
    BY <1>5, StoreSavedResult DEF Proceeds, StoreSaved
  <2>2. Stages(req'[r]) BY <1>3, <1>5, <2>1, StoreSavedResult DEF Stages
  <2> QED BY <1>3, <2>1, <2>2, SerialProceeds
<1>6. CASE StoreThrows(r)
  <2>1. Proceeds(r, req'[r]) /\ UNCHANGED auto /\ req'[r].pc = "reply" /\ req'[r].copy = q.copy /\ Working(q)
        /\ req'[r].kind = q.kind /\ req'[r].name = q.name /\ req'[r].outcome # "connected"
    BY <1>6, StoreThrowsResult DEF Proceeds
  <2>2. Stages(req'[r]) BY <1>3, <2>1 DEF Stages
  <2> QED BY <1>3, <2>1, <2>2, SerialProceeds
<1>7. CASE StatusTested(r)
  <2>1. /\ Proceeds(r, req'[r]) /\ q.pc = "statuses" /\ req'[r].pc = "statuses" /\ Working(q) /\ UNCHANGED auto
        /\ req'[r].kind = q.kind /\ req'[r].name = q.name /\ req'[r].outcome = q.outcome
    BY <1>7, StatusTestedResult DEF Proceeds
  <2>2. PICK n \in q.todo \intersect Names, status \in {"up", "down"} :
          req'[r].copy = With(q.copy, n, status) /\ req'[r].todo = q.todo \ {n}
    BY <1>7, StatusTestedResult
  <2>3. status \in Records /\ Authenticated(q.copy, n) BY <2>1, <2>2 DEF Records, Ages, Polled
  <2>4. Agrees(req'[r].copy, told) BY <1>2, <1>3, <2>1, <2>2, <2>3, AgreesWith
  <2>5. q.kind = "check" BY <1>3, <2>1 DEF Stages
  <2>6. Stages(req'[r]) BY <1>3, <2>1, <2>5 DEF Stages
  <2> QED BY <2>1, <2>4, <2>6, SerialProceeds
<1>8. CASE StoreListed(r)
  <2>1. /\ Proceeds(r, req'[r]) /\ UNCHANGED auto /\ req'[r].copy = q.copy /\ Working(q) /\ q.pc = "statuses"
        /\ req'[r].kind = q.kind /\ req'[r].name = q.name
        /\ (req'[r].pc = "auto" => req'[r].todo = auto)
        /\ req'[r].pc \in {"auto", "reply"} /\ (req'[r].outcome # q.outcome => req'[r].outcome = "failed")
    BY <1>8, StoreListedResult DEF Proceeds
  <2>2. Stages(req'[r]) BY <1>3, <2>1 DEF Stages
  <2> QED BY <1>3, <2>1, <2>2, SerialProceeds
<1>9. CASE AutoConnected(r)
  <2>1. /\ Proceeds(r, req'[r]) /\ q.pc = "auto" /\ req'[r].pc = "auto" /\ Working(q) /\ UNCHANGED auto
        /\ req'[r].kind = q.kind /\ req'[r].name = q.name /\ req'[r].outcome = q.outcome
    BY <1>9, AutoConnectedResult DEF Proceeds
  <2>2. PICK n \in q.todo \intersect Names :
          req'[r].todo = q.todo \ {n} /\ req'[r].copy \in {q.copy, With(q.copy, n, "up")}
    BY <1>9, AutoConnectedResult
  <2>3. q.kind = "check" BY <1>3, <2>1 DEF Stages
  <2>4. told[n] = "unknown" BY <1>3, <2>1, <2>2, <2>3 DEF Withdrawn
  <2>5. Agrees(With(q.copy, n, "up"), told) BY <1>2, <1>3, <2>1, <2>4, AgreesWith DEF Records
  <2>6. Agrees(req'[r].copy, told) BY <1>3, <2>1, <2>2, <2>5
  <2>7. Stages(req'[r]) BY <1>3, <2>1, <2>3 DEF Stages
  <2>8. req'[r].todo \subseteq auto' BY <1>3, <2>1, <2>2
  <2> QED BY <2>1, <2>6, <2>7, <2>8, SerialProceeds
<1>10. CASE Finished(r)
  <2>1. /\ Proceeds(r, req'[r]) /\ UNCHANGED auto /\ req'[r].copy = q.copy /\ Working(q)
        /\ req'[r].kind = q.kind /\ req'[r].name = q.name /\ req'[r].pc = "reply"
        /\ (req'[r].outcome # q.outcome => req'[r].outcome = "done")
    BY <1>10, FinishedResult DEF Proceeds
  <2>2. Stages(req'[r]) BY <1>3, <2>1 DEF Stages
  <2> QED BY <1>3, <2>1, <2>2, SerialProceeds
<1> QED BY <1>4, <1>5, <1>6, <1>7, <1>8, <1>9, <1>10

(* What the browser was told less of agrees with no less.                   *)
LEMMA AgreesForgets ==
  ASSUME NEW content, NEW says, NEW less, Agrees(content, says),
         \A n \in Names : less[n] \in {says[n], "unknown"}
  PROVE  Agrees(content, less)
BY DEF Agrees

LEMMA SerialMoved ==
  ASSUME Serial, NEW r \in Requests, NEW q, Moves(r, q), q.pc # "idle",
         \A s \in Requests : s # r => ~InProgress(s),
         q.pc = "sent" => q.id = cookie' /\ Agrees(Current', told'),
         Withdrawn(q, told', auto'), q.pc # "auto",
         Working(q) => /\ Agrees(q.copy, told') /\ Stages(q)
                       /\ ~q.new => q.id = cookie' /\ sessions'[cookie'] = q.loaded
  PROVE  Serial'
<1>1. \A s \in Requests : s # r => req'[s] = req[s] /\ req[s].pc = "idle" /\ ~Working(req[s])
  BY DEF Moves, InProgress, Working
<1>2. req'[r] = q BY DEF Moves
<1>3. q.pc # "sent" => Working(q) BY DEF Working
<1> QED BY <1>1, <1>2, <1>3 DEF Serial, InProgress

LEMMA SerialSend ==
  ASSUME Overlapping = {}, TypeOK, Serial, NEW r \in Requests, Send(r)
  PROVE  Serial'
<1> DEFINE q == req'[r]
<1>1. \A s \in Requests : ~InProgress(s) BY SendResult
<1>2. /\ Moves(r, q) /\ q.pc = "sent" /\ q.id = cookie
      /\ told' = [m \in Names |-> IF m \in Concerned(q.kind, q.name) THEN "unknown" ELSE told[m]]
      /\ UNCHANGED <<sessions, cookie, auto>>
  BY SendResult
<1>3. q \in RequestState /\ q.name \in Names BY <1>2 DEF Moves, RequestState
<1> HIDE DEF q
<1>4. Agrees(Current, told) BY <1>1 DEF Serial, InProgress, Working
<1>5. \A n \in Names : told'[n] \in {told[n], "unknown"} BY <1>2
<1>6. Agrees(Current, told') BY <1>4, <1>5, AgreesForgets
<1>7. Agrees(Current', told') BY <1>2, <1>6 DEF Current
<1>8. auto \subseteq Names BY DEF TypeOK
<1>9. Withdrawn(q, told', auto')
  <2>1. CASE q.kind = "check" BY <1>2, <1>8, <2>1 DEF Withdrawn, Concerned
  <2>2. CASE q.kind \notin {"check", "use"}
    <3>1. q.name \in Concerned(q.kind, q.name) BY <2>2 DEF Concerned
    <3> QED BY <1>2, <1>3, <2>2, <3>1 DEF Withdrawn
  <2>3. CASE q.kind = "use" BY <2>3 DEF Withdrawn
  <2> QED BY <2>1, <2>2, <2>3
<1>10. ~Working(q) BY <1>2 DEF Working
<1> QED BY <1>1, <1>2, <1>7, <1>9, <1>10, SerialMoved

LEMMA SerialArrive ==
  ASSUME TypeOK, Serial, NEW r \in Requests, Arrive(r)
  PROVE  Serial'
<1> DEFINE q == req[r]
           opened == Opened(q)
           begun == Begun(opened, q.kind, q.name)
           loaded == IF Known(q.id) THEN sessions[q.id] ELSE NoSession
<1>1. q.pc = "sent" /\ q.id = cookie /\ InProgress(r) BY ArriveResult DEF Serial, InProgress
<1>2. \A s \in Requests : ~Working(req[s]) BY <1>1, WorksAlone DEF Working
<1>3. q \in RequestState /\ q.name \in Names /\ now \in 0..MaxTime BY DEF TypeOK, RequestState
<1>4. opened \in Content /\ begun \in Content /\ loaded \in Sessions
  BY <1>3, OpenedResult, BegunResult DEF Sessions, TypeOK
<1>5. PICK id \in Ids :
        /\ Moves(r, Started(q, id, loaded, begun))
        /\ Known(q.id) => id = q.id
        /\ ~Known(q.id) => id # q.id
  BY ArriveResult
<1>6. /\ told' = IF Expired(opened) THEN [n \in Names |-> "unknown"] ELSE told
      /\ UNCHANGED <<sessions, cookie, auto>>
  BY ArriveResult
<1>7. Withdrawn(q, told, auto) BY <1>1 DEF Serial
<1>8. auto \subseteq Names BY DEF TypeOK
<1>9. Agrees(opened, told)
  <2>1. Agrees(Current, told) BY <1>2 DEF Serial
  <2>2. CASE Known(q.id)
    <3>1. opened = Current BY <1>1, <1>3, <2>2, OpenedResult DEF Current, Known
    <3> QED BY <2>1, <3>1
  <2>3. CASE ~Known(q.id)
    <3>1. Current = NoSession BY <1>1, <2>3 DEF Current, Known
    <3>2. \A n \in Names : ~Authenticated(opened, n)
      BY <1>3, <2>3, OpenedResult, EmptyResult DEF Authenticated
    <3> QED BY <2>1, <3>1, <3>2 DEF Agrees, Authenticated
  <2> QED BY <2>2, <2>3
<1>10. Agrees(begun, told')
  <2>1. CASE Expired(opened) BY <1>6, <2>1 DEF Agrees
  <2>2. CASE ~Expired(opened)
    <3>1. \A m \in Names : begun.connections[m] =
            IF q.kind = "logout" /\ m = q.name THEN "blank" ELSE opened.connections[m]
      BY <1>3, <1>4, <2>2, BegunResult
    <3>2. q.kind = "logout" => told[q.name] = "unknown" BY <1>7 DEF Withdrawn
    <3> QED BY <1>4, <1>6, <1>9, <2>2, <3>1, <3>2 DEF Agrees, Authenticated
  <2> QED BY <2>1, <2>2
<1> DEFINE s == Started(q, id, loaded, begun)
<1>11. Withdrawn(q, told', auto') BY <1>3, <1>6, <1>7, <1>8 DEF Withdrawn
<1>12. \A t \in Requests : t # r => ~InProgress(t) BY <1>1, WorksAlone DEF InProgress
<1>13. ~(id # q.id) => id = cookie' /\ sessions'[cookie'] = loaded BY <1>1, <1>5, <1>6
<1>14. IsStarted(s, q, id, loaded, begun)
  <2> HIDE DEF q, loaded, begun
  <2> QED BY <1>3, <1>4, <1>5, StartedResult
<1>15. Moves(r, s) BY <1>5
<1> HIDE DEF s, q, loaded, begun, opened
<1>16. Working(s) /\ s.pc # "idle" /\ s.pc # "sent" /\ s.pc # "auto" BY <1>14 DEF IsStarted, Working
<1>17. Withdrawn(s, told', auto') BY <1>11, <1>14 DEF IsStarted, Withdrawn
<1>18. ~s.new => s.id = cookie' /\ sessions'[cookie'] = s.loaded BY <1>13, <1>14 DEF IsStarted
<1>19. Agrees(s.copy, told') /\ Stages(s)
  <2>1. CASE q.kind \in {"disconnect", "remove"}
    <3>1. s.copy = With(begun, q.name, "none") BY <1>14, <2>1, WithoutIsWith DEF IsStarted
    <3>2. ~Authenticated(s.copy, q.name) BY <1>3, <1>4, <3>1, AuthenticatedWith DEF Records
    <3>3. told'[q.name] = "unknown" BY <1>11, <2>1 DEF Withdrawn
    <3>4. Agrees(s.copy, told') BY <1>3, <1>4, <1>10, <3>1, <3>3, AgreesWith DEF Records
    <3> QED BY <1>14, <2>1, <3>2, <3>4 DEF IsStarted, Stages
  <2>2. CASE q.kind \notin {"disconnect", "remove"}
    <3>1. s.copy = begun BY <1>14, <2>2 DEF IsStarted
    <3> QED BY <1>10, <1>14, <2>2, <3>1 DEF IsStarted, Stages
  <2> QED BY <2>1, <2>2
<1> QED BY <1>12, <1>15, <1>16, <1>17, <1>18, <1>19, SerialMoved

LEMMA SerialRenew ==
  ASSUME TypeOK, Serial, NEW r \in Requests, Renew(r)
  PROVE  Serial'
<1> DEFINE p == req[r]
           q == req'[r]
<1>1. /\ Moves(r, q) /\ Working(p) /\ p.pc = "renew" /\ q.pc = "reply" /\ q.new
      /\ q.kind = p.kind /\ q.name = p.name /\ q.copy = p.copy /\ UNCHANGED <<cookie, auto, told>>
  BY RenewResult
<1>2. InProgress(r) BY <1>1 DEF InProgress, Working
<1>3. Agrees(p.copy, told) /\ Stages(p) /\ Withdrawn(p, told, auto) BY <1>1, <1>2 DEF Serial
<1>4. \A s \in Requests : s # r => ~InProgress(s) BY <1>2, WorksAlone DEF InProgress
<1> HIDE DEF p, q
<1>5. Stages(q) BY <1>1, <1>3 DEF Stages
<1>6. Withdrawn(q, told', auto') BY <1>1, <1>3 DEF Withdrawn
<1>7. Agrees(q.copy, told') BY <1>1, <1>3
<1> QED BY <1>1, <1>4, <1>5, <1>6, <1>7, SerialMoved

(* What is then stored is the copy that the request worked on.              *)
LEMMA SerialReply ==
  ASSUME TypeOK, Serial, NEW r \in Requests, Reply(r)
  PROVE  Serial'
<1> DEFINE q == req[r]
<1>1. q.pc = "reply" /\ Working(q) /\ Moves(r, Idle) /\ WellFormed(q) BY ReplyResult, ReqIsWellFormed
<1>2. q.id \in Ids /\ q.copy \in Content /\ q.name \in Names
  BY <1>1 DEF WellFormed, RequestState
<1>3. /\ Agrees(q.copy, told) /\ Stages(q)
      /\ ~q.new => q.id = cookie /\ sessions[cookie] = q.loaded
  BY <1>1 DEF Serial
<1>4. \A s \in Requests : req'[s].pc = "idle"
  BY <1>1, IdleResult, WorksAlone DEF InProgress, Moves
<1>5. cookie' = q.id BY <1>3, ReplyResult
<1>6. sessions'[q.id] = q.copy
  <2>1. PICK saved \in {MustSave(q), MaySave(q)} :
          LET all == IF saved THEN [sessions EXCEPT ![q.id] = q.copy] ELSE sessions
          IN  \A i \in Ids : i = cookie' => sessions'[i] = all[i]
    BY ReplyResult
  <2>2. CASE saved BY <1>2, <1>5, <2>1, <2>2 DEF TypeOK
  <2>3. CASE ~saved
    <3>1. ~MustSave(q) BY <2>1, <2>3 DEF MaySave
    <3>2. q.copy = sessions[q.id] BY <1>3, <3>1 DEF MustSave
    <3> QED BY <1>2, <1>5, <2>1, <2>3, <3>2
  <2> QED BY <2>2, <2>3
<1>7. Current' = q.copy BY <1>2, <1>5, <1>6 DEF Current
<1>8. Agrees(q.copy, told')
  <2>1. told' = [told EXCEPT ![q.name] = Told(q)] BY ReplyResult
  <2>2. /\ Told(q) = "off" => told[q.name] = "off" \/ ~Authenticated(q.copy, q.name)
        /\ Told(q) = "on" => told[q.name] = "on" \/ Authenticated(q.copy, q.name)
    BY <1>3 DEF Told, Stages
  <2> QED BY <1>2, <1>3, <2>1, <2>2 DEF Agrees, TypeOK
<1>9. Agrees(Current', told') BY <1>7, <1>8
<1> QED BY <1>4, <1>9 DEF Serial, InProgress, Working

LEMMA SerialNext == Overlapping = {} /\ TypeOK /\ Ages /\ Serial /\ [Next]_vars => Serial'
<1> SUFFICES ASSUME Overlapping = {}, TypeOK, Ages, Serial, [Next]_vars PROVE Serial' OBVIOUS
<1>1. CASE Restart
  <2>1. \A r \in Requests : req'[r].pc = "idle" BY <1>1, IdleResult DEF Restart
  <2>2. Agrees(Current', told') BY <1>1 DEF Restart, Agrees
  <2> QED BY <2>1, <2>2 DEF Serial, InProgress, Working
<1>2. CASE Tick \/ UNCHANGED vars
  <2>1. UNCHANGED <<sessions, cookie, req, auto, told>> BY <1>2 DEF Tick, vars
  <2> QED BY <2>1 DEF Serial, InProgress, Current
<1> QED BY <1>1, <1>2, SerialSend, SerialArrive, SerialRenew, SerialReply, SerialAwaits DEF Next, Proceed

LEMMA SerialAlways == ASSUME Overlapping = {} PROVE Spec => []Serial
<1>1. TypeOK /\ Ages /\ Serial /\ [Next]_vars => Serial' BY SerialNext
<1>2. Spec => []Ages BY AgesInit, AgesNext, TypeCorrect, PTL DEF Spec
<1> QED BY <1>1, <1>2, SerialInit, TypeCorrect, PTL DEF Spec

LEMMA QuietAgrees == Serial /\ Quiet => Agrees(Current, told)
BY DEF Serial, Quiet, InProgress, Working

(* When the browser has one request in progress at a time, what it was told *)
(* to be disconnected or removed is, until it asks for it again: whatever   *)
(* fails, restarts or expires in between, and through every new id.  The    *)
(* assumption is needed: a slow request that was answered in between puts   *)
(* the logon back (the run session_disconnect).                             *)
THEOREM DisconnectionSticks == ASSUME Overlapping = {} PROVE Spec => []DisconnectSticks
<1>1. Serial => DisconnectSticks BY QuietAgrees DEF DisconnectSticks, Agrees
<1> QED BY <1>1, SerialAlways, PTL

(* And it stays logged on to what it was told to be, until it logs off or   *)
(* the session expires or is lost: renewing the id loses no logon.          *)
THEOREM LogonStays == ASSUME Overlapping = {} PROVE Spec => []LogonSticks
<1>1. Serial => LogonSticks BY QuietAgrees DEF LogonSticks, Agrees
<1> QED BY <1>1, SerialAlways, PTL
===============================================================================
