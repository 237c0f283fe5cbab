---------------------------- MODULE ConsoleSession ----------------------------
(***************************************************************************)
(* The database logons of one browser: server/core/TESession.js,           *)
(* ConnectionManager.js and the DBConnection* actions, over the sessions   *)
(* of express-session (set up in TEServer.js).                             *)
(*                                                                         *)
(* A request works on a copy of the session taken when it arrives and puts *)
(* the whole copy back when its response ends, if it changed it.  Between  *)
(* the two it waits for databases, so requests of one browser overlap: the *)
(* connection manager panel polls DBConnectionCheck all the time, whatever *)
(* else the user does.                                                     *)
(***************************************************************************)
EXTENDS Naturals

CONSTANTS
  Requests,       \* requests the browser can have in progress together
  Names,          \* database connections, by name
  AutoConnect,    \* saved connections that the administrator marked autoConnect
  Ids, NoId,      \* session ids, and a browser without the session cookie
  NoSession,      \* an id that the session store does not know
  SignonTimeout,  \* is SESSION_SIGNON_TIMEOUT set, as it is by default?
  IdleLimit,      \* SESSION_TIMEOUT_IN_MIN, in ticks of the clock
  MaxTime,        \* bound of the clock
  Kinds,          \* what the browser asks for, see AllKinds
  Overlapping     \* kinds the browser has in progress together with others

AllKinds == {"connect", "disconnect", "remove", "check", "use", "logout"}

ASSUME SessionAssumption ==
  /\ AutoConnect \subseteq Names /\ Names # {}
  /\ NoId \notin Ids
  /\ Kinds \subseteq AllKinds /\ Overlapping \subseteq AllKinds
  /\ SignonTimeout \in BOOLEAN
  /\ IdleLimit \in Nat /\ MaxTime \in Nat

VARIABLES
  sessions,       \* express-session's store: the content saved under each id
  cookie,         \* the session id the browser has
  req,            \* the requests in progress
  auto,           \* saved connections now marked autoConnect
  now,            \* the clock
  told,           \* history: what the last reply said of each connection
  touched         \* history: when a request other than a poll last arrived

vars == <<sessions, cookie, req, auto, now, told, touched>>

(* What a session records of a connection: nothing, the empty record that   *)
(* _LOGOUT leaves, or an authenticated record whose last test of the        *)
(* database passed ("up") or failed ("down").                               *)
Records       == {"none", "blank", "up", "down"}
NoConnections == [n \in Names |-> "none"]
Content       == [connections: [Names -> Records], stamp: 0..MaxTime]
Sessions      == Content \union {NoSession}

ASSUME NoSessionAssumption == NoSession \notin Content

Authenticated(content, n) ==
  content # NoSession /\ content.connections[n] \in {"up", "down"}

Outcomes == {"", "connected", "refused", "done", "failed", "served", "notConnected"}
Labels   == {"idle", "sent", "test", "save", "renew", "statuses", "auto", "run", "reply"}

Idle == [pc |-> "idle", kind |-> "use", name |-> CHOOSE n \in Names : TRUE,
         id |-> NoId, new |-> FALSE, loaded |-> NoSession, copy |-> NoSession,
         todo |-> {}, outcome |-> ""]

RequestState == [pc: Labels, kind: AllKinds, name: Names, id: Ids \union {NoId}, new: BOOLEAN,
                 loaded: Sessions, copy: Sessions, todo: SUBSET Names, outcome: Outcomes]

TypeOK ==
  /\ sessions \in [Ids -> Sessions]
  /\ cookie \in Ids \union {NoId}
  /\ req \in [Requests -> RequestState]
  /\ auto \subseteq AutoConnect
  /\ now \in 0..MaxTime
  /\ told \in [Names -> {"on", "off", "unknown"}]
  /\ touched \in 0..MaxTime
  /\ \A r \in Requests :
       req[r].pc \notin {"idle", "sent"} => req[r].id \in Ids /\ req[r].copy \in Content

Init ==
  /\ sessions = [i \in Ids |-> NoSession]
  /\ cookie = NoId
  /\ req = [r \in Requests |-> Idle]
  /\ auto = AutoConnect
  /\ now = 0
  /\ told = [n \in Names |-> "unknown"]
  /\ touched = 0

InProgress(r) == req[r].pc # "idle"

-------------------------------------------------------------------------------
(* Arrival.                                                                 *)

(* Connections whose state a request may change.  *)
Concerned(kind, n) == CASE kind = "check" -> auto [] kind = "use" -> {} [] OTHER -> {n}

(* The browser sends a request, with the cookie it has at that moment.  *)
Send(r) ==
  /\ ~InProgress(r)
  /\ \E kind \in Kinds, n \in Names :
       /\ \A other \in Requests :
            InProgress(other) => {kind, req[other].kind} \cap Overlapping # {}
       /\ kind = "check" => n = Idle.name      \* the name is of no account to a poll
       /\ req' = [req EXCEPT ![r] = [Idle EXCEPT !.pc = "sent", !.kind = kind,
                                                 !.name = n, !.id = cookie]]
       /\ told' = [m \in Names |-> IF m \in Concerned(kind, n) THEN "unknown" ELSE told[m]]
  /\ UNCHANGED <<sessions, cookie, auto, now, touched>>

(* Ids are random: one that is known nowhere is as good as new.  *)
FreshIds == {i \in Ids \ {cookie} : sessions[i] = NoSession /\ \A r \in Requests : i # req[r].id}

Known(id) == id # NoId /\ sessions[id] # NoSession

(* #expireIfIdle; with SESSION_SIGNON_TIMEOUT the server leaves it at that. *)
Expired(content) == ~SignonTimeout /\ content.stamp + IdleLimit < now

(* Mutants: polls count as use; an expired session is not stamped anew.  *)
PolledCountsAsUse(content, kind, n) ==
  [connections |-> IF Expired(content) THEN NoConnections ELSE content.connections,
   stamp       |-> IF SignonTimeout THEN content.stamp ELSE now]
ExpiredUnstamped(content, kind, n) ==
  [connections |-> IF Expired(content) THEN NoConnections ELSE content.connections,
   stamp       |-> IF Expired(content) THEN NoSession ELSE content.stamp]

(* TESession.begin: _LOGOUT, expiry and the time of the last use.  *)
Begun(content, kind, n) ==
  [connections |-> IF Expired(content) THEN NoConnections
                   ELSE IF kind = "logout" THEN [content.connections EXCEPT ![n] = "blank"]
                   ELSE content.connections,
   stamp       |-> IF Expired(content) \/ (~SignonTimeout /\ kind # "check") THEN now
                   ELSE content.stamp]

(* Mutant: the connection is only marked as down.  *)
Downed(content, n) == [content EXCEPT !.connections[n] = "down"]

Without(content, n) == [content EXCEPT !.connections[n] = "none"]
With(content, n, record) == [content EXCEPT !.connections[n] = record]

(* Where each action starts, and what it does before it first waits.  *)
Started(q, id, loaded, begun) ==
  LET at(label, copy, todo, outcome) ==
        [q EXCEPT !.pc = label, !.id = id, !.new = id # q.id, !.loaded = loaded,
                  !.copy = copy, !.todo = todo, !.outcome = outcome]
      n  == q.name
      on == {m \in Names : Authenticated(begun, m)}
  IN CASE q.kind = "connect"    -> at("test", begun, {}, "")
       [] q.kind = "disconnect" -> at("reply", Without(begun, n), {}, "done")
       [] q.kind = "remove"     -> at("save", Without(begun, n), {}, "")
       [] q.kind = "check"      -> at("statuses", begun, on, "")
       [] q.kind = "logout"     -> at("reply", begun, {}, "done")
       [] q.kind = "use"        -> IF n \in on THEN at("run", begun, {}, "served")
                                   ELSE at("reply", begun, {}, "notConnected")

(* express-session loads the session of the cookie, or starts a new one;    *)
(* ActionRouter.createContext begins it and handle() runs the action.       *)
Arrive(r) ==
  LET q      == req[r]
      loaded == IF Known(q.id) THEN sessions[q.id] ELSE NoSession
      opened == IF Known(q.id) THEN loaded
                ELSE [connections |-> NoConnections, stamp |-> now]
      begun  == Begun(opened, q.kind, q.name)
  IN /\ q.pc = "sent"
     /\ \E id \in IF Known(q.id) THEN {q.id} ELSE FreshIds :
          req' = [req EXCEPT ![r] = Started(q, id, loaded, begun)]
     /\ touched' = IF q.kind = "check" THEN touched ELSE now
     /\ told' = IF Expired(opened) THEN [n \in Names |-> "unknown"] ELSE told
     /\ UNCHANGED <<sessions, cookie, auto, now>>

-------------------------------------------------------------------------------
(* The awaits of the actions.                                               *)

(* ConnectionManager.connect: the driver's test passes and the record is    *)
(* made, or it throws and the logon is refused.                             *)
Tested(r) ==
  /\ req[r].pc = "test"
  /\ \/ req' = [req EXCEPT ![r].pc = "save", ![r].copy = With(@, req[r].name, "up")]
     \/ req' = [req EXCEPT ![r].pc = "reply", ![r].outcome = "refused"]
  /\ UNCHANGED <<sessions, cookie, auto, now, told, touched>>

(* connect() has saved the connection, which turns autoConnect off, or was  *)
(* not allowed to; remove() has removed it.                                 *)
StoreSaved(r) ==
  /\ req[r].pc = "save"
  /\ IF req[r].kind = "connect"
       THEN req' = [req EXCEPT ![r].pc = "renew"]
       ELSE req' = [req EXCEPT ![r].pc = "reply", ![r].outcome = "done"]
  /\ auto' \in {auto, auto \ {req[r].name}}
  /\ UNCHANGED <<sessions, cookie, now, told, touched>>

(* The store can not be read or written: connect() and remove() throw.  *)
StoreThrows(r) ==
  /\ req[r].pc = "save"
  /\ req' = [req EXCEPT ![r].pc = "reply",
                        ![r].outcome = IF req[r].kind = "connect" THEN "refused" ELSE "failed"]
  /\ UNCHANGED <<sessions, cookie, auto, now, told, touched>>

(* Mutant: the new session does not take the content over.  *)
RenewEmpty(r) ==
  /\ req[r].pc = "renew"
  /\ \E id \in FreshIds :
       req' = [req EXCEPT ![r].pc = "reply", ![r].id = id, ![r].new = TRUE,
                          ![r].copy.connections = NoConnections,
                          ![r].outcome = "connected"]
  /\ sessions' = [sessions EXCEPT ![req[r].id] = NoSession]
  /\ UNCHANGED <<cookie, auto, now, told, touched>>

(* TESession.renewId: req.session.regenerate destroys the session and gives *)
(* the request a new id, which takes the content over.                      *)
Renew(r) ==
  /\ req[r].pc = "renew"
  /\ \E id \in FreshIds :
       req' = [req EXCEPT ![r].pc = "reply", ![r].id = id, ![r].new = TRUE,
                           ![r].outcome = "connected"]
  /\ sessions' = [sessions EXCEPT ![req[r].id] = NoSession]
  /\ UNCHANGED <<cookie, auto, now, told, touched>>

(* refreshStatuses: one connection has been tested again.  *)
StatusTested(r) ==
  /\ req[r].pc = "statuses"
  /\ \E n \in req[r].todo, status \in {"up", "down"} :
       req' = [req EXCEPT ![r].copy = With(@, n, status), ![r].todo = @ \ {n}]
  /\ UNCHANGED <<sessions, cookie, auto, now, told, touched>>

(* storedConnections: the saved connections are read, or can not be.  *)
StoreListed(r) ==
  /\ req[r].pc = "statuses"
  /\ req[r].todo = {}
  /\ \/ req' = [req EXCEPT ![r].pc = "auto", ![r].todo = auto]
     \/ req' = [req EXCEPT ![r].pc = "reply", ![r].outcome = "failed"]
  /\ UNCHANGED <<sessions, cookie, auto, now, told, touched>>

(* #autoConnect: a saved connection that is not up already is logged on.  *)
AutoConnected(r) ==
  /\ req[r].pc = "auto"
  /\ \E n \in req[r].todo :
       \/ req' = [req EXCEPT ![r].todo = @ \ {n}]
       \/ /\ req[r].copy.connections[n] # "up"
          /\ req' = [req EXCEPT ![r].todo = @ \ {n}, ![r].copy = With(@, n, "up")]
  /\ UNCHANGED <<sessions, cookie, auto, now, told, touched>>

(* The list is complete, or the statement has run.  *)
Finished(r) ==
  /\ \/ req[r].pc = "auto" /\ req[r].todo = {}
     \/ req[r].pc = "run"
  /\ req' = [req EXCEPT ![r].pc = "reply", ![r].outcome = IF @ = "" THEN "done" ELSE @]
  /\ UNCHANGED <<sessions, cookie, auto, now, told, touched>>

-------------------------------------------------------------------------------
(* The end of the response.                                                 *)

(* express-session saves a session that is new or not as it was loaded.  *)
MustSave(q) == q.new \/ q.copy # q.loaded

(* It may differ in what is not modelled: the password a logon remembers,   *)
(* the text of the error that a database which is down gives.               *)
MaySave(q) ==
  \/ MustSave(q)
  \/ q.kind = "connect"
  \/ q.kind = "check" /\ \E n \in Names : q.copy.connections[n] = "down"

(* What a reply tells the browser of its connection.  *)
Told(q) == CASE q.outcome = "connected" -> "on"
             [] q.kind \in {"disconnect", "remove"} /\ q.outcome = "done" -> "off"
             [] OTHER -> told[q.name]

(* A session whose id neither the browser nor a request has is as good as   *)
(* gone: nobody asks for it again.                                          *)
Reachable(content, id, r) ==
  [i \in Ids |-> IF i = id \/ \E other \in Requests \ {r} : i = req[other].id
                 THEN content[i] ELSE NoSession]

(* The response ends: the session is saved, a new id goes to the browser.  *)
Reply(r) ==
  /\ req[r].pc = "reply"
  /\ cookie' = IF req[r].new THEN req[r].id ELSE cookie
  /\ \E saved \in {MustSave(req[r]), MaySave(req[r])} :
       sessions' = Reachable(IF saved THEN [sessions EXCEPT ![req[r].id] = req[r].copy]
                             ELSE sessions, cookie', r)
  /\ told' = [told EXCEPT ![req[r].name] = Told(req[r])]
  /\ req' = [req EXCEPT ![r] = Idle]
  /\ UNCHANGED <<auto, now, touched>>

-------------------------------------------------------------------------------
(* The server stops and starts again; sessions are kept in memory.  *)
Restart ==
  /\ sessions' = [i \in Ids |-> NoSession]
  /\ req' = [r \in Requests |-> Idle]
  /\ told' = [n \in Names |-> "unknown"]
  /\ UNCHANGED <<cookie, auto, now, touched>>

Tick ==
  /\ now < MaxTime
  /\ now' = now + 1
  /\ UNCHANGED <<sessions, cookie, req, auto, told, touched>>

Proceed(r) ==
  \/ Arrive(r) \/ Tested(r) \/ StoreSaved(r) \/ StoreThrows(r) \/ Renew(r)
  \/ StatusTested(r) \/ StoreListed(r) \/ AutoConnected(r) \/ Finished(r) \/ Reply(r)

Next == Restart \/ Tick \/ \E r \in Requests : Send(r) \/ Proceed(r)

Spec == Init /\ [][Next]_vars

-------------------------------------------------------------------------------
(* What the user relies on.                                                 *)

(* The session the browser's next request would find.  *)
Current == IF cookie = NoId THEN NoSession ELSE sessions[cookie]
Quiet   == \A r \in Requests : ~InProgress(r)

(* "Forgets a connection for this session" (ConnectionManager.disconnect):  *)
(* once the browser is told that a connection is disconnected or removed,   *)
(* its session is not logged on to it, until it asks to be again.           *)
DisconnectSticks ==
  Quiet => \A n \in Names : told[n] = "off" => ~Authenticated(Current, n)

(* Once the browser is told that it is logged on it stays so, under the new *)
(* id that this and every later logon gives it, until it logs off or the    *)
(* session expires or is lost.                                              *)
LogonSticks ==
  Quiet => \A n \in Names : told[n] = "on" => Authenticated(Current, n)

(* A session left alone for longer than SESSION_TIMEOUT_IN_MIN serves no    *)
(* connection that its user logged on to, even when a slow request brings   *)
(* back what expiry cleared.  Polls do not count as use.                    *)
IdleSessionServesNothing ==
  [][~SignonTimeout =>
       \A r \in Requests :
         req[r].pc = "sent" /\ req'[r].outcome = "served" =>
           req[r].name \in AutoConnect \/ now <= touched + IdleLimit]_vars
===============================================================================
