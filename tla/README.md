# Technology Explorer: specifications and proofs

TLA+ specifications of the Technology Explorer, a web console for databases: its Node.js
server (`server/`) and the script processor of its browser part (`db2te/js/`), with the TLC
runs that check them on small instances and the TLAPS proofs of what matters most. Paths
below are relative to the repository; `X.js:n` is line n.

| Look for | in |
|---|---|
| what is specified | [Modules](#modules), [What corresponds to what](#what-corresponds-to-what) |
| what is known to hold, and how | [Runs](#runs), [Proofs](#proofs) |
| where the program and its documentation disagree | [Findings](#findings) |
| what is not specified | [Not modelled](#not-modelled) |
| what comes next | [Plan](#plan) |

Check a run with `tlc -config <run>.cfg <module>.tla`, and the proofs with `tlapm` on each
module whose name ends in `_proofs`. The runs and their modules are listed in
`PROJECT.json`, with the lines of the source that every definition stands for.

## Inventory

The server is one Node.js process. There are no threads, but every `await` lets other
requests run, and the state below outlives a single step. The browser is one thread, too: a
script goes on through timers and answers, between which anything else may happen.

| Component | State it keeps | Operations | What is hard |
|---|---|---|---|
| Saved connections, `core/ConnectionStore.js` | a JSON file, shared by all users | `list`, `save`, `remove` | read, change and write are separate awaits; a write can fail or the server stop in the middle; the temporary file has one name per process |
| Session, `core/TESession.js`, `core/TEServer.js` | one record per browser in express-session's memory store | `begin` (logout, expiry), `renewId`, `clear` | every request works on its own copy and writes all of it back when it ends |
| Logons, `core/ConnectionManager.js` | connection records in the session; open connections of the request | `connect`, `disconnect`, `remove`, `save`, `open`, `closeAll`, `refreshStatuses`, `storedConnections` | waits for databases between reading and writing the session; the panel polls all the time |
| SQL batch, `sql/SqlBatch.js`, `sql/RunConditions.js` | reply, position, the transaction | `run` | a batch is one unit of work through errors, run conditions, a refused commit, a lost connection and the exit SQL |
| Database connections, `drivers/DatabaseConnection.js` and the vendors | autocommit flag, closed flag, the server's transaction | `setAutoCommit`, `execute`, `rows`, `commit`, `rollback`, `close` | each vendor has other rules for what a failed statement or commit leaves |
| Statement runner, `sql/StatementRunner.js` | the read position in a result | `run` | window, look ahead and count share one position |
| Result cursors, `ResultCursor.js`, `MySqlDriver.js`, `PostgresDriver.js`, `SqliteDriver.js` | rows waiting, end, error, paused socket | `next`, `nextResultSet`, `close` | events against calls; back pressure |
| DRDA client, `drivers/drda/`, `DrdaDriver.js` | queue of requests, buffer, sections, blocks of a query | `send`, `prepare`, `execute`, `openQuery`, `continueQuery`, `commit`, `close` | replies in pieces, failure at any point, rows split over blocks, large objects after their rows |
| Routing, `core/ActionRouter.js` | none beyond the request | `createContext`, `handle` | cleaning up after an action however it ends |
| Menus, `definitions/`, `menu.js` | queue of deferred branches, the lists they fill | `node`, `resolveDeferred` | branches that replace their parent while the queue runs; branches whose branches fail |
| Script processor, `Class_TEScript_TECore_Processor.js`, lock of the screen in `Functions_Core.js` | a stack per run, timers, requests, the lock all runs share | `execute`, `taskProcessor`, `exitAction`, `setReturn` | what is left to do is a path into a script, evaluated when a timer fires; a script can be left from any depth |
| XML conversion, pages, configuration, driver catalog | none | | data only |

How they interact: `TEServer` gives each request its session; `ActionRouter` builds a
`TESession` and a `ConnectionManager` for it and runs an action. Logons go from the manager
to a driver (`test`) and to the `ConnectionStore`. An `executeSQL` action opens one
connection through the manager, hands it to a `SqlBatch`, which runs each statement through
a `StatementRunner` and its cursor; the manager closes the connection when the request ends.
A menu action builds its tree with a `MenuBuilder`, which may query the connection through
the manager. Requests share the store file, the session store and nothing else. In the
browser, a script's server actions are such requests; runs share the lock of the screen.

What makes each one correct:

- *store*: a reader always finds a whole list; a call takes effect at once or not at all; a
  reply of success is true; an administrator's password is kept and a typed one never written;
- *session and logons*: what the browser was told is what its next request finds; a logon
  survives the renewal of the session id; an idle session serves nothing;
- *SQL batch*: one unit of work; success means durable, failure means nothing is left;
- *cursors and runner*: every row once and in order, the end only at the end, the window and
  the size reported are those of the result, the connection is free afterwards, nobody waits
  for ever;
- *DRDA client*: every request settles, with its own reply or an error; a section is held by
  one statement at a time and given back; a connection that is closed is gone in the end;
- *menus*: the tree that is sent is the one the definitions describe, in whatever order its
  branches are made, and it is sent;
- *scripts*: a run does what its script says, goes on at one place, ends, and leaves no lock
  of the screen that a script's `lockScreen` put up.

## Modules

| Module | Is |
|---|---|
| `StoreContent` | the content of the store and what a save or remove makes of it |
| `SavedConnections` | abstract: a map in which each save and remove happens at once |
| `ConnectionStore`, `MCConnectionStore` | `ConnectionStore.js`, step by step, over a file system of inodes |
| `ConnectionStore_proofs` | six theorems about it |
| `ConsoleSession`, `MCConsoleSession` | the sessions and logons of one browser |
| `ConsoleSession_proofs` | four theorems about them |
| `RunConditions` | pure: what the conditions of a statement decide |
| `DatabaseTransaction` | pure: the results each transaction method can have, per vendor |
| `UnitOfWork` | abstract: nothing durable before the end, then all or nothing |
| `SqlBatch`, `MCSqlBatch` | one executeSQL request over the two pure modules |
| `SqlBatch_proofs` | five theorems about it |
| `CursorCalls` | the calls of a cursor and their answers, shared by all of the following |
| `ResultCursor` | abstract: what every cursor promises its reader |
| `MySqlCursor`, `PostgresCursor`, `IteratorCursor` | the cursors of the drivers (the last: SQLite, and results in memory) |
| `StatementRunner` | `StatementRunner.js`, over any cursor |
| `StatementExecution` | the runner composed with each of the three |
| `StatementExecution_proofs` | seven theorems about it |
| `DrdaTransport` | the socket of the DRDA client, with its queue |
| `DrdaTransport_proofs` | four theorems about it |
| `DrdaConnection`, `MCDrdaConnection` | statements, sections and queries on one transport, and a server that answers them |
| `DrdaConnection_proofs` | seven theorems about them |
| `TEScriptStack` | pure: push, pop and unwind of a script's stack |
| `TEScript` | the script processor: tasks by the way they move a run on, timers, answers, the lock; where a run goes on |
| `TEScriptMeaning` | reference: what a script says, as sets of logs, without stack or timers; that runs do it |
| `TEScript_proofs` | six theorems about them |
| `MCTEScript` | the scripts of the instance, and that they end |
| `DeferredMenus` | `MenuBuilder` for one menu request, with its queue |
| `MenuMeaning` | reference: what definitions of menus mean, made in place; the properties |
| `DeferredMenus_proofs` | three theorems about them |
| `MCDeferredMenus` | the definitions of the instance |

`ConnectionStore` and `SavedConnections` extend `StoreContent`; the former instantiates the
latter. `SqlBatch` extends `RunConditions` and instantiates `DatabaseTransaction` and, for
the refinement, `UnitOfWork`. `StatementExecution` extends `StatementRunner`, instantiates
the cursors and, for the refinement, `ResultCursor`; `DrdaConnection` extends
`DrdaTransport` and instantiates `ResultCursor` once per statement. `TEScriptMeaning`
extends `TEScript`, which extends `TEScriptStack`; `MenuMeaning` extends `DeferredMenus`. What
scripts and menus mean is given by recursive functions; only `MCTEScript` has recursive
operators, which count out the groups and depths of its instance.

## What corresponds to what

**ConnectionStore.** `disk`, `store` and `temporary` are the file system: what each inode
holds, and which inode has the name of the store and of its temporary file. A name can move
(`Rename`) while a call goes on writing to the inode it opened (`fd`), which is how one call
comes to write into what is already the store. A call is at `read`, `open`, `write` or
`rename` - the awaits of `#read`, `writeFile` and `rename` - and its locals are `call` and
`entries`. `Read` is `#read` (no file is an empty list; a remove of what is not there ends
without writing); `ReadFails` is `JSON.parse` throwing or `readFile` rejecting; `Open`
truncates or creates the temporary file; `Write` puts the new text at the start of it, which
leaves `Garbled` what another call had already put there; `WriteFails` covers `mkdir` and
`writeFile` rejecting, with a full disk part way; `RenameFails` is `rename` rejecting, ENOENT
among the reasons. `Crash` ends the process at any step. An entry keeps the three facts the
properties tell apart: details, password, autoConnect. The sort, time stamps and defaults of
`#forFile` and `#forDisplay` are left out.

**ConsoleSession.** `sessions` is express-session's memory store, `cookie` the browser's id,
`req[r]` a request: the content it loaded, the copy it works on, where its action waits.
`Arrive` is everything up to the first await: load, `TESession.begin` (`Begun`: logout, then
expiry, then the time of use), the choice of the action. `Tested`, `StoreSaved`,
`StoreThrows`, `Renew`, `StatusTested`, `StoreListed`, `AutoConnected` and `Finished` are
the awaits of connect, remove, check and of an action that needs its connection. `Reply` is
the end of the response, where express-session stores the copy if it is new or not as it was
loaded and the browser gets a new cookie. What is not in a copy here (remembered passwords,
the text of an error) may make it differ all the same: `MaySave`. A record is `none`,
`blank` (what `_LOGOUT` leaves), or authenticated and last seen `up` or `down`.
`told` and `touched` are history: what the last reply said, when the user last asked for
something. Session ids are random, so one that nobody holds is as good as new
(`FreshIds`, `Reachable`).

**SqlBatch.** `pc` is the place in `run()`; `request` the options. `DatabaseTransaction`
gives each call of the connection as the set of its results, the connection it leaves and
whether it threw; `Calls` and `Caught` are the `try` of `run()`. A statement's effect is its
number; `db.pending` is done and not committed, `db.durable` can not be undone. Run
conditions (`RunConditions`) see the number of rows of each result set; the last condition
of a list decides, as the loop of the code ends up doing. `unit` and `failed` are history.
Vendors: `postgres` (BEGIN is sent again after COMMIT, and is not when COMMIT throws; a
failed statement spoils the transaction), `sqlite` (a refused COMMIT keeps the transaction),
`mysql` (SET autocommit; an error may carry the SQLSTATE of a warning), `drda` (DB2 and
Derby: the driver commits after each statement in autocommit mode). H2 speaks the
PostgreSQL protocol but a failed statement does not spoil its transaction; it behaves as
`sqlite` does here.

**Statements and cursors.** `message` is the one call between a reader and its cursor that
is in progress, or the answer to it; `place` how much the cursor has given. `result` is what
the driver returns for the statement; `produced` what the database does, which for MySQL has
further result sets that the driver drops. `StatementRunner` is `run`, `#readResultSet` and
`#countRest`: `pc` is the await it stands at, `read` and `data` its locals. `MySqlCursor`
is a machine of two halves: `wire` are the packets of mysql2 still to come, one event each
(`Event`), and the methods run up to their await; `wake` is the promise of `#wait()`:
`armed` while it is pending, `fired` once it is resolved. A paused connection delivers
nothing, and a resumed one hands its packets over at once. `PostgresCursor` reads batches; `IteratorCursor` answers where it
is called. A row is its number. `reliable` says that no call fails for a reason of its own.

**DRDA.** `DrdaTransport` is the socket: `calls` is the promise of each caller's latest
`send()`, `queue` the chain of promises, `waiting`, `closed` and `buffer` the fields;
`request` and `wire` are the server and the network. `Start` is the continuation of the
promise before, `Received` is `#received` with a piece of a reply, `Unreadable` a piece that
does not parse, `Break` the events of a connection that fails, `Close` and `CloseEvent`
`close()` and what it causes. `own` is history: whether what a caller was given was the reply
to its own latest request, whole. `DrdaConnection` adds the two classes above it:
`statement[s]` is a `DrdaQuery` with the await it stands at, `sections` is `#sections`,
`isClosed` the flag of `DatabaseConnection`; `open` and `sent` are the server's. A row is two
halves, so that a block can end in the middle of one; each has a large object, which comes
with the reply that completes the row and is attached to the first column that waits for one
(`AttachLobs`). `Quiet` keeps events of the socket behind the promises that have already
settled, as JavaScript does.

**Scripts.** `runs[r]` is the stack of a run: `script` is `localStack.actionScript`, a frame
keeps the script to go back to, the call to go on with, and the flag it is found by.
`timers` are the `setTimeout(..., 0)` between calls, which fire in their order; `waits` the
timers of `wait` tasks; `requests` the server actions under way; `active` the task that
`taskProcessor` is about to execute. A call to come (`Call`) is a path into the script that
is on the stack when it fires: a group of tasks, a list in it, a place in that list.
`TEScriptStack` is the stack: `PopToAndCall` unwinds to a flag and calls, of what it passes,
only the frames marked `DoublePOP`; `ExitAction` unwinds everything. `TEScript` has one
definition for each way in which a task moves a run on: `Step` stands for all that only work
on parameters and panels, `LockScreen` and `UnlockScreen` for the tasks of these names,
`TaskGroup` and `IfNot` for groups, `RunAction` for the three that call a script (of
`callglobalaction`, what it assigns first is a `Step` before it), `Breaks`, `Returns`, `Exits`
and `Reloads` for those that leave more than their list, `Wait`, `Parallel`; `Answered` is the
callback of a server action and `Handled` its tangle of handlers: an error is thrown to
`onException`, which goes on with the script. Checks of conditions, failures of tasks and
answers are choices. After a `wait` the tasks of its list are called with the stack as their
`callObject` (`call.by = "stack"`): one that assigns a parameter (`Group[g].assigns`) then
always throws and exits the script, as only `actionScript` has `setVariables`.

There is one `SCREEN_LOCK_PANEL` for all. A script with `lockScreen` that is entered puts it up
unless it is there, and pushes a frame that removes it (`Locks`, `Entered`); a `lockscreen` task
puts it up and pushes nothing; an unlock frame, an `unlockscreen` task of any script and the
user's button remove it, whoever put it up. The code only knows whether it is there; `locked`
also keeps who put it up ("script" or "task"), as the properties are about the former.

**Menus.** A menu definition is a place (`Menus`) of a kind: a leaf, one that a filter
hides, one whose encoding throws, an embedded branch, a folder, or a branch made later from a
query or a stylesheet, whose `source` is what these will give. Definitions are trees: every
menu with a list has one place in them (`MenusAssumption`; leaves, messages and hidden menus
look the same wherever they stand). So a node is a reference to its definition, and `lists`
holds the `elementSubNodes` of every menu. `Made(q)[m]` is the synchronous `node()`: the
node, its list, the works it queued on the way, in order, and whether it threw. A work has
the name of the list it will fill (`subNodes`), which `Redirect` changes as `#build()` does.
`Run` writes down all lists, those of menus that a query gives later too: they are what
`node()` will make of them then, and nothing reads them before. `Resolve` is one turn of the
loop of `resolveDeferred()`: nothing else works on this builder while the query is awaited,
so that the await is no step of its own. What the sources answer is chosen when the request
comes (`Ask`). The tree that is sent is what can be reached from its root through the lists
(`Shown`, the least closed set), and each list of it is compared with `Shows`, which says
what the branch shows when all is made in place, without queue, order or redirected lists;
`Breaks` are the menus whose encoding throws, `Meant` the node that stands for a menu.

## Runs

| Run | Instance | Shows |
|---|---|---|
| `store_serial` | 1 caller, 2 descriptions, 2 details, 3 inodes | saves and removes that do not overlap are atomic and truthful; the store is always readable, never goes away and keeps an administrator's password, through failed writes, a full disk and restarts |
| `store_broken` | 2 callers whose calls overlap, 1 detail | **violation**: see findings |
| `session_serial` | 1 request at a time, 2 connections (one autoConnect), 3 ids, clock 0..3, expiry after 1 | what the browser was told is what its session holds |
| `session_overlap` | 2 requests of any kind at once, 1 connection, 4 ids, clock 0..2, expiry after 1 | a session that was left alone serves nothing, even when late requests write old copies back |
| `session_disconnect` | a poll overlaps one other request | **violation**: see findings |
| `batch` | up to 3 statements, 43 lists of conditions, 4 vendors, every option | a request implements a unit of work; success is durable, failure leaves nothing |
| `batch_rollback` | up to 2 statements | **violation**: see findings |
| `statement` | windows up to 2 rows from row 0..2, look ahead 1, results of 0..5 rows in up to two sets, batches of 2, four kinds of driver, failures anywhere | the window and size shown are those of the result; success is only reported for whole results; each cursor implements `ResultCursor`; MySQL's connection is free afterwards and holds one batch; the statement ends |
| `drda` | 2 statements and a close on one connection; queries of 0 or 1 row (two halves) beside an update or a query, with and without autocommit, each failing or not; replies of `openQuery` in one piece or two | own replies, one in flight; sections held and released; cursors implement `ResultCursor`; every `send` settles; a closed connection ends |
| `drda_section` | the same, and the first blocks of a query may be ones the client can not decode | **violation**: see findings |
| `tescript` | two scripts that the user starts: one with nested script, server action, retry, exit and return from depth, repeats, waits; one with two parallel branches; tasks that lock, unlock, reload and assign before and after a wait | a run does what its script says and goes on at one place; calls are looked up in the script they were made for; a lock of a script has a frame or timer that ends it, and ends; scripts end |
| `menus` | one request, four deferred branches, at most three of them below one another or side by side; each refused, failing or answered, dropping its parent or not, with no error menu, one that is deferred itself, or one that throws | the menu sent is the one defined; the queue holds exactly what the tree lacks; the request is answered |

**The bounds.** *Store*: three inodes are the store, the temporary file and one that is
still written without a name; `Open` waits for one in the model, never in the program. That
an administrator's password is kept and the store never goes away also holds when calls
overlap, for any number of callers: this is proved (below), so no run repeats it. *Sessions*:
two requests are the poll and one user action, which is what a browser tab has in progress;
ids are those the cookie, the two requests and one renewal can hold at once; the clock's
range is past one expiry and one more. *Batch*: three statements give a first, a middle and a
last one; every list of up to two conditions gives each outcome of one condition before and
after each other. *Statement*: five rows are two full batches and one more, and reach past
`fromRow + maxRows + LookAhead`, so that every comparison of positions is met from both
sides. *DRDA*: two halves make a block end in the middle of a row; two statements and the
close are three callers in one queue; three sections leave one free, as a run of statements
releases its section before the next takes one. `Long` bounds which replies come in pieces:
any reply has the same path through `#received`. *Scripts*: the instance has each kind of
task of the model and the ways to enter and to leave; of the two runs one has a `lockScreen`
that tasks of both lock and unlock beside. It leaves out what is known to go wrong (see
below). *Menus*: three levels are the first at which a list that was handed on is handed on
again. The proofs remove the bounds of all runs for all their safety properties.

**Fairness.** The runs of the store, sessions and batches check safety only, and their
specifications have no fairness. `statement` assumes that the event loop runs what can run
and that the database sends all of its answer or an error event. `drda` assumes the same of
the client's promises, that the server answers each request and that the network delivers;
it assumes nothing of readers, who may leave a result half read, and no `Break`. `tescript`
has one weak fairness for everything the browser does by itself - timers, tasks, and that a
request is answered or fails, which `XMLHttpRequest` guarantees - in no particular order; the
user need not start a script nor press the button that unlocks the screen. `menus` assumes
that queries and transforms answer or fail. Each is what Node.js or the browser gives to
code that awaits; a database that never answers is a statement that never ends, in the
program as in the models.

Symmetry is used in `store_broken`, `session_overlap` and `session_disconnect`, over callers, requests
and ids, none of which a property names; no liveness is checked with it. `batch`,
`statement`, `drda` and `tescript` have no deadlock check, since a request, a statement, a
connection and a script end; `menus` marks its ends with a step of their own, the others
never end.

Every property of a passing run comes with a mutant of the model, a plausible bug, that
violates it (listed in `PROJECT.json`; the mutated definitions stand next to the ones they
replace).

## Findings

1. **The temporary file of the store is shared** (`store_broken`, `ConnectionStore.js:110`).
   Its name holds only the process id. Call A opens it and writes; call B opens, truncates;
   A renames it over the store: a reader finds an empty file. If B then fails, or the server
   stops, it stays that way and `list()`, `save()` and `remove()` throw from then on. The
   comment above `#write` promises the contrary. A name per call, or a queue, would do.
2. **A poll can undo a disconnect** (`session_disconnect`, `ConnectionManager.js:166`). The
   poll's copy of the session was taken before the disconnect; when it finds the database
   down, its copy differs from what it loaded and all of it is written back, connection and
   password included.
3. **A run condition can turn a failed batch into a commit** (`batch_rollback`,
   `SqlBatch.js:145`). With abortOnFailure off, a condition that ends the run replaces the
   return code of the failed statement, and the end of the unit of work is decided by it:
   also a `rollback` action whose `setrunreturn` is "true" commits. The tutorial on
   `commitPerStmt` says otherwise.
4. **A query that can not be decoded stays open in a section that is free** (`drda_section`,
   `DrdaConnection.js:215`). When `openQuery` throws over the descriptor or the first rows
   (types "not supported yet"), the server has the query open. `run()` only releases the
   section, and the next statement is prepared in it, against the comment of `#takeSection`.
   The later blocks are safe: `close()` closes the query first.

Noted without a run:

- `save()` always turns autoConnect off (`ConnectionStore.js:85`), as the login form does not
  send it, so the entry of an administrator loses it at the first logon (modelled in
  `WithEntry` and `StoreSaved`).
- The branch that commits in the middle of a batch (`SqlBatch.js:148`) can not be reached: no
  outcome of a condition goes on and commits (`OutcomeDecides`, proved).
- `test/sql.test.js:121` says that warnings count as success, which a single statement does
  not do (`Warned`).
- `MySqlCursor.close` swallows an error that comes after it was called.
- Scripts (`Class_TEScript_TECore_Processor.js`): a check that throws in a follow-on action
  other than the first is only alerted (340), the run hangs and its lock stays; a failed
  HTTP request runs the follow-on actions twice (755-770, `Handled` with outcome "http");
  the timer of a `wait` goes on with the stack as `this` (151, 391), so that a second `wait` of
  the list finds no `taskProcessor` there (1175) and ends the run's progress, and tasks that
  assign a parameter (`assignsharedconstant`, `assignlocalparameter`, `callglobalaction` with
  parameters, 924-931, 963) find no `setVariables` and exit the script, always (`Step`); a
  script that locks the screen by a `lockscreen` task (1042) and is left by an exit or a
  failure before its `unlockscreen` leaves it locked until the user presses the button, as no
  frame was pushed (`LockScreen`); `retry` of the action it is in, which is how all
  shipped scripts use it, is a mere return; of an outer action, it also lets the rest of the
  frames it left go on; nested lists with repeats share one count (398); `remove()` counts
  `isRunning` up (261), so that `destroy` polls for ever; an exit by name compares the class
  `actionScript` instead of the name (183); a second script with `lockScreen` has no lock of
  its own and loses it when the first one unlocks.
- Menus: an inline `branchXML` that drops its parent gives a node where a list is expected
  (`MenuBuilder.js:138`). An error menu that is a deferred branch with itself as its error menu is queued again for
  ever (174); `MenusAssumption` has definitions that are finite.

## Proofs

**`ConnectionStore_proofs`** proves, for every set of callers, inodes, descriptions and
details and every initial store, from `ContentAssumption` and `StoreAssumption` alone:

| Theorem | States |
|---|---|
| `TypeCorrect` | `Spec => []TypeOK` |
| `AdministratorPasswordIsKept` | `Spec => []AdministratorPasswordKept` |
| `StoreStays` | `Spec => StoreNeverVanishes` |
| `StoreIsNeverBroken` | `~Overlap` implies `Spec => []NeverBroken` |
| `StoreImplementsSavedConnections` | `~Overlap` implies `Spec => ImplementsSavedConnections` |
| `RepliesTellTheTruth` | `~Overlap` implies `Spec => RepliesAreTrue` |

*The password.* The visible store says nothing of what is about to become it, so the
property is not inductive. `PasswordsKept` asks the same of every place a list can be: each
inode with a list in it, each list that a call has read and not yet written, and the empty
list while there is no store. It has to allow for removals: a description in `removed` is
exempt, and `removed` only grows, at the moment the call is made - before its effect. Then a
save keeps what its list has (`KeptPassword`), a rename only moves an inode, and a crash only
forgets. Since every inode satisfies it, it does not matter whose text a shared temporary
file holds.

*The store stays.* `store` is assigned only by `Rename`, from `temporary`, which the guard
says has a file.

*No overlap.* `Alone` says what the steps of the one call in progress leave between them:
at most one caller is busy, the store is never the temporary file and holds a list, what the
caller has read is what is visible, in `write` it writes to the temporary file, which is
empty, and at `rename` the temporary file holds exactly the changed list. `NeverBroken` is a
conjunct of it; the refinement follows step by step: only `Rename` changes `Visible`, and by
`Alone` it changes it to `WithEntry` or `WithoutEntry` of what it was; all other steps
stutter. A reply of success comes from that rename or from finding nothing to remove, which
makes it true. Without `~Overlap` all three are false, which is finding 1.

**`SqlBatch_proofs`** proves, for batches of any length, any finite lists of conditions and
any result sets, on every vendor, from `BatchAssumption`:

| Theorem | States |
|---|---|
| `TypeCorrect` | `Spec => []TypeOK` |
| `SuccessIsKept` | `Spec => []SuccessIsDurable` |
| `FailureIsUndone` | `Spec => []FailureLeavesNothing` |
| `BatchIsUnitOfWork` | `Spec => ImplementsUnitOfWork` |

First come lemmas on what the calls may leave, whatever the vendor: `EndResults` (a commit
or rollback, refused, broken or not, makes all of what was pending durable or nothing, and
only a commit does the former), `ThrowsResults` and `ExecuteResults` (a statement within a
transaction leaves nothing durable; one outside leaves at most its own effect, and if it
succeeds exactly that). After them no vendor is named again. The two properties speak of the
end of the request, so the invariant `IInv` follows the request to it: `Sound` (a connection
that commits by itself has nothing pending), `Fresh` (before the first statement the
connection is as it was opened and nothing has run), `Replies` (a reply of success is always
the batch's own, never the exit SQL's), `InUnit` (a batch that is one unit: while it runs
nothing is durable and exactly what was done is pending), `InEach` (with commitPerStmt: as
long as nothing failed, what ran is durable and nothing is pending), `AtExit` (before the
exit SQL, the ended unit is in its next transaction, whose work will not be committed:
`ordering` at `PostgresDriver.js:93` is this case), and `AtEnd`, from which both properties
follow. The refinement maps each action to the one of `UnitOfWork` that ends the
unit, or to a stutter.

**`ConsoleSession_proofs`** proves, for any requests, connections, ids, any clock and expiry,
from `SessionAssumption` and `NoSessionAssumption` (an unknown id is not a content):

| Theorem | States |
|---|---|
| `TypeCorrect` | `Spec => []TypeOK` |
| `IdleServesNothing` | `Spec => IdleSessionServesNothing` |
| `DisconnectionSticks` | `Overlapping = {}` implies `Spec => []DisconnectSticks` |
| `LogonStays` | `Overlapping = {}` implies `Spec => []LogonSticks` |

*Idle sessions* need no assumption on what overlaps. `Ages` says of every content, in the
store or in a request's copy, that its stamp is not ahead of the clock, and that what has a
stamp later than `touched` - a session that a poll has started or emptied - is logged on to
nothing but what a poll may log on to by itself. A late request writes an old copy back, but with
its old stamp, by which the next `begin()` judges it.

*One request at a time.* `Serial` relates the copy of the one request in progress, the
stored session and what the browser was told: the copy agrees with `told` (`Agrees`), where
what the request is about counts as unknown from the moment it is made (`Withdrawn`); if the
session is not new, the store still holds what the request loaded, so that a reply that
stores nothing loses nothing; and when nobody works, the store itself agrees with `told`.
`Stages` says what has been done to the copy at each await. `Overlapping = {}`
says that the browser waits for each reply. It is needed: with an overlapping poll
`DisconnectSticks` is false, which is finding 2.

**`StatementExecution_proofs`** proves, for results, windows, look-aheads and batches of any
size, on each driver, with failures anywhere, from `RunnerAssumption` and
`ExecutionAssumption`:

| Theorem | States |
|---|---|
| `TypeCorrect` | `Spec => []TypeOK` |
| `WindowShown` | `Spec => []WindowIsTrue` |
| `SuccessReported` | `Spec => []SuccessIsWhole` |
| `ConnectionFreed` | `Spec => []ConnectionIsFree` |
| `OneBatchHeld` | `Spec => []HoldsOneBatch` |
| `StepsOfResultCursor` | `Spec => Promise!Init /\ [][Promise!Next]_(Promise!cursorVars)` |
| `Sound` | `Spec => []IInv`, from which all of them follow |

`IInv` has two sides that meet in the conversation between them. The runner's: `Reading`
says that what it has read is what the cursor has given, and that `data` is the part of it
from `fromRow` on; while it counts, the window is full, the position is past it and below
the limit, and `countRows` is on - without the last, a `count` that was never asked for
would give a true size that `WindowIsTrue` rejects, so the invariant would not be inductive.
`Conversation` lists what may be asked and answered at each await, `Truthful` what the
answers mean: an end is only answered at the end, and never for a result that failed. The
cursors' side is what makes the answers true. A batch of PostgreSQL is the rows that follow
those given (`PostgresBatch`). For MySQL (`MySqlStream`) the number of packets that have
arrived says nearly everything: `Follows` gives from it the flags `started`, `ended`,
`error` and the count of sets, `Holds` the rows - those between what was given and what has
arrived, at most a batch, less than one unless the connection is paused. `AnswerIs` spells
out which packet comes at each position, which replaces the induction over the packets.
While the cursor is closing it holds nothing and discards; `Over` names the moments from
which on the connection is free, one step before the runner sees the answer. The lemmas
`Keeps` prove for each cursor that a step that changes neither what was read nor the
question keeps the runner's side, so that each action is proved on one side only. The
refinement comes from the same invariant: each method of a cursor that runs up to its answer
is the step of `ResultCursor` that gives it, every packet is a stutter.

**`DrdaTransport_proofs`** proves of the transport, with any callers and a server that
answers each request in one piece or two (`TransportSpec`), from `TransportAssumption`:

| Theorem | States |
|---|---|
| `TransportTypeCorrect` | `TransportSpec => []TransportTypeOK` |
| `RepliesAreOwn` | `TransportSpec => []OwnReply` |
| `OneAtATime` | `TransportSpec => []OneInFlight` |

A piece in the buffer does not say whose it is, so a reply could be taken for the next one's
if anything were left between two requests. `Silence` says that nothing is: while nobody
waits and the connection is good, the server has no request, and wire and buffer are empty.
`Exchange` is its other half: while a caller waits, all that is under way belongs to its
latest request, and only the last piece on the wire can be the last of a reply, so that when
it has arrived, nothing is left. `Placed` ties `queue` and `waiting` to the states of the
callers; without it, one caller could be answered twice. An unreadable piece or a broken
connection end the argument the simple way: `closed` is for good, and nobody waits again.

**`DrdaConnection_proofs`** proves, for any statements that share a connection, any number
of sections, results of any size, replies in pieces, failures and a close at any time, from
`TransportAssumption`, `ConnectionAssumption` and `MessagesAssumption`:

| Theorem | States |
|---|---|
| `ConnectionTypeCorrect` | `Spec => []TypeOK` |
| `ConnectionRepliesAreOwn` | `Spec => []OwnReply` |
| `ConnectionOneInFlight` | `Spec => []OneInFlight` |
| `NoSectionIsLost` | `Spec => []SectionsReleased` |
| `SectionsAreFree` | `"open" \notin Undecodable` implies `Spec => []SectionIsFree` |
| `StepsOfResultCursor` | for each statement, `Spec => Promise(s)!Init /\ [][Promise(s)!Next]_(Promise(s)!cursorVars)` |
| `ConnectionSound` | `Spec => []IInv`, from which the others follow |

`IInv` keeps `Inv`, the invariant of the transport, and says on top of it what a statement
and the server know of each other. `Orderly`: what the server works on is the request of the
caller that waits, and after a rejection or a lost socket the connection is closed for good.
`Talk` ties the await a statement stands at to the call of its reader. `Data` counts halves:
what was received is what was read, what is waiting and at most one half; every waiting row
is whole and has the large object of its own number. `Told` lists what a reply may say to
whom, and `Underway` says it of the replies on the wire; with them, `ReceiveFacts` and
`RowsArrive` show that decoding a block and attaching its objects give exactly the rows that
follow. `Allocated` counts sections: each that is held is kept by exactly one statement, one
that is still in progress (`Keeping`). Each step of a statement then `Takes` its section,
`Leaves` it or `Sits` in it, and the steps of other statements cannot disturb that, which is
one lemma (`StepIsGood`) for all of them.

*A section is free.* That a section is held once does not say that the server has nothing
open in it. `Opens` says that a query is open only in the section of the statement that it is
of, and `Shut` names the replies that tell of its end: when a statement gets one of these,
its query is gone, so that every release comes after the server's close. That is asked of a
connection that can still send (`~closed`); after a failure sections are released over open
queries, and nothing can be prepared in them any more. The hypothesis on `Undecodable` is
needed: without it the property is false, which is finding 4. Rows of a later block that can
not be decoded do no harm, and the theorem allows them.

*The cursor.* `StatementPromises` takes each step of a statement to the step of
`ResultCursor` that gives its answer; everything the transport, the server, the close and
other statements do is a stutter to it.

**`TEScript_proofs`** proves, for scripts of any shape and depth, any number of runs, and
timers, answers and waits in any order, from `ScriptAssumption`:

| Theorem | States |
|---|---|
| `ContinuesOnce` | `Ordinary` implies `Spec => []OneContinuation` |
| `PlacesHold` | `Ordinary` implies `Spec => []LocationsHold` |
| `LockOwned` | `Ordinary` implies `Spec => []LockIsOwned` |
| `ScriptsSound` | `Ordinary` implies `Spec => []IInv`, from which they follow |
| `AsWritten` | `Ordinary`, `Plain` and `Finite(depth)`, for some `depth`, imply `Spec => []RunsAsWritten` |
| `RunsTold` | the same imply `Spec => []TInv`, from which it follows |

*Ordinary scripts.* The properties are false for scripts that the code is known to lose, and
`Ordinary` excludes those: a check that throws anywhere but in the first task of a script
without an action of its own, where it is caught; a `wait` after a `wait` of the same group, or in
a list that repeats; `parallel` without branches; a server action whose request fails. Each
is noted above under findings. TLC evaluates `Ordinary` for the scripts of `tescript`. Scripts
may have `lockscreen` and `unlockscreen` tasks as they like: `LockOwned` speaks of locks that a
script's `lockScreen` put up, and says that no such task, no other script and no button takes
a frame away from one that is still there. Nothing is claimed of a lock that a task put up.

*Plain and finite scripts.* What a script means is defined for tasks that are known, and by
recursion on what they consist of, so `AsWritten` needs some `depth` by which parts are less
deep than what they are parts of (`Finite`), as those of a JSON definition are unless scripts
call each other in a circle. `Plain` excludes three things that the code does otherwise than
it is written, all noted under findings: a list that repeats and has lists within it, with
which it shares its count; a `retry` of an outer action; and a task that assigns a parameter
at a place after a `wait` of its group (`Waited`), unless it is one that is known to fail. So
`AsWritten` says of `wait; assignLocalParameter` what the code does, which is to exit, and not
what its author means. Its other conditions say that
the tasks of a script are groups (`task` or `IF`, the only ones that
`executeFollowOnActionsInternal` runs), and that no script calls itself. TLC evaluates both for the instance, with the depth of its tasks.

*The invariant.* That a run goes on at one place says nothing of what happens when it goes
on there: the next call may come from a frame. So `IInv` places each run twice. `Stands`
names the five modes - a timer, a `wait`, a server's answer, the task being executed, its
branches - and says that a run is in exactly one of them, with a call that fits the script
on its stack (`Ready`). `Stacked` says the same of what comes later: the call of every frame
fits the script that the frame brings back, the first frame is the one that ends the run,
and the frames marked `DoublePOP` are exactly those that unlock the screen, so that an
unwind that calls only marked frames forgets no unlock and calls nothing else. One thing
cannot be read off a place: a `wait` goes on in a task list with the wrong `this`
(`by = "stack"`), where a further wait would be lost and an assignment throws; `Behind` says
that the group has a wait and that its waits are over, from which `StackWaited` gets that what
throws there is a task that `Plain` has down as failing. `Families` relates the counter of a
`parallel` task to the branches that are still running, by `Cardinality`.

*The argument.* The lemmas called `...Proceeds` say of each way to move a run on (push, pop,
unwind to a flag, a handler, a follow-on action) that it gives one call that fits the stack
it leaves, and the unlocks it passed (`Proceeds`); `CallsDown` and `Greatest` say what an
unwind finds. `RunMoves` and `RunLeaves` then place the run that moved, `PlacedStays` every
other run, `FamiliesStay` and `LockStays` the rest, and each action is one application of
them. `Parallel` is the longest: it starts runs, which appear in the timers in their order.

*What a run does.* `RunsAsWritten` looks at the log alone; whether it still begins something
that the script can mean depends on what the frames are going to add. `Left` gives what is
left of a script at a call, in the terms of its meaning: the rest of the tasks of a script,
or of a task list in the middle of one of its rounds. A `Certificate` says for each
height of a stack, and each way to leave what is above it, which logs may have been done by
then: those that, with whatever the frame that catches it (`Goal`) adds, may have been done
one height or more below, down to the bottom, where they are whole scripts. A run `Follows`
when there is a certificate for its stack that `Accepts` its log with all that is left at
its call, and `TInv` says so wherever a run goes on: at a timer, a `wait`, an answer, the task
being executed, its branches (`Told`). With it go the count of repeats, which is 0 except
within the list that repeats (`Settled`, `Starts`), and the scripts of the frames: one that is
yet to be executed is under its parameters only (`Executes`), and what `retry` unwinds to is
not the script it is in (`Apart`), which is why it is a mere return.

*The steps.* First, `Ways` is what its equations say: `WaysMeant` shows that the recursive
function exists, by the same induction as for menus, and `GroupFacts` to `TaskRest` say how what is
left changes from one task, round and list to the next. `AcceptsPush`, `AcceptsUnwind` and
`AcceptsThen` then do for certificates what pushing a frame, unwinding to one and doing a
task do for stacks; the lemmas called `...Follows` say of each way to move a run on that it
still follows, and those called `...Told` of each action. Other runs are left as they are
(`OthersTold`). In the end a run at the bottom of its stack has done a whole script, and one
above it has a certificate that what it did is the beginning of one (`ToldIsAsWritten`).

**`DeferredMenus_proofs`** proves, for definitions of any shape and depth, any answers of
their sources and any place that is asked for, from `MenusAssumption`:

| Theorem | States |
|---|---|
| `WholeMenu` | `Spec => []MenuIsWhole` |
| `OwedLists` | `Spec => []ListsAreOwed` |
| `QueueSound` | `Spec => []IInv`, from which both follow |

`MenusAssumption` says that definitions are trees of finite depth, as JSON and XML are, and
that what a query gives does not contain the query. TLC evaluates it for the 92 definitions
of `menus`.

*Recursion.* `node()` calls itself, and so do `Made`, `Breaks` and `Shows`. A predicate is a
set, so that induction needs no operator as a parameter: `Least` (a set of numbers has a
least one) gives `ByDepth` (what holds of a place when it holds of the lower ones holds of
all), and `Recursion` proves that a function given by its values at lower places exists, by
building it depth by depth. `MadeUnfolds`, `BreaksUnfolds` and `ShowsUnfolds` are the
equations of the code's recursion, each with its type; `FlattenUnfolds` does the same for the
fold by which the works of a list are queued one after the other.

*One pass.* By `ByDepth`, what `node()` makes of a menu is what it means, except for lists
that are made later, and it throws exactly when the meaning breaks (`MadeMeans`); the works
it queues are for branches below it, one for each that is still open, and none is for a
branch below that of another (`WorksMade`). The latter is where trees are needed: below two
menus of a list there is no menu with a list in common (`Sisters`, from `OneLine`).

*The queue.* That a list is owed says nothing of what the work that owes it will give, which
may be to hand the list on. `Sound` therefore says of each work (`Pending`) that the list it
is to fill is empty, that it is the list of its own branch or of one that is to show the
same, and that all lists below its branch are as they were made; of two works (`Apart`) that
they fill different lists and neither is below the branch of the other; and of the tree
(`Tree`) that each of its lists has a work or is what it should be. A turn of the loop then
disturbs nothing but what is below the branch of its work: `Resolved` shows that the queue
stays sound for whatever `#build()` gives, as long as it `FillsUp` - nodes that are right or
another work for the same list, and works that lie apart from each other. `FailsFill`,
`KeepFills` and `DropFills` show that of its three ends, an error menu, a menu that keeps
its place, and one that is dropped. When the queue is empty, `Tree` is `MenuIsWhole`.

**Model-checked only**: all liveness, the fairness of `ImplementsResultCursor` included, as
liveness under fairness and ENABLED are out of the prover's reach. `Check` of `RunConditions`
is written without a fold (its last condition decides), so that its proof needs no induction.

## Not modelled

- *Statement text, values, formats, pages, XML conversion*: data transformations without
  state; the repository's parity tests compare them with the PHP version.
- *Forced default connection, remembered passwords, languages* in the session: no property
  depends on them yet.
- *Several server processes on one store file*: each has its own temporary file and the
  rename is atomic, but lists may overwrite each other; nothing in the code claims otherwise.
- *Statements that end the transaction themselves* (COMMIT or DDL that commits, typed by the
  user), and SQLite's own rollback when its disk is full: a unit of work is the user's then.
- *DRDA*: logon and the security exchange before the first statement, metadata, parameters,
  result sets of procedures. Large objects come in the reply that completes their rows, as
  `QueryData.js` expects.
- *Scripts*: for loops (`forbegin`, `for`, `forend`); the checks of parameters, with their
  frames "check", and `checklist`, whose list is looked up on the stack (`checkif` is `if`);
  `destroy()`; timers of panels; a `panelreload` of another panel is a `Step`. A reload that
  throws after its `exitAction` (1094, 1183) exits a second time, and is taken not to throw; a
  `runaction` of an unknown name returns at once and an unknown task fails, which are a `Step`
  too. What a `Step` does is not modelled: `echo` writes nothing after a `wait`, and branches
  of a `parallel` after one are made without a panel. Branches run in the skeleton
  action, which does not lock the screen (`ScriptAssumption`). The instance of `tescript` does not have what is noted above as going wrong: a check that throws is the
  first one of a script or within a group; `retry` names its own action; only a list without
  nested lists repeats; no `wait` follows a `wait` in one group; a server action answers or
  reports an error.
- *Menus*: the translation of leaves, links, pages and scripts field by field; delay-loaded
  branches, which are leaves of the tree that is sent; inline `branchXML` without a
  stylesheet, which is made on the spot.
- *The other browser code* (tables, charts, windows, menus on the screen): display code over
  the DOM, without an interface to check it against; *PHP server, vendored libraries,
  definition files*: not this program.

## Plan

Built so far, in this order: the store and its abstract map (shared, persistent, crashes),
sessions and logons (concurrency), the SQL batch over the vendors' transactions (partial
failure), the store's proofs; then cursors and the runner (events, liveness), the DRDA client
(queue, pieces, failure), the script processor (timers, unwinding), the proofs of batch and
transport, the menus, and the proofs of sessions, of statements over their cursors, of
statements on a DRDA connection, of the stacks and places of scripts, of the menus, and of what scripts do.

Next, most important first:

1. `ConsoleSession`: forced connection, remembered passwords, the connections a request has
   open and `closeAll`.
2. Scripts: for loops, and the repair of nested repeats, with the meaning as the judge.
