---------------------------- MODULE ConnectionStore ----------------------------
(***************************************************************************)
(* server/core/ConnectionStore.js: the file of saved connections, as the   *)
(* concurrent requests of one server process read and rewrite it.          *)
(*                                                                         *)
(* save() and remove() read the whole file, change the list in memory and  *)
(* write it back through a temporary file that is then renamed over the    *)
(* store.  Each of these is an await of its own, so that calls interleave  *)
(* at every step; the temporary file is named after the process, so that   *)
(* all calls share it.  The file system is modelled by inodes: a write     *)
(* goes to the inode the call opened, whatever its name is by then.        *)
(***************************************************************************)
EXTENDS StoreContent

CONSTANTS
  Callers,        \* calls of save() or remove() that can be in progress together
  Inodes,         \* enough for the store, the temporary file and an open file per caller
  NoInode,        \* what a name that no file has refers to
  Truncated,      \* the empty text of a file just opened for writing
  Garbled,        \* a part of one list, or parts of two
  Overlap         \* may a call begin while another is in progress?

VARIABLES
  disk,           \* what each inode holds
  store,          \* the inode called connStore.json
  temporary,      \* the inode called connStore.json.<pid>.tmp
  pc,             \* where each call is, or its outcome
  call,           \* what each call was asked to do
  entries,        \* the list each call has read
  fd,             \* the inode each call is writing
  removed         \* history: the descriptions whose removal was ever asked for

vars     == <<disk, store, temporary, pc, call, entries, fd, removed>>
fileVars == <<disk, store, temporary>>

(* What a file can hold: a list, or a text that JSON.parse refuses.  *)
Data == Content \union {Truncated, Garbled}

Calls  == [kind: {"save"}, d: Descriptions, details: Details]
            \union [kind: {"remove"}, d: Descriptions]
NoCall == [kind |-> "none"]

Busy    == {"read", "open", "write", "rename"}
Replied == {"idle", "saved", "failed"}

ASSUME StoreAssumption ==
  /\ {Truncated, Garbled} \cap Content = {}
  /\ NoInode \notin Inodes
  /\ Inodes # {}
  /\ Overlap \in BOOLEAN

TypeOK ==
  /\ disk      \in [Inodes -> Data]
  /\ store     \in Inodes \union {NoInode}
  /\ temporary \in Inodes \union {NoInode}
  /\ pc        \in [Callers -> Busy \union Replied]
  /\ call      \in [Callers -> Calls \union {NoCall}]
  /\ entries   \in [Callers -> Content]
  /\ fd        \in [Callers -> Inodes \union {NoInode}]
  /\ removed   \subseteq Descriptions
  /\ \A c \in Callers : pc[c] \in Busy => call[c] \in Calls
  /\ \A c \in Callers : pc[c] = "write" => fd[c] \in Inodes

(* The server starts; the store is the administrator's, or there is none.   *)
Init ==
  /\ store \in Inodes \union {NoInode}
  /\ store = NoInode => Initial = NoContent
  /\ disk = [i \in Inodes |-> IF i = store THEN Initial ELSE Truncated]
  /\ temporary = NoInode
  /\ pc = [c \in Callers |-> "idle"]
  /\ call = [c \in Callers |-> NoCall]
  /\ entries = [c \in Callers |-> NoContent]
  /\ fd = [c \in Callers |-> NoInode]
  /\ removed = {}

-------------------------------------------------------------------------------
(* The steps of a call.                                                     *)

(* The call goes on to its next step, keeping its local variables.  *)
Goto(c, label) == pc' = [pc EXCEPT ![c] = label]

(* The call returns or throws and its local variables are gone.  *)
Reply(c, outcome) ==
  /\ pc' = [pc EXCEPT ![c] = outcome]
  /\ call' = [call EXCEPT ![c] = NoCall]
  /\ entries' = [entries EXCEPT ![c] = NoContent]
  /\ fd' = [fd EXCEPT ![c] = NoInode]

(* A request calls save() or remove() on a writable store.  *)
Begin(c) ==
  /\ pc[c] \in Replied
  /\ Overlap \/ \A other \in Callers : pc[other] \in Replied
  /\ \E request \in Calls :
       /\ call' = [call EXCEPT ![c] = request]
       /\ removed' = IF request.kind = "remove" THEN removed \union {request.d} ELSE removed
  /\ Goto(c, "read")
  /\ UNCHANGED <<fileVars, entries, fd>>

(* What a reader of the store finds: the text of the file, or an empty      *)
(* store when there is no file.                                             *)
Visible == IF store = NoInode THEN NoContent ELSE disk[store]

(* #read: the whole file, parsed.  remove() of a description that is not    *)
(* there ends here, writing nothing.                                        *)
Read(c) ==
  /\ pc[c] = "read"
  /\ Visible \in Content
  /\ IF call[c].kind = "remove" /\ Visible[call[c].d] = NoEntry
       THEN Reply(c, "saved")
       ELSE /\ entries' = [entries EXCEPT ![c] = Visible]
            /\ Goto(c, "open")
            /\ UNCHANGED <<call, fd>>
  /\ UNCHANGED <<fileVars, removed>>

(* #read: JSON.parse throws, as it must on a text that is no list, or       *)
(* readFile rejects for a reason other than ENOENT; the call fails with it. *)
ReadFails(c) ==
  /\ pc[c] = "read"
  /\ Reply(c, "failed")
  /\ UNCHANGED <<fileVars, removed>>

FreeInodes == Inodes \ ({store, temporary} \union {fd[c] : c \in Callers})

(* Which inode a new file gets is immaterial; one is always free.  *)
NewInode == CHOOSE i \in FreeInodes : TRUE

(* The file system reclaims an inode without a name that no call is writing. *)
Reclaimed(data, names, writers) ==
  [i \in Inodes |-> IF i \in names \/ \E c \in writers : i = fd[c] THEN data[i] ELSE Truncated]

(* Mutant: the store is written in place.  *)
OpenInPlace(c) ==
  /\ pc[c] = "open"
  /\ store # NoInode
  /\ disk' = [disk EXCEPT ![store] = Truncated]
  /\ fd' = [fd EXCEPT ![c] = store]
  /\ Goto(c, "write")
  /\ UNCHANGED <<store, temporary, call, entries, removed>>

(* #write: writeFile opens the temporary file, truncating or creating it.  *)
Open(c) ==
  /\ pc[c] = "open"
  /\ temporary = NoInode => FreeInodes # {}
  /\ LET i == IF temporary = NoInode THEN NewInode ELSE temporary IN
       /\ temporary' = i
       /\ disk' = [disk EXCEPT ![i] = Truncated]
       /\ fd' = [fd EXCEPT ![c] = i]
  /\ Goto(c, "write")
  /\ UNCHANGED <<store, call, entries, removed>>

(* Mutant: only the entry that is saved is written.  *)
ChangeAlone(c) ==
  IF call[c].kind = "save"
    THEN WithEntry(NoContent, call[c].d, call[c].details)
    ELSE WithoutEntry(entries[c], call[c].d)

(* The list the call writes: the one it read, with its change.  *)
Changed(c) ==
  IF call[c].kind = "save"
    THEN WithEntry(entries[c], call[c].d, call[c].details)
    ELSE WithoutEntry(entries[c], call[c].d)

(* What a file may hold once data is written from its start: the tail of a  *)
(* longer text that another call wrote there stays.                         *)
Overwritten(old, new) == IF old = Truncated THEN {new} ELSE {new, Garbled}

(* #write: writeFile writes the text to the file it opened and closes it.  *)
Write(c) ==
  /\ pc[c] = "write"
  /\ \E data \in Overwritten(disk[fd[c]], Changed(c)) :
       disk' = Reclaimed([disk EXCEPT ![fd[c]] = data], {store, temporary}, Callers \ {c})
  /\ Goto(c, "rename")
  /\ fd' = [fd EXCEPT ![c] = NoInode]
  /\ UNCHANGED <<store, temporary, call, entries, removed>>

(* #write: the file can not be opened, or the disk is full part way         *)
(* through the text; writeFile rejects.                                     *)
WriteFails(c) ==
  /\ \/ pc[c] = "open" /\ UNCHANGED disk
     \/ pc[c] = "write" /\ disk' = Reclaimed([disk EXCEPT ![fd[c]] = Garbled],
                                            {store, temporary}, Callers \ {c})
  /\ Reply(c, "failed")
  /\ UNCHANGED <<store, temporary, removed>>

(* Mutant: the store is removed to make way for the temporary file.  *)
RemoveFirst(c) ==
  /\ pc[c] = "rename"
  /\ store' = NoInode
  /\ disk' = Reclaimed(disk, {temporary}, Callers)
  /\ UNCHANGED <<temporary, pc, call, entries, fd, removed>>

(* #write: the temporary file takes the place of the store.  *)
Rename(c) ==
  /\ pc[c] = "rename"
  /\ temporary # NoInode
  /\ store' = temporary
  /\ temporary' = NoInode
  /\ disk' = Reclaimed(disk, {temporary}, Callers)
  /\ Reply(c, "saved")
  /\ UNCHANGED removed

(* #write: rename rejects, as it must when another call has renamed the     *)
(* temporary file away (ENOENT); a temporary file that is there stays.      *)
RenameFails(c) ==
  /\ pc[c] = "rename"
  /\ Reply(c, "failed")
  /\ UNCHANGED <<fileVars, removed>>

(* The server stops and starts again: its calls are gone, and the temporary *)
(* file it left is in use again only if the new process has the same pid.   *)
Crash ==
  /\ pc' = [c \in Callers |-> "idle"]
  /\ call' = [c \in Callers |-> NoCall]
  /\ entries' = [c \in Callers |-> NoContent]
  /\ fd' = [c \in Callers |-> NoInode]
  /\ temporary' \in {temporary, NoInode}
  /\ disk' = Reclaimed(disk, {store, temporary'}, {})
  /\ UNCHANGED <<store, removed>>

Proceed(c) ==
  \/ Read(c) \/ ReadFails(c) \/ Open(c) \/ Write(c) \/ WriteFails(c)
  \/ Rename(c) \/ RenameFails(c)

Next == Crash \/ \E c \in Callers : Begin(c) \/ Proceed(c)

Spec == Init /\ [][Next]_vars

-------------------------------------------------------------------------------
(* What the store must do.                                                  *)

(* A failed write, a full disk or a stopped server never leaves a store     *)
(* that can not be read: "Writes through a temporary file so a failed       *)
(* write never leaves a broken store" (#write).                             *)
NeverBroken == Visible \in Content

(* The password an administrator put in the file stays with its entry       *)
(* through every save of that entry, and is never replaced by one typed in  *)
(* the login form, until someone asks for the entry to be removed.          *)
AdministratorPasswordKept ==
  Visible \in Content =>
    \A d \in Descriptions \ removed :
      Initial[d] # NoEntry =>
        Visible[d] # NoEntry /\ Visible[d].password = Initial[d].password

(* Once there is a store there is always one: no step of a save, not even   *)
(* a crash in the middle, leaves the server without its file.               *)
StoreNeverVanishes == [][store # NoInode => store' # NoInode]_vars

(* A call that reports success has done what it was asked, and only that:   *)
(* the entry it saved is in the file a reader now finds, the one it removed *)
(* is not, and every other entry is as the call found it.                   *)
RepliesAreTrue ==
  [][\A c \in Callers : pc[c] \in Busy /\ pc'[c] = "saved" =>
       LET d == call[c].d IN
         /\ Visible' \in Content
         /\ IF call[c].kind = "remove"
              THEN Visible'[d] = NoEntry
              ELSE Visible'[d] # NoEntry /\ Visible'[d].details = call[c].details
         /\ \A e \in Descriptions \ {d} : Visible'[e] = Visible[e]]_vars

(* Calls that do not overlap are atomic: the file implements the map.       *)
Saved == INSTANCE SavedConnections WITH saved <- Visible
ImplementsSavedConnections == Saved!Spec
===============================================================================
