------------------------ MODULE ConnectionStore_proofs ------------------------
(***************************************************************************)
(* Theorems about ConnectionStore, for any number of callers, connections  *)
(* and inodes.                                                             *)
(***************************************************************************)
EXTENDS ConnectionStore, TLAPS

-------------------------------------------------------------------------------
(* Lemmas about the content of the store.                                   *)

(* A save yields a list, whatever the list it is applied to.  *)
LEMMA SavedIsContent ==
  ASSUME NEW content \in Content, NEW d \in Descriptions, NEW details \in Details
  PROVE  WithEntry(content, d, details) \in Content
<1> DEFINE entry == [details |-> details, password |-> KeptPassword(content[d]),
                     autoConnect |-> FALSE]
<1>1. content[d] \in Entry \union {NoEntry}
  BY DEF Content
<1>2. KeptPassword(content[d]) \in Passwords
  BY <1>1 DEF KeptPassword, Passwords, Entry
<1>3. entry \in Entry
  BY <1>2 DEF Entry
<1> QED
  BY <1>3 DEF WithEntry, Content

(* A removal yields a list.  *)
LEMMA RemovedIsContent ==
  ASSUME NEW content \in Content, NEW d \in Descriptions
  PROVE  WithoutEntry(content, d) \in Content
BY DEF WithoutEntry, Content

(* The store of a server without a file is a list.  *)
LEMMA NoContentIsContent == NoContent \in Content
BY DEF NoContent, Content

(* A call writes a list, if it has read one.  *)
LEMMA ChangedIsContent ==
  ASSUME NEW c, call[c] \in Calls, entries[c] \in Content
  PROVE  Changed(c) \in Content
<1>1. CASE call[c].kind = "save"
  <2>1. call[c].d \in Descriptions /\ call[c].details \in Details
    BY <1>1 DEF Calls
  <2> QED
    BY <1>1, <2>1, SavedIsContent DEF Changed
<1>2. CASE call[c].kind # "save"
  <2>1. call[c].d \in Descriptions
    BY <1>2 DEF Calls
  <2> QED
    BY <1>2, <2>1, RemovedIsContent DEF Changed
<1> QED
  BY <1>1, <1>2

-------------------------------------------------------------------------------
(* Type correctness.                                                        *)

LEMMA ReclaimedIsData ==
  ASSUME NEW data \in [Inodes -> Data], NEW names, NEW writers
  PROVE  Reclaimed(data, names, writers) \in [Inodes -> Data]
BY DEF Reclaimed, Data

LEMMA ReplyIsTyped ==
  ASSUME TypeOK, NEW c \in Callers, NEW outcome \in Replied, Reply(c, outcome)
  PROVE  /\ pc' \in [Callers -> Busy \union Replied]
         /\ call' \in [Callers -> Calls \union {NoCall}]
         /\ entries' \in [Callers -> Content]
         /\ fd' \in [Callers -> Inodes \union {NoInode}]
         /\ \A e \in Callers : pc'[e] \in Busy => call'[e] \in Calls
         /\ \A e \in Callers : pc'[e] = "write" => fd'[e] \in Inodes
<1>1. outcome \notin Busy
  BY DEF Replied, Busy
<1> QED
  BY <1>1, NoContentIsContent DEF Reply, TypeOK, Busy

LEMMA TypeInit == Init => TypeOK
<1> SUFFICES ASSUME Init PROVE TypeOK
  OBVIOUS
<1>1. disk \in [Inodes -> Data]
  BY ContentAssumption DEF Init, Data
<1> QED
  BY <1>1, NoContentIsContent DEF Init, TypeOK, Busy, Replied

LEMMA TypeNext == TypeOK /\ [Next]_vars => TypeOK'
<1> SUFFICES ASSUME TypeOK, [Next]_vars PROVE TypeOK'
  OBVIOUS
<1>1. CASE Crash
  <2>1. disk' \in [Inodes -> Data]
    BY <1>1, ReclaimedIsData DEF Crash, TypeOK
  <2> QED
    BY <1>1, <2>1, NoContentIsContent DEF Crash, TypeOK, Busy, Replied
<1>2. ASSUME NEW c \in Callers, Begin(c) PROVE TypeOK'
  <2>1. PICK request \in Calls :
          /\ call' = [call EXCEPT ![c] = request]
          /\ removed' = IF request.kind = "remove" THEN removed \union {request.d} ELSE removed
    BY <1>2 DEF Begin
  <2>2. removed' \subseteq Descriptions
    BY <2>1 DEF Calls, TypeOK
  <2>3. pc' \in [Callers -> Busy \union Replied] /\ call' \in [Callers -> Calls \union {NoCall}]
    BY <1>2, <2>1 DEF Begin, Goto, TypeOK, Busy
  <2>4. \A e \in Callers : pc'[e] \in Busy => call'[e] \in Calls
    BY <1>2, <2>1 DEF Begin, Goto, TypeOK
  <2>5. \A e \in Callers : pc'[e] = "write" => fd'[e] \in Inodes
    BY <1>2 DEF Begin, Goto, TypeOK
  <2> QED
    BY <1>2, <2>2, <2>3, <2>4, <2>5 DEF Begin, TypeOK, fileVars
<1>3. ASSUME NEW c \in Callers, Read(c) PROVE TypeOK'
  <2>1. CASE Reply(c, "saved")
    BY <1>3, <2>1, ReplyIsTyped DEF Read, TypeOK, fileVars, Replied
  <2>2. CASE ~Reply(c, "saved")
    <3>1. /\ entries' = [entries EXCEPT ![c] = Visible]
          /\ pc' = [pc EXCEPT ![c] = "open"]
          /\ UNCHANGED <<call, fd, fileVars, removed>>
          /\ Visible \in Content /\ pc[c] = "read"
      BY <1>3, <2>2 DEF Read, Goto
    <3> QED
      BY <3>1 DEF TypeOK, fileVars, Busy
  <2> QED
    BY <2>1, <2>2
<1>4. ASSUME NEW c \in Callers, ReadFails(c) PROVE TypeOK'
  BY <1>4, ReplyIsTyped DEF ReadFails, TypeOK, fileVars, Replied
<1>5. ASSUME NEW c \in Callers, Open(c) PROVE TypeOK'
  <2> DEFINE i == IF temporary = NoInode THEN NewInode ELSE temporary
  <2>1. i \in Inodes
    <3>1. CASE temporary = NoInode
      <4>1. FreeInodes # {}
        BY <1>5, <3>1 DEF Open
      <4>2. NewInode \in FreeInodes
        BY <4>1 DEF NewInode
      <4> QED
        BY <3>1, <4>2 DEF FreeInodes
    <3> QED
      BY <3>1 DEF TypeOK
  <2>2. /\ temporary' = i
        /\ disk' = [disk EXCEPT ![i] = Truncated]
        /\ fd' = [fd EXCEPT ![c] = i]
        /\ pc' = [pc EXCEPT ![c] = "write"] /\ pc[c] = "open"
        /\ UNCHANGED <<store, call, entries, removed>>
    BY <1>5 DEF Open, Goto
  <2> HIDE DEF i
  <2> QED
    BY <2>1, <2>2 DEF TypeOK, Busy, Data
<1>6. ASSUME NEW c \in Callers, Write(c) PROVE TypeOK'
  <2>1. PICK data \in Overwritten(disk[fd[c]], Changed(c)) :
          disk' = Reclaimed([disk EXCEPT ![fd[c]] = data], {store, temporary}, Callers \ {c})
    BY <1>6 DEF Write
  <2>2. Changed(c) \in Content
    BY <1>6, ChangedIsContent DEF Write, TypeOK, Busy
  <2>3. data \in Data
    BY <2>1, <2>2 DEF Overwritten, Data
  <2>4. disk' \in [Inodes -> Data]
    <3>1. [disk EXCEPT ![fd[c]] = data] \in [Inodes -> Data]
      BY <2>3 DEF TypeOK
    <3> QED
      BY <2>1, <3>1, ReclaimedIsData
  <2> QED
    BY <1>6, <2>4 DEF Write, Goto, TypeOK, Busy
<1>7. ASSUME NEW c \in Callers, WriteFails(c) PROVE TypeOK'
  <2>1. disk' \in [Inodes -> Data]
    <3>1. CASE UNCHANGED disk
      BY <3>1 DEF TypeOK
    <3>2. CASE disk' = Reclaimed([disk EXCEPT ![fd[c]] = Garbled],
                                 {store, temporary}, Callers \ {c})
      <4>1. [disk EXCEPT ![fd[c]] = Garbled] \in [Inodes -> Data]
        BY DEF TypeOK, Data
      <4> QED
        BY <3>2, <4>1, ReclaimedIsData
    <3> QED
      BY <1>7, <3>1, <3>2 DEF WriteFails
  <2> QED
    BY <1>7, <2>1, ReplyIsTyped DEF WriteFails, TypeOK, Replied
<1>8. ASSUME NEW c \in Callers, Rename(c) PROVE TypeOK'
  <2>1. disk' \in [Inodes -> Data]
    BY <1>8, ReclaimedIsData DEF Rename, TypeOK
  <2> QED
    BY <1>8, <2>1, ReplyIsTyped DEF Rename, TypeOK, Replied
<1>9. ASSUME NEW c \in Callers, RenameFails(c) PROVE TypeOK'
  BY <1>9, ReplyIsTyped DEF RenameFails, TypeOK, fileVars, Replied
<1>10. CASE UNCHANGED vars
  BY <1>10 DEF vars, TypeOK
<1> QED
  BY <1>1, <1>2, <1>3, <1>4, <1>5, <1>6, <1>7, <1>8, <1>9, <1>10 DEF Next, Proceed

(* The variables keep their types, whatever the callers do.  *)
THEOREM TypeCorrect == Spec => []TypeOK
BY TypeInit, TypeNext, PTL DEF Spec
-------------------------------------------------------------------------------
(* The administrator's passwords, whether calls overlap or not.  Every list *)
(* that can still become the store has them: the one in each file and the   *)
(* one that each call has read; a missing store has none to lose.           *)

KeepsPasswords(content, gone) ==
  \A d \in Descriptions \ gone :
    Initial[d] # NoEntry => content[d] # NoEntry /\ content[d].password = Initial[d].password

PasswordsKept ==
  /\ \A i \in Inodes : disk[i] \in Content => KeepsPasswords(disk[i], removed)
  /\ \A c \in Callers : pc[c] \in {"open", "write"} => KeepsPasswords(entries[c], removed)
  /\ \A c \in Callers : call[c] \in Calls /\ call[c].kind = "remove" => call[c].d \in removed
  /\ store = NoInode => KeepsPasswords(NoContent, removed)

(* A call that has read the passwords writes them back.  *)
LEMMA ChangedKeepsPasswords ==
  ASSUME NEW c \in Callers, call[c] \in Calls, entries[c] \in Content,
         KeepsPasswords(entries[c], removed),
         call[c].kind = "remove" => call[c].d \in removed
  PROVE  KeepsPasswords(Changed(c), removed)
<1> SUFFICES ASSUME NEW d \in Descriptions \ removed, Initial[d] # NoEntry
             PROVE  /\ Changed(c)[d] # NoEntry
                    /\ Changed(c)[d].password = Initial[d].password
  BY DEF KeepsPasswords
<1>1. entries[c][d] # NoEntry /\ entries[c][d].password = Initial[d].password
  BY DEF KeepsPasswords
<1>2. CASE call[c].kind = "save"
  <2> DEFINE e == call[c].d
             entry == [details     |-> call[c].details,
                       password    |-> KeptPassword(entries[c][e]),
                       autoConnect |-> FALSE]
  <2>1. e \in Descriptions /\ call[c].details \in Details
    BY <1>2 DEF Calls
  <2>2. Changed(c) = [entries[c] EXCEPT ![e] = entry]
    BY <1>2 DEF Changed, WithEntry
  <2>3. CASE d = e
    <3>1. Changed(c)[d] = entry
      BY <2>1, <2>2, <2>3 DEF Content
    <3>2. KeptPassword(entries[c][e]) = Initial[d].password
      BY <1>1, <2>3 DEF KeptPassword
    <3>3. Changed(c) \in Content
      BY <1>2, ChangedIsContent
    <3>4. entry \in Entry
      <4>1. entries[c][e] \in Entry
        BY <1>1, <2>1, <2>3 DEF Content
      <4> QED
        BY <2>1, <4>1, <1>1, <2>3 DEF Entry, KeptPassword
    <3>5. entry # NoEntry
      BY <3>4, ContentAssumption
    <3> QED
      BY <3>1, <3>2, <3>5
  <2>4. CASE d # e
    <3>1. Changed(c)[d] = entries[c][d]
      BY <2>2, <2>4 DEF Content
    <3> QED
      BY <1>1, <3>1
  <2> QED
    BY <2>3, <2>4
<1>3. CASE call[c].kind # "save"
  <2>1. call[c].kind = "remove"
    BY <1>3 DEF Calls
  <2>2. d # call[c].d
    BY <2>1
  <2>3. Changed(c)[d] = entries[c][d]
    BY <1>3, <2>2 DEF Changed, WithoutEntry, Content
  <2> QED
    BY <1>1, <2>3
<1> QED
  BY <1>2, <1>3

(* What is in a file after one of them is written and others are reclaimed. *)
LEMMA WrittenKeepsPasswords ==
  ASSUME TypeOK, PasswordsKept, UNCHANGED removed,
         NEW i \in Inodes, NEW data \in Data, data \in Content => KeepsPasswords(data, removed),
         NEW names, NEW writers,
         disk' = Reclaimed([disk EXCEPT ![i] = data], names, writers)
  PROVE  \A j \in Inodes : disk'[j] \in Content => KeepsPasswords(disk'[j], removed')
<1> SUFFICES ASSUME NEW j \in Inodes, disk'[j] \in Content
             PROVE  KeepsPasswords(disk'[j], removed)
  BY DEF KeepsPasswords
<1>1. disk'[j] \in {Truncated, data, disk[j]}
  BY DEF Reclaimed, TypeOK
<1>2. Truncated \notin Content
  BY StoreAssumption
<1>3. disk'[j] = data \/ disk'[j] = disk[j]
  BY <1>1, <1>2
<1> QED
  BY <1>3 DEF PasswordsKept

(* A call that ends leaves the rest of the invariant as it is.  *)
LEMMA ReplyKeepsPasswords ==
  ASSUME TypeOK, PasswordsKept, NEW c \in Callers, NEW outcome \in Replied,
         Reply(c, outcome), UNCHANGED removed
  PROVE  /\ \A e \in Callers : pc'[e] \in {"open", "write"} => KeepsPasswords(entries'[e], removed')
         /\ \A e \in Callers :
              call'[e] \in Calls /\ call'[e].kind = "remove" => call'[e].d \in removed'
<1>1. \A e \in Callers : pc'[e] \in {"open", "write"} => e # c /\ pc'[e] = pc[e]
  BY DEF Reply, TypeOK, Replied
<1>2. \A e \in Callers : pc'[e] \in {"open", "write"} => entries'[e] = entries[e]
  BY <1>1 DEF Reply, TypeOK
<1>3. \A e \in Callers : call'[e] = call[e] \/ call'[e] = NoCall
  BY DEF Reply, TypeOK
<1>4. NoCall.kind # "remove"
  BY DEF NoCall
<1>5. \A e \in Callers : pc'[e] \in {"open", "write"} => KeepsPasswords(entries'[e], removed')
  BY <1>1, <1>2 DEF PasswordsKept
<1>6. \A e \in Callers : call'[e] \in Calls /\ call'[e].kind = "remove" => call'[e].d \in removed'
  BY <1>3, <1>4 DEF PasswordsKept
<1> QED
  BY <1>5, <1>6

LEMMA PasswordsInit == Init => PasswordsKept
<1> SUFFICES ASSUME Init PROVE PasswordsKept
  OBVIOUS
<1>1. KeepsPasswords(Initial, removed)
  BY DEF KeepsPasswords
<1>2. \A i \in Inodes : disk[i] \in Content => KeepsPasswords(disk[i], removed)
  BY <1>1, StoreAssumption DEF Init
<1>3. store = NoInode => KeepsPasswords(NoContent, removed)
  BY <1>1 DEF Init
<1>4. NoCall.kind # "remove"
  BY DEF NoCall
<1> QED
  BY <1>2, <1>3, <1>4 DEF Init, PasswordsKept

LEMMA PasswordsNext == TypeOK /\ PasswordsKept /\ [Next]_vars => PasswordsKept'
<1> SUFFICES ASSUME TypeOK, PasswordsKept, [Next]_vars PROVE PasswordsKept'
  OBVIOUS
<1> USE DEF PasswordsKept
<1>1. CASE Crash
  <2>1. \A i \in Inodes : disk'[i] \in {disk[i], Truncated}
    BY <1>1 DEF Crash, Reclaimed
  <2>2. \A i \in Inodes : disk'[i] \in Content => KeepsPasswords(disk'[i], removed')
    BY <1>1, <2>1, StoreAssumption DEF Crash
  <2>3. NoCall.kind # "remove"
    BY DEF NoCall
  <2> QED
    BY <1>1, <2>2, <2>3 DEF Crash
<1>2. ASSUME NEW c \in Callers, Begin(c) PROVE PasswordsKept'
  <2>1. PICK request \in Calls :
          /\ call' = [call EXCEPT ![c] = request]
          /\ removed' = IF request.kind = "remove" THEN removed \union {request.d} ELSE removed
    BY <1>2 DEF Begin
  <2>2. removed \subseteq removed'
    BY <2>1
  <2>3. \A content : KeepsPasswords(content, removed) => KeepsPasswords(content, removed')
    BY <2>2 DEF KeepsPasswords
  <2>4. \A e \in Callers : call'[e] \in Calls /\ call'[e].kind = "remove" => call'[e].d \in removed'
    BY <2>1, <2>2 DEF TypeOK
  <2>5. \A e \in Callers : pc'[e] \in {"open", "write"} => pc[e] \in {"open", "write"}
    BY <1>2 DEF Begin, Goto, TypeOK
  <2> QED
    BY <1>2, <2>3, <2>4, <2>5 DEF Begin, fileVars
<1>3. ASSUME NEW c \in Callers, Read(c) PROVE PasswordsKept'
  <2>1. CASE Reply(c, "saved")
    BY <1>3, <2>1, ReplyKeepsPasswords DEF Read, fileVars, Replied
  <2>2. CASE ~Reply(c, "saved")
    <3>1. /\ entries' = [entries EXCEPT ![c] = Visible]
          /\ pc' = [pc EXCEPT ![c] = "open"]
          /\ UNCHANGED <<call, fileVars, removed>>
          /\ Visible \in Content
      BY <1>3, <2>2 DEF Read, Goto
    <3>2. KeepsPasswords(Visible, removed)
      BY <3>1 DEF Visible, TypeOK
    <3>3. \A e \in Callers : pc'[e] \in {"open", "write"} => KeepsPasswords(entries'[e], removed)
      BY <3>1, <3>2 DEF TypeOK
    <3> QED
      BY <3>1, <3>3 DEF fileVars
  <2> QED
    BY <2>1, <2>2
<1>4. ASSUME NEW c \in Callers, ReadFails(c) PROVE PasswordsKept'
  BY <1>4, ReplyKeepsPasswords DEF ReadFails, fileVars, Replied
<1>5. ASSUME NEW c \in Callers, Open(c) PROVE PasswordsKept'
  <2>1. \A i \in Inodes : disk'[i] \in {disk[i], Truncated}
    BY <1>5 DEF Open, TypeOK
  <2>2. \A i \in Inodes : disk'[i] \in Content => KeepsPasswords(disk'[i], removed')
    BY <1>5, <2>1, StoreAssumption DEF Open
  <2>3. \A e \in Callers : pc'[e] \in {"open", "write"} => pc[e] \in {"open", "write"}
    BY <1>5 DEF Open, Goto, TypeOK
  <2> QED
    BY <1>5, <2>2, <2>3 DEF Open
<1>6. ASSUME NEW c \in Callers, Write(c) PROVE PasswordsKept'
  <2>1. PICK data \in Overwritten(disk[fd[c]], Changed(c)) :
          disk' = Reclaimed([disk EXCEPT ![fd[c]] = data], {store, temporary}, Callers \ {c})
    BY <1>6 DEF Write
  <2>2. Changed(c) \in Content /\ KeepsPasswords(Changed(c), removed)
    BY <1>6, ChangedIsContent, ChangedKeepsPasswords DEF Write, TypeOK, Busy
  <2>3. data \in Data /\ KeepsPasswords(Changed(c), removed)
    BY <2>1, <2>2 DEF Overwritten, Data
  <2>4. data \in Content => KeepsPasswords(data, removed)
    BY <2>1, <2>2, StoreAssumption DEF Overwritten
  <2>5. fd[c] \in Inodes
    BY <1>6 DEF Write, TypeOK
  <2>6. \A i \in Inodes : disk'[i] \in Content => KeepsPasswords(disk'[i], removed')
    BY <1>6, <2>1, <2>3, <2>4, <2>5, WrittenKeepsPasswords DEF Write
  <2>7. \A e \in Callers : pc'[e] \in {"open", "write"} => pc[e] \in {"open", "write"}
    BY <1>6 DEF Write, Goto, TypeOK
  <2> QED
    BY <1>6, <2>6, <2>7 DEF Write
<1>7. ASSUME NEW c \in Callers, WriteFails(c) PROVE PasswordsKept'
  <2>1. \A i \in Inodes : disk'[i] \in Content => KeepsPasswords(disk'[i], removed')
    <3>1. CASE UNCHANGED disk
      BY <1>7, <3>1 DEF WriteFails
    <3>2. CASE pc[c] = "write" /\ disk' = Reclaimed([disk EXCEPT ![fd[c]] = Garbled],
                                                   {store, temporary}, Callers \ {c})
      <4>1. fd[c] \in Inodes
        BY <3>2 DEF TypeOK
      <4>2. Garbled \in Data /\ Garbled \notin Content
        BY StoreAssumption DEF Data
      <4> QED
        BY <1>7, <3>2, <4>1, <4>2, WrittenKeepsPasswords DEF WriteFails
    <3> QED
      BY <1>7, <3>1, <3>2 DEF WriteFails
  <2> QED
    BY <1>7, <2>1, ReplyKeepsPasswords DEF WriteFails, Replied
<1>8. ASSUME NEW c \in Callers, Rename(c) PROVE PasswordsKept'
  <2>1. \A i \in Inodes : disk'[i] \in {disk[i], Truncated}
    BY <1>8 DEF Rename, Reclaimed
  <2>2. \A i \in Inodes : disk'[i] \in Content => KeepsPasswords(disk'[i], removed')
    BY <1>8, <2>1, StoreAssumption DEF Rename
  <2> QED
    BY <1>8, <2>2, ReplyKeepsPasswords DEF Rename, Replied
<1>9. ASSUME NEW c \in Callers, RenameFails(c) PROVE PasswordsKept'
  BY <1>9, ReplyKeepsPasswords DEF RenameFails, fileVars, Replied
<1>10. CASE UNCHANGED vars
  BY <1>10 DEF vars
<1> QED
  BY <1>1, <1>2, <1>3, <1>4, <1>5, <1>6, <1>7, <1>8, <1>9, <1>10 DEF Next, Proceed

(* The password an administrator put in the file is there in every list a   *)
(* reader finds, however calls interleave, fail or are cut off, until the   *)
(* removal of its entry is asked for.                                       *)
THEOREM AdministratorPasswordIsKept == Spec => []AdministratorPasswordKept
<1>1. TypeOK /\ PasswordsKept => AdministratorPasswordKept
  BY DEF PasswordsKept, KeepsPasswords, AdministratorPasswordKept, Visible, TypeOK
<1> QED
  BY <1>1, TypeInit, TypeNext, PasswordsInit, PasswordsNext, PTL DEF Spec

(* No step takes the store away: it is only ever replaced.  *)
THEOREM StoreStays == Spec => StoreNeverVanishes
<1>1. [Next]_vars => [store # NoInode => store' # NoInode]_vars
  BY DEF Next, Proceed, Crash, Begin, Read, ReadFails, Open, Write, WriteFails, Rename,
         RenameFails, vars, fileVars
<1> QED
  BY <1>1, PTL DEF Spec, StoreNeverVanishes
-------------------------------------------------------------------------------
(* Calls that do not overlap.  The one in progress has read the store as it *)
(* still is, and the temporary file is its own: empty until it is written,  *)
(* the whole new list after.                                                *)

Alone ==
  /\ \A c, e \in Callers : pc[c] \in Busy /\ pc[e] \in Busy => c = e
  /\ temporary # NoInode => temporary # store
  /\ Visible \in Content
  /\ \A c \in Callers : pc[c] \in {"open", "write", "rename"} => entries[c] = Visible
  /\ \A c \in Callers : pc[c] = "write" => fd[c] = temporary /\ disk[temporary] = Truncated
  /\ \A c \in Callers :
       pc[c] = "rename" => temporary # NoInode /\ disk[temporary] = Changed(c)

(* Between the opening of the temporary file and the end of the call, no    *)
(* step touches the store.                                                  *)
LEMMA StoreUntouched ==
  ASSUME TypeOK, Alone, UNCHANGED store,
         \A i \in Inodes : i = store => disk'[i] = disk[i]
  PROVE  Visible' = Visible
BY DEF Visible, TypeOK

(* A call that ends leaves no call in progress.  *)
LEMMA ReplyLeavesNobody ==
  ASSUME TypeOK, Alone, NEW c \in Callers, pc[c] \in Busy,
         NEW outcome \in Replied, Reply(c, outcome)
  PROVE  \A e \in Callers : pc'[e] \notin Busy
BY DEF Reply, TypeOK, Alone, Busy, Replied

LEMMA AloneWhenNobody ==
  ASSUME \A c \in Callers : pc[c] \notin Busy,
         temporary # NoInode => temporary # store,
         Visible \in Content
  PROVE  Alone
BY DEF Alone, Busy

LEMMA AloneInit == Init => Alone
<1> SUFFICES ASSUME Init PROVE Alone
  OBVIOUS
<1>1. Visible = Initial
  BY DEF Init, Visible
<1>2. \A c \in Callers : pc[c] \notin Busy
  BY DEF Init, Busy
<1> QED
  BY <1>1, <1>2, AloneWhenNobody, ContentAssumption DEF Init

(* What a step does to the store, when calls do not overlap.  *)
LEMMA AloneNext ==
  ASSUME ~Overlap, TypeOK, Alone, [Next]_vars
  PROVE  Alone' /\ [Saved!Next]_Visible
<1>1. CASE Crash
  <2>1. UNCHANGED Visible
    BY <1>1, StoreUntouched DEF Crash, Reclaimed
  <2>2. \A c \in Callers : pc'[c] \notin Busy
    BY <1>1 DEF Crash, Busy
  <2>3. temporary' # NoInode => temporary' # store'
    BY <1>1 DEF Crash, Alone
  <2>4. Visible' \in Content
    BY <2>1 DEF Alone
  <2> QED
    BY <2>1, <2>2, <2>3, <2>4 DEF Alone, Busy
<1>2. ASSUME NEW c \in Callers, Begin(c) PROVE Alone' /\ UNCHANGED Visible
  <2>1. \A e \in Callers : pc[e] \notin Busy
    BY <1>2 DEF Begin, Busy, Replied
  <2>2. pc' = [pc EXCEPT ![c] = "read"] /\ UNCHANGED <<fileVars>>
    BY <1>2 DEF Begin, Goto
  <2>3. UNCHANGED Visible
    BY <2>2 DEF Visible, fileVars
  <2>4. \A e \in Callers : pc'[e] \in Busy => e = c /\ pc'[e] = "read"
    BY <2>1, <2>2 DEF TypeOK
  <2> QED
    BY <2>2, <2>3, <2>4 DEF Alone, fileVars, Busy
<1>3. ASSUME NEW c \in Callers, Read(c) PROVE Alone' /\ UNCHANGED Visible
  <2>1. UNCHANGED Visible
    BY <1>3 DEF Read, fileVars, Visible
  <2>2. pc[c] \in Busy
    BY <1>3 DEF Read, Busy
  <2>3. CASE Reply(c, "saved")
    <3>1. \A e \in Callers : pc'[e] \notin Busy
      BY <2>2, <2>3, ReplyLeavesNobody DEF Replied
    <3> QED
      BY <1>3, <2>1, <3>1 DEF Read, fileVars, Alone, Busy
  <2>4. CASE ~Reply(c, "saved")
    <3>1. /\ entries' = [entries EXCEPT ![c] = Visible]
          /\ pc' = [pc EXCEPT ![c] = "open"]
          /\ UNCHANGED <<disk, store, temporary>>
      BY <1>3, <2>4 DEF Read, Goto, fileVars
    <3>2. \A e \in Callers : pc'[e] \in Busy => e = c
      BY <2>2, <3>1 DEF Alone, TypeOK
    <3>3. pc'[c] = "open" /\ entries'[c] = Visible
      BY <3>1 DEF TypeOK
    <3> QED
      BY <2>1, <3>1, <3>2, <3>3 DEF Alone, Busy
  <2> QED
    BY <2>3, <2>4
<1>4. ASSUME NEW c \in Callers, ReadFails(c) PROVE Alone' /\ UNCHANGED Visible
  <2>1. \A e \in Callers : pc'[e] \notin Busy
    BY <1>4, ReplyLeavesNobody DEF ReadFails, Replied, Busy
  <2> QED
    BY <1>4, <2>1 DEF ReadFails, Alone, Busy, fileVars, Visible
<1>5. ASSUME NEW c \in Callers, Open(c) PROVE Alone' /\ UNCHANGED Visible
  <2> DEFINE i == IF temporary = NoInode THEN NewInode ELSE temporary
  <2>1. i \in Inodes /\ i # store
    <3>1. CASE temporary = NoInode
      <4>1. NewInode \in FreeInodes
        BY <1>5, <3>1 DEF Open, NewInode
      <4> QED
        BY <3>1, <4>1 DEF FreeInodes
    <3> QED
      BY <3>1 DEF TypeOK, Alone
  <2>2. /\ temporary' = i
        /\ disk' = [disk EXCEPT ![i] = Truncated]
        /\ fd' = [fd EXCEPT ![c] = i]
        /\ pc' = [pc EXCEPT ![c] = "write"] /\ pc[c] = "open"
        /\ UNCHANGED <<store, entries>>
    BY <1>5 DEF Open, Goto
  <2> HIDE DEF i
  <2>3. UNCHANGED Visible
    BY <2>1, <2>2, StoreUntouched DEF TypeOK
  <2>4. \A e \in Callers : pc'[e] \in Busy => e = c
    BY <2>2 DEF Alone, TypeOK, Busy
  <2>5. pc'[c] = "write" /\ fd'[c] = i /\ disk'[i] = Truncated
    BY <2>1, <2>2 DEF TypeOK
  <2>6. entries'[c] = Visible'
    BY <2>2, <2>3 DEF Alone
  <2>7. Visible' \in Content
    BY <2>3 DEF Alone
  <2> QED
    BY <2>1, <2>2, <2>3, <2>4, <2>5, <2>6, <2>7 DEF Alone, Busy
<1>6. ASSUME NEW c \in Callers, Write(c) PROVE Alone' /\ UNCHANGED Visible
  <2>1. fd[c] = temporary /\ disk[temporary] = Truncated /\ temporary \in Inodes
    BY <1>6 DEF Write, Alone, TypeOK
  <2>2. disk' = Reclaimed([disk EXCEPT ![temporary] = Changed(c)], {store, temporary}, Callers \ {c})
    BY <1>6, <2>1 DEF Write, Overwritten
  <2>3. temporary # store
    BY <2>1, StoreAssumption DEF Alone
  <2>4. disk'[temporary] = Changed(c)
    BY <2>1, <2>2 DEF Reclaimed, TypeOK
  <2>5. UNCHANGED Visible
    BY <1>6, <2>2, <2>3, StoreUntouched DEF Write, Reclaimed, TypeOK
  <2>6. \A e \in Callers : pc'[e] \in Busy => e = c
    BY <1>6 DEF Write, Goto, Alone, TypeOK, Busy
  <2>7. pc'[c] = "rename" /\ UNCHANGED <<store, temporary, call, entries>>
    BY <1>6 DEF Write, Goto, TypeOK
  <2>8. Changed(c)' = Changed(c)
    BY <2>7 DEF Changed
  <2>9. entries'[c] = Visible' /\ Visible' \in Content
    BY <1>6, <2>5, <2>7 DEF Alone, Write
  <2>10. temporary' # NoInode /\ disk'[temporary'] = Changed(c)'
    BY <2>1, <2>4, <2>7, <2>8, StoreAssumption
  <2> QED
    BY <2>3, <2>6, <2>7, <2>9, <2>10, <2>5 DEF Alone, Busy
<1>7. ASSUME NEW c \in Callers, WriteFails(c) PROVE Alone' /\ UNCHANGED Visible
  <2>1. UNCHANGED <<store, temporary>> /\ pc[c] \in Busy /\ Reply(c, "failed")
    BY <1>7 DEF WriteFails, Busy
  <2>2. \A i \in Inodes : i = store => disk'[i] = disk[i]
    <3>1. CASE UNCHANGED disk
      BY <3>1
    <3>2. CASE pc[c] = "write" /\ disk' = Reclaimed([disk EXCEPT ![fd[c]] = Garbled],
                                                   {store, temporary}, Callers \ {c})
      <4>1. fd[c] \in Inodes /\ fd[c] # store
        BY <3>2, StoreAssumption DEF Alone, TypeOK
      <4> QED
        BY <3>2, <4>1 DEF Reclaimed, TypeOK
    <3> QED
      BY <1>7, <3>1, <3>2 DEF WriteFails
  <2>3. UNCHANGED Visible
    BY <2>1, <2>2, StoreUntouched
  <2>4. \A e \in Callers : pc'[e] \notin Busy
    BY <2>1, ReplyLeavesNobody DEF Replied
  <2> QED
    BY <2>1, <2>3, <2>4 DEF Alone, Busy
<1>8. ASSUME NEW c \in Callers, Rename(c) PROVE Alone' /\ Saved!Next
  <2>1. /\ pc[c] = "rename" /\ temporary \in Inodes
        /\ store' = temporary /\ temporary' = NoInode
        /\ disk' = Reclaimed(disk, {temporary}, Callers) /\ Reply(c, "saved")
    BY <1>8 DEF Rename, TypeOK
  <2>2. Visible' = Changed(c)
    BY <2>1, StoreAssumption DEF Visible, Reclaimed, Alone
  <2>3. call[c] \in Calls /\ entries[c] = Visible
    BY <2>1 DEF Alone, TypeOK, Busy
  <2>4. Visible' \in Content
    BY <2>2, <2>3, ChangedIsContent DEF TypeOK
  <2>5. \A e \in Callers : pc'[e] \notin Busy
    BY <2>1, ReplyLeavesNobody DEF Replied, Busy
  <2>6. Saved!Next
    <3>1. CASE call[c].kind = "save"
      <4>1. call[c].d \in Descriptions /\ call[c].details \in Details
        BY <2>3, <3>1 DEF Calls
      <4>2. Visible' = WithEntry(Visible, call[c].d, call[c].details)
        BY <2>2, <2>3, <3>1 DEF Changed
      <4> QED
        BY <4>1, <4>2 DEF Saved!Next, Saved!Save, Saved!WithEntry, WithEntry,
                          Saved!KeptPassword, KeptPassword
    <3>2. CASE call[c].kind # "save"
      <4>1. call[c].d \in Descriptions
        BY <2>3, <3>2 DEF Calls
      <4>2. Visible' = WithoutEntry(Visible, call[c].d)
        BY <2>2, <2>3, <3>2 DEF Changed
      <4> QED
        BY <4>1, <4>2 DEF Saved!Next, Saved!Remove, Saved!WithoutEntry, WithoutEntry
    <3> QED
      BY <3>1, <3>2
  <2> QED
    BY <2>1, <2>4, <2>5, <2>6 DEF Alone, Busy
<1>9. ASSUME NEW c \in Callers, RenameFails(c) PROVE Alone' /\ UNCHANGED Visible
  <2>1. \A e \in Callers : pc'[e] \notin Busy
    BY <1>9, ReplyLeavesNobody DEF RenameFails, Replied, Busy
  <2> QED
    BY <1>9, <2>1 DEF RenameFails, Alone, Busy, fileVars, Visible
<1>10. CASE UNCHANGED vars
  <2>1. UNCHANGED Visible
    BY <1>10 DEF vars, Visible
  <2>2. \A c \in Callers : Changed(c)' = Changed(c)
    BY <1>10 DEF vars, Changed
  <2> QED
    BY <1>10, <2>1, <2>2 DEF vars, Alone
<1> QED
  BY <1>1, <1>2, <1>3, <1>4, <1>5, <1>6, <1>7, <1>8, <1>9, <1>10 DEF Next, Proceed

(* When calls do not overlap, no failed write and no crash ever leaves a    *)
(* store that can not be read.                                              *)
THEOREM StoreIsNeverBroken == ASSUME ~Overlap PROVE Spec => []NeverBroken
<1>1. TypeOK /\ Alone /\ [Next]_vars => Alone'
  BY AloneNext
<1>2. Alone => NeverBroken
  BY DEF Alone, NeverBroken
<1> QED
  BY <1>1, <1>2, TypeInit, TypeNext, AloneInit, PTL DEF Spec

(* When calls do not overlap, the file implements the map of saved          *)
(* connections: each save and each remove happens at once or not at all.    *)
THEOREM StoreImplementsSavedConnections ==
  ASSUME ~Overlap PROVE Spec => ImplementsSavedConnections
<1>1. Init => Saved!Init
  BY DEF Init, Saved!Init, Visible
<1>2. TypeOK /\ Alone /\ [Next]_vars => Alone' /\ [Saved!Next]_Visible
  BY AloneNext
<1> QED
  BY <1>1, <1>2, TypeInit, TypeNext, AloneInit, PTL
  DEF Spec, ImplementsSavedConnections, Saved!Spec

(* What a reply of success says of the list that the call leaves.  *)
Kept(c) ==
  LET d == call[c].d IN
    /\ Visible' \in Content
    /\ IF call[c].kind = "remove"
         THEN Visible'[d] = NoEntry
         ELSE Visible'[d] # NoEntry /\ Visible'[d].details = call[c].details
    /\ \A e \in Descriptions \ {d} : Visible'[e] = Visible[e]

(* The list a call writes has its change and no other.  *)
LEMMA ChangedIsTrue ==
  ASSUME NEW c \in Callers, call[c] \in Calls, Visible \in Content,
         Visible' = IF call[c].kind = "save"
                      THEN WithEntry(Visible, call[c].d, call[c].details)
                      ELSE WithoutEntry(Visible, call[c].d)
  PROVE  Kept(c)
<1>1. CASE call[c].kind = "save"
  <2>1. call[c].d \in Descriptions /\ call[c].details \in Details
    BY <1>1 DEF Calls
  <2>2. Visible' = WithEntry(Visible, call[c].d, call[c].details)
    BY <1>1
  <2>3. Visible' \in Content
    BY <2>1, <2>2, SavedIsContent
  <2> DEFINE entry == [details     |-> call[c].details,
                       password    |-> KeptPassword(Visible[call[c].d]),
                       autoConnect |-> FALSE]
  <2>4. Visible'[call[c].d] = entry
    BY <2>1, <2>2 DEF WithEntry, Content
  <2>5. entry \in Entry
    <3>1. Visible[call[c].d] \in Entry \union {NoEntry}
      BY <2>1 DEF Content
    <3>2. KeptPassword(Visible[call[c].d]) \in Passwords
      BY <3>1 DEF KeptPassword, Passwords, Entry
    <3> QED
      BY <2>1, <3>2 DEF Entry
  <2>6. Visible'[call[c].d] # NoEntry
    BY <2>4, <2>5, ContentAssumption
  <2>7. \A e \in Descriptions \ {call[c].d} : Visible'[e] = Visible[e]
    BY <2>2 DEF WithEntry, Content
  <2> QED
    BY <1>1, <2>3, <2>4, <2>6, <2>7 DEF Kept
<1>2. CASE call[c].kind # "save"
  <2>1. call[c].kind = "remove" /\ call[c].d \in Descriptions
    BY <1>2 DEF Calls
  <2>2. Visible' = WithoutEntry(Visible, call[c].d)
    BY <1>2
  <2>3. Visible' \in Content
    BY <2>1, <2>2, RemovedIsContent
  <2> QED
    BY <2>1, <2>2, <2>3 DEF Kept, WithoutEntry, Content
<1> QED
  BY <1>1, <1>2

(* When calls do not overlap, a call that reports success has done what it  *)
(* was asked and nothing else: by its rename, or by finding nothing to      *)
(* remove.                                                                  *)
THEOREM RepliesTellTheTruth == ASSUME ~Overlap PROVE Spec => RepliesAreTrue
<1>1. ASSUME TypeOK, Alone, Next, NEW c \in Callers, pc[c] \in Busy, pc'[c] = "saved"
      PROVE  Kept(c)
  <2>1. call[c] \in Calls
    BY <1>1 DEF TypeOK
  <2>2. PICK e \in Callers : Read(e) \/ Rename(e)
    <3>1. ~Crash
      BY <1>1 DEF Crash
    <3>2. PICK e \in Callers : Begin(e) \/ Proceed(e)
      BY <1>1, <3>1 DEF Next
    <3>3. ~Begin(e)
      BY <1>1, <3>2 DEF Begin, Goto, TypeOK, Busy
    <3>4. ~ReadFails(e) /\ ~Open(e) /\ ~Write(e) /\ ~WriteFails(e) /\ ~RenameFails(e)
      BY <1>1, <3>2 DEF ReadFails, Open, Write, WriteFails, RenameFails, Reply, Goto,
                        TypeOK, Busy
    <3> QED
      BY <3>2, <3>3, <3>4 DEF Proceed
  <2>3. e = c
    BY <1>1, <2>2 DEF Read, Rename, Reply, Goto, TypeOK, Busy
  <2>4. CASE Read(c)
    <3>1. call[c].kind = "remove" /\ Visible[call[c].d] = NoEntry
      BY <1>1, <2>4 DEF Read, Goto, TypeOK, Busy
    <3>2. Visible' = Visible
      BY <2>4 DEF Read, fileVars, Visible
    <3> QED
      BY <1>1, <3>1, <3>2 DEF Kept, Alone
  <2>5. CASE Rename(c)
    <3>1. Visible' = Changed(c)
      BY <1>1, <2>5, StoreAssumption DEF Rename, Visible, Reclaimed, Alone, TypeOK
    <3>2. entries[c] = Visible
      BY <1>1, <2>5 DEF Rename, Alone
    <3> QED
      BY <1>1, <2>1, <3>1, <3>2, ChangedIsTrue DEF Changed, Alone
  <2> QED
    BY <2>2, <2>3, <2>4, <2>5
<1>2. TypeOK /\ Alone /\ [Next]_vars =>
        [\A c \in Callers : pc[c] \in Busy /\ pc'[c] = "saved" => Kept(c)]_vars
  BY <1>1
<1>3. TypeOK /\ Alone /\ [Next]_vars => Alone'
  BY AloneNext
<1> QED
  BY <1>2, <1>3, TypeInit, TypeNext, AloneInit, PTL DEF Spec, RepliesAreTrue, Kept
===============================================================================
