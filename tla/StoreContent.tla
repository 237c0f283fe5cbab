----------------------------- MODULE StoreContent -----------------------------
(***************************************************************************)
(* The content of the saved connection file and what a save or a remove    *)
(* makes of it (server/core/ConnectionStore.js), without the file.         *)
(***************************************************************************)
CONSTANTS
  Descriptions,   \* names of connections, "<driver>:<user>@<database>..."
  Details,        \* what the login form says of a connection, all but the password
  NoEntry,        \* stands for a description the store does not have
  Initial         \* the store as the administrator left it

(* An entry's password is blank or one an administrator wrote in the file.  *)
(* "typed" is the password of the login form, which a save brings along.    *)
Passwords == {"blank", "admin", "typed"}
Entry     == [details: Details, password: Passwords, autoConnect: BOOLEAN]
Content   == [Descriptions -> Entry \union {NoEntry}]
NoContent == [d \in Descriptions |-> NoEntry]

(* Mutants: the password of the form, and an entry that never had one.  *)
TypedPassword(entry) == "typed"
BarePassword(entry)  == IF entry = NoEntry THEN NoEntry ELSE entry.password

KeptPassword(entry) == IF entry = NoEntry THEN "blank" ELSE entry.password

(* save(): the entry is replaced but for the password the file has, and     *)
(* autoConnect, which no login form sends, is off.                          *)
WithEntry(content, d, details) ==
  [content EXCEPT ![d] = [details     |-> details,
                          password    |-> KeptPassword(content[d]),
                          autoConnect |-> FALSE]]

WithoutEntry(content, d) == [content EXCEPT ![d] = NoEntry]

ASSUME ContentAssumption == NoEntry \notin Entry /\ Initial \in Content
===============================================================================
