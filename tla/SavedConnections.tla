--------------------------- MODULE SavedConnections ---------------------------
(***************************************************************************)
(* What server/core/ConnectionStore.js promises its callers: a map from    *)
(* connection names to entries in which each save and each remove happens  *)
(* at once or, when the call fails or the server stops, not at all.        *)
(* ConnectionStore is shown to implement it as long as calls do not        *)
(* overlap.                                                                *)
(***************************************************************************)
EXTENDS StoreContent

VARIABLE saved

Init == saved = Initial

Save(d, details) == saved' = WithEntry(saved, d, details)
Remove(d)        == saved' = WithoutEntry(saved, d)

Next == \E d \in Descriptions :
          Remove(d) \/ \E details \in Details : Save(d, details)

Spec == Init /\ [][Next]_saved
===============================================================================
