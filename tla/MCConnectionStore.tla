--------------------------- MODULE MCConnectionStore ---------------------------
(***************************************************************************)
(* ConnectionStore with two connections, of which the administrator        *)
(* described one.  The configurations choose the callers and the details.  *)
(***************************************************************************)
EXTENDS ConnectionStore, TLC

CONSTANTS d1, d2, old, c1, c2

MCInitial == (d1 :> [details |-> old, password |-> "admin", autoConnect |-> TRUE])
               @@ (d2 :> NoEntry)

Symmetric == Permutations({c1, c2})
===============================================================================
