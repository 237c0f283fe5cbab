--------------------------- MODULE MCConsoleSession ---------------------------
(***************************************************************************)
(* ConsoleSession with up to two requests in progress and as many session  *)
(* ids as the browser and its requests can have at once, and one more.     *)
(***************************************************************************)
EXTENDS ConsoleSession, TLC

CONSTANTS r1, r2, i1, i2, i3, i4

Symmetric == Permutations({r1, r2}) \union Permutations({i1, i2, i3, i4})
===============================================================================
