---------------------------- MODULE MCDeferredMenus ----------------------------
(***************************************************************************)
(* The definitions of an instance of DeferredMenus.                        *)
(***************************************************************************)
EXTENDS MenuMeaning, TLC

Menu(type, menus) == [type |-> type, menus |-> menus, source |-> None, dropParent |-> FALSE, onErrorMenu |-> None]
Branch(type, source, dropParent, onErrorMenu) ==
  [type |-> type, menus |-> <<>>, source |-> source, dropParent |-> dropParent, onErrorMenu |-> onErrorMenu]

MCMenus == {"root", "void", "a", "b", "c", "d", "pair", "bad", "none", "hidden", "invalid", "leaf"}

MCDepth == [m \in MCMenus |->
  CASE m \in {"c", "d"} -> 1 [] m = "b" -> 2 [] m \in {"pair", "bad"} -> 3 [] m = "a" -> 4 [] m = "root" -> 5 [] OTHER -> 0]

Fixed == "root"    :> Menu("folder", <<"hidden", "void", "a", "leaf">>) @@
         "none"    :> Menu("embedded", <<>>) @@
         "void"    :> Menu("folder", <<>>) @@
         "hidden"  :> Menu("filtered", <<>>) @@
         "invalid" :> Menu("invalid", <<>>) @@
         "leaf"    :> Menu("leaf", <<>>)

(* What "a" gives is a branch, has some or is of another kind; "b" may give *)
(* a branch again, and the error menu of "a" may be one or throw.           *)
Givens == {g \in [a : {"b", "pair", "bad", "none", "leaf", "hidden"}, b : {"c", "none", "leaf"}] :
             /\ g.a = "pair" => g.b # "c"
             /\ g.a \in {"none", "leaf", "hidden"} => g.b = "leaf"}

Lists(given) ==
  "pair" :> Menu("embedded", IF given.a = "pair" THEN <<"b", "c">> ELSE <<>>) @@
  "bad"  :> Menu("embedded", IF given.a = "bad" THEN <<"b", "leaf", "invalid">> ELSE <<>>)

Variants ==
  {Fixed @@ Lists(given)
         @@ "a" :> Branch("query", given.a, drops.a, error) @@ "b" :> Branch("stylesheet", given.b, drops.b, None)
         @@ "c" :> Branch("stylesheet", "leaf", TRUE, "leaf") @@ "d" :> Branch("stylesheet", "leaf", FALSE, None) :
     given \in Givens, error \in {None, "d"}, drops \in [a : BOOLEAN, b : BOOLEAN]}

MCDefinitions ==
  Variants \union {[d EXCEPT !.a.onErrorMenu = "invalid"] : d \in {v \in Variants : v.a.source = "none" /\ v.a.onErrorMenu = None}}
===============================================================================
