------------------------------ MODULE MenuMeaning ------------------------------
(***************************************************************************)
(* What definitions of menus mean, made in place: without queue, redirected*)
(* lists or order.  A reference for DeferredMenus.                         *)
(***************************************************************************)
EXTENDS DeferredMenus, FiniteSets

(* A menu that can not be encoded spoils the lists it stands in.            *)
BreaksOf(q, m, breaks) ==
  LET d == q.definition[m] IN
  \/ d.type = "invalid"
  \/ \E i \in DOMAIN d.menus : breaks[d.menus[i]]
  \/ d.type \in BranchTypes /\ q.answer[m] = "refused" /\ d.onErrorMenu # None /\ breaks[d.onErrorMenu]

Breaks(q) == LET breaks[m \in Menus] == BreaksOf(q, m, breaks) IN breaks

(* The node that stands for a menu.                                         *)
Meant(q, m) ==
  LET d == q.definition[m] IN
  CASE d.type = "leaf" -> Node("leaf", m)
    [] d.type = "filtered" \/ (d.type = "folder" /\ d.menus = <<>>) -> Null(m)
    [] OTHER -> Node("branch", m)

(* What is shown below it: a branch shows what its query gives, or what is  *)
(* below that, or else an error.                                            *)
ShowsOf(q, m, shows) ==
  LET d     == q.definition[m]
      error == IF d.onErrorMenu = None THEN <<Message(m)>> ELSE <<Meant(q, d.onErrorMenu)>>
  IN  CASE d.type \notin BranchTypes -> [i \in DOMAIN d.menus |-> Meant(q, d.menus[i])]
        [] d.type \in BranchTypes /\ q.answer[m] = "unconnected" -> <<Message(m)>>
        [] d.type \in BranchTypes /\ q.answer[m] \in {"refused", "failed"} -> error
        [] OTHER -> IF Breaks(q)[d.source] THEN error
                    ELSE IF ~d.dropParent THEN <<Meant(q, d.source)>>
                    ELSE IF shows[d.source] = <<>> THEN error ELSE shows[d.source]

Shows(q) == LET shows[m \in Menus] == ShowsOf(q, m, shows) IN shows
-------------------------------------------------------------------------------
(* The menus of the tree as it is: of all sets that have the menus below    *)
(* each of theirs, the least.                                               *)
BranchesIn(nodes) == {node.of : node \in {n \in ToSet(nodes) : n.is = "branch"}}

Shown ==
  LET Listed == {m \in Menus : HasList(request.definition, m)}
      first  == BranchesIn(<<Made(request)[request.root].node>>)
      closed == {S \in SUBSET Listed : first \subseteq S /\ \A m \in S : BranchesIn(lists[m]) \subseteq S}
  IN  {m \in Listed : \A S \in closed : m \in S}

(* Branches whose list is filled in later.                                  *)
Open(q) == {m \in BranchesOf(q.definition) : q.answer[m] \in {"failed", "menu"}}

(* The menu that is sent is the one that the definitions describe, as if    *)
(* every query and transform had been made on the spot: #build() and        *)
(* resolveDeferred() lose, double and misplace no branch, at any depth and  *)
(* whichever of them fail or drop their parent.                             *)
MenuIsWhole ==
  state = "sent" =>
    /\ Made(request)[request.root].node = Meant(request, request.root)
    /\ \A m \in Shown : lists[m] = Shows(request)[m]

(* While works are queued, each branch of the tree that is empty is filled  *)
(* by exactly one of them, and one that is filled by none: the queue holds  *)
(* what the tree still lacks, also after a list was handed to another work. *)
ListsAreOwed ==
  state = "resolving" =>
    \A m \in Shown :
      Cardinality({i \in DOMAIN deferred : deferred[i].subNodes = m}) =
        IF m \in Open(request) /\ lists[m] = <<>> THEN 1 ELSE 0

(* resolveDeferred() comes to an end although works queue more works: every *)
(* request for menus is answered.                                           *)
MenusAnswered == state = "asked" ~> state \in {"sent", "failed"}
===============================================================================
