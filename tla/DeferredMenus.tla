----------------------------- MODULE DeferredMenus -----------------------------
(***************************************************************************)
(* One request for menus.  MenuBuilder makes the tree of menus in one      *)
(* synchronous pass; the list of a branch that comes from a query or from  *)
(* a stylesheet is left empty and its work queued, resolveDeferred() then  *)
(* fills the lists in one after the other, and what it fills in may queue  *)
(* more.  A branch that drops its parent shows the list of the menu it     *)
(* gets in place of that menu.                                             *)
(***************************************************************************)
EXTENDS Naturals, Sequences, SequencesExt

CONSTANTS Menus,        \* the places where a menu is defined
          Definitions,  \* what the files, queries and stylesheets may hold there
          Roots,        \* the folder or the branch that is asked for
          Depth,        \* how deeply menus may nest below a place
          None

BranchTypes == {"query", "stylesheet"}
ListTypes   == {"embedded", "folder"}
MenuType ==
  [type: BranchTypes \union ListTypes \union {"leaf", "filtered", "invalid"}, menus: Seq(Menus),
   source: Menus \union {None}, dropParent: BOOLEAN, onErrorMenu: Menus \union {None}]

(* A menu is defined within others, or by what a query gives.               *)
Parts(definition, m) ==
  (ToSet(definition[m].menus) \union {definition[m].source, definition[m].onErrorMenu}) \ {None}
HasList(definition, m) == definition[m].type \in BranchTypes \union ListTypes

(* The definitions are trees, of finite depth below each place: a menu that *)
(* has a list has one place in them.                                        *)
ASSUME MenusAssumption ==
  /\ None \notin Menus /\ Roots \subseteq Menus /\ Depth \in [Menus -> Nat]
  /\ Definitions \subseteq [Menus -> MenuType]
  /\ \A definition \in Definitions : \A m \in Menus :
       /\ IF definition[m].type \in BranchTypes THEN definition[m].menus = <<>> /\ definition[m].source # None
          ELSE definition[m].source = None /\ definition[m].onErrorMenu = None
       /\ definition[m].type \notin ListTypes => definition[m].menus = <<>>
       /\ \A part \in Parts(definition, m) : Depth[part] < Depth[m]
       /\ \A n \in Menus \ {m} : \A part \in Parts(definition, m) \intersect Parts(definition, n) :
            ~HasList(definition, part)
       /\ \A i, j \in DOMAIN definition[m].menus :
            definition[m].menus[i] = definition[m].menus[j] /\ HasList(definition, definition[m].menus[i]) => i = j
       /\ definition[m].source # None /\ definition[m].source = definition[m].onErrorMenu
            => ~HasList(definition, definition[m].source)

(* What becomes of a branch. A query is refused when its SQL file is not    *)
(* there or when there is no connection, and both may fail later.           *)
Answers(definition) ==
  IF definition.type = "query" THEN {"refused", "unconnected", "failed", "menu"} ELSE {"failed", "menu"}

BranchesOf(definition) == {m \in Menus : definition[m].type \in BranchTypes}

RequestsFor(definition) ==
  {[root |-> root, definition |-> definition, answer |-> answer] :
     root \in Roots,
     answer \in {a \in [BranchesOf(definition) -> {"refused", "unconnected", "failed", "menu"}] :
                   \A m \in BranchesOf(definition) : a[m] \in Answers(definition[m])}}

Request == UNION {RequestsFor(definition) : definition \in Definitions}

VARIABLES
  request,    \* what is asked for, and what the sources hold and answer
  state,      \* of the action: "idle", "asked", "resolving", "sent" or "failed"
  deferred,   \* the works that are queued, with the list each one fills
  lists       \* the list of each menu, elementSubNodes

vars == <<request, state, deferred, lists>>
-------------------------------------------------------------------------------
(* The nodes of the tree.  A branch shows the nodes of its list.            *)
Node(is, m) == [is |-> is, of |-> m]
Message(m)  == Node("message", m)
Null(m)     == Node("null", m)

(* What node() gives for a definition: the node and its list, the works it  *)
(* queued on the way, and whether it threw.                                 *)
Gives(node, nodes, works) == [node |-> node, nodes |-> nodes, works |-> works, throws |-> FALSE]
Throws(works)             == [node |-> Null(None), nodes |-> <<>>, works |-> works, throws |-> TRUE]

Work(m) == [branch |-> m, subNodes |-> m]
IsDeferred(m, works) == \E i \in DOMAIN works : works[i].subNodes = m

(* Menus of a list are made in its order, up to one that throws.  *)
InOrder(m, made) ==
  LET bad        == {i \in DOMAIN made : made[i].throws}
      worksTo(n) == FlattenSeq([i \in 1..n |-> made[i].works])
  IN  IF bad # {} THEN Throws(worksTo(Min(bad)))
      ELSE Gives(Node("branch", m), [i \in DOMAIN made |-> made[i].node], worksTo(Len(made)))

(* A branch with nothing to show is left out, but not one still to be made. *)
(* Mutant: it is left out as well.                                          *)
LaterIsEmpty(m) == Gives(Null(m), <<>>, <<Work(m)>>)
Later(m) == Gives(Node("branch", m), <<>>, <<Work(m)>>)

(* menuError(), given the menus that are made.  *)
ErrorMenu(q, m, made) ==
  IF q.definition[m].onErrorMenu = None THEN Gives(Message(m), <<>>, <<>>) ELSE made[q.definition[m].onErrorMenu]

Deferred(q, m, made) ==
  CASE q.answer[m] = "refused"     -> InOrder(m, <<ErrorMenu(q, m, made)>>)
    [] q.answer[m] = "unconnected" -> InOrder(m, <<Gives(Message(m), <<>>, <<>>)>>)
    [] OTHER                       -> Later(m)

(* node(), given what it makes of the menus within.  *)
MadeOf(q, m, made) ==
  LET type  == q.definition[m].type
      menus == [i \in DOMAIN q.definition[m].menus |-> made[q.definition[m].menus[i]]]
  IN  CASE type = "leaf"     -> Gives(Node("leaf", m), <<>>, <<>>)
        [] type = "filtered" -> Gives(Null(m), <<>>, <<>>)
        [] type = "invalid"  -> Throws(<<>>)
        [] type = "embedded" -> InOrder(m, menus)
        [] type = "folder"   -> IF menus = <<>> THEN Gives(Null(m), <<>>, <<>>) ELSE InOrder(m, menus)
        [] OTHER             -> Deferred(q, m, made)

Made(q) == LET made[m \in Menus] == MadeOf(q, m, made) IN made
-------------------------------------------------------------------------------
Init ==
  /\ request = None
  /\ state = "idle"
  /\ deferred = <<>>
  /\ lists = <<>>

(* A request comes, with what its definitions hold and its sources answer.  *)
Ask ==
  /\ state = "idle"
  /\ request' \in Request
  /\ state' = "asked"
  /\ UNCHANGED <<deferred, lists>>

(* run() makes the tree in one pass.  An error in it is the action's.  The  *)
(* lists of menus that are made later are what they will be made with.      *)
Run ==
  LET made == Made(request) IN
  /\ state = "asked"
  /\ state' = IF made[request.root].throws THEN "failed" ELSE "resolving"
  /\ deferred' = made[request.root].works
  /\ lists' = [m \in Menus |-> made[m].nodes]
  /\ UNCHANGED request

(* Works that would fill the list of a menu that is dropped fill the list   *)
(* of the branch that drops it.                                             *)
(* Mutant: they stay with the menu that is dropped.                         *)
RedirectNone(works, from, to) == works
Redirect(works, from, to) ==
  [i \in DOMAIN works |-> IF works[i].subNodes = from THEN [works[i] EXCEPT !.subNodes = to] ELSE works[i]]

(* #build() of a work, with all that is queued: the nodes it gives, and     *)
(* what is queued after it.                                                 *)
Builds(nodes, works) == [nodes |-> nodes, works |-> works, throws |-> FALSE]

(* Mutant: a work that fails is queued again.                               *)
FailsForNow(q, m, works) == Builds(<<>>, <<Head(works)>> \o works)
Fails(q, m, works) ==
  LET error == ErrorMenu(q, m, Made(q))
  IN  [nodes |-> <<error.node>>, works |-> works \o error.works, throws |-> error.throws]

Build(q, work, works) ==
  LET m      == work.branch
      made   == IF q.answer[m] = "failed" THEN Throws(<<>>) ELSE Made(q)[q.definition[m].source]
      queued == works \o made.works
      nil    == made.nodes = <<>> /\ ~IsDeferred(made.node.of, queued)
  IN  CASE made.throws -> Fails(q, m, queued)
        [] ~made.throws /\ ~q.definition[m].dropParent -> Builds(<<made.node>>, queued)
        [] ~made.throws /\ q.definition[m].dropParent /\ nil -> Fails(q, m, queued)
        [] OTHER -> Builds(made.nodes, Redirect(queued, made.node.of, work.subNodes))

(* The head of the queue stays there while its query and transform run.     *)
Resolve ==
  /\ state = "resolving"
  /\ deferred # <<>>
  /\ LET work  == Head(deferred)
         built == Build(request, work, deferred)
     IN  /\ state' = IF built.throws THEN "failed" ELSE state
         /\ deferred' = IF built.throws THEN built.works ELSE Tail(built.works)
         /\ lists' = IF built.throws THEN lists ELSE [lists EXCEPT ![work.subNodes] = @ \o built.nodes]
  /\ UNCHANGED request

Send ==
  /\ state = "resolving"
  /\ deferred = <<>>
  /\ state' = "sent"
  /\ UNCHANGED <<request, deferred, lists>>

Done == state \in {"sent", "failed"} /\ UNCHANGED vars

Next == Ask \/ Run \/ Resolve \/ Send \/ Done

(* A query or a transform that is awaited answers or fails: resolveDeferred *)
(* always goes on.  That requests come is not assumed.                      *)
Spec == Init /\ [][Next]_vars /\ WF_vars(Run \/ Resolve \/ Send)
===============================================================================
