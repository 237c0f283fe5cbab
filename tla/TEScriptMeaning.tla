---------------------------- MODULE TEScriptMeaning ----------------------------
(***************************************************************************)
(* What a script says: its tasks one after the other, task lists as often  *)
(* as they repeat, scripts as procedures that are called.  Of a task, a    *)
(* list or a script, what it can do: the tasks it logs and how it is left. *)
(* The operators have the ways of tasks as a parameter: Ways is the        *)
(* function that they give themselves.                                     *)
(***************************************************************************)
EXTENDS TEScript

Does(done, left) == [log |-> done, left |-> left]
Nothing == {Does(<<>>, "next")}

(* How it is left by a part of it: some ways of leaving end there.  *)
Leaving(ways, ends) == {IF w.left \in ends THEN Does(w.log, "next") ELSE w : w \in ways}

Then(first, second) ==
  {w \in first : w.left # "next"}
    \union {Does(a.log \o b.log, b.left) : a \in {w \in first : w.left = "next"}, b \in second}

(* The parts from i on, one after the other.  *)
Rest(parts, i) ==
  LET from[k \in DOMAIN parts] == Then(parts[k], IF k = Len(parts) THEN Nothing ELSE from[k + 1])
  IN  IF i \in DOMAIN parts THEN from[i] ELSE Nothing

TasksOf(list, ways) == [i \in DOMAIN list.tasks |-> ways[list.tasks[i]]]
Rounds(list, ways)  == [n \in 1..list.repeat |-> Rest(TasksOf(list, ways), 1)]
ListsOf(g, ways) ==
  [l \in DOMAIN Group[g].taskList |-> Rest(Rounds(Group[g].taskList[l], ways), 1)]

(* "break" leaves the group that it is in.  *)
OfGroup(g, ways) == Leaving(Rest(ListsOf(g, ways), 1), {"break"})

(* "breakcontrolgroup" leaves a task of the script, "return" the script.    *)
PartsOf(s, ways) ==
  [i \in DOMAIN Script[s].tasks |-> Leaving(ways[Script[s].tasks[i]], {"breakcontrolgroup"})]
OfScript(s, ways) == Leaving(Rest(PartsOf(s, ways), 1), {"return"})

OfCheck(g, outcome, ways) ==
  CASE outcome = "true"   -> OfGroup(g, ways)
    [] outcome = "false"  -> Nothing
    [] outcome = "throws" -> {Does(<<>>, "exit")}

OfTask(g, ways) ==
  LET task == Group[g] IN
  CASE task.type = "step"     -> {Does(<<g>>, "next")} \union {Does(<<>>, "exit") : f \in {TRUE} \intersect {task.fails}}
    [] task.type \in {"lockscreen", "unlockscreen"} -> {Does(<<g>>, "next")}
    [] task.type = "task"     -> OfGroup(g, ways)
    [] task.type = "IF"       -> UNION {OfCheck(g, outcome, ways) : outcome \in task.check}
    [] task.type = "action"   -> OfScript(task.script, ways)
    [] task.type = "retry"    -> {Does(<<>>, "return")}
    [] task.type = "wait"     -> Nothing
    [] task.type = "parallel" -> {Does(<<"joined">>, "next")}
    [] task.type \in {"breakcheck", "reload"} -> {Does(<<>>, "exit")}
    [] OTHER                  -> {Does(<<>>, task.type)}

Ways == LET ways[g \in DOMAIN Group] == OfTask(g, ways) IN ways

WaysOf == [s \in DOMAIN Script |-> OfScript(s, Ways)]

(* The timers, frames and flags carry out the script as it is written: what *)
(* a run has done is the beginning of something that its script can mean,   *)
(* and all of it when the run has ended.                                    *)
RunsAsWritten ==
  \A r \in Runs : runs[r] # None =>
    \E way \in WaysOf[runs[r].scriptHead] :
      IF Live(r) THEN IsPrefix(log[r], way.log) ELSE log[r] = way.log

(* A place of a group that comes after a wait of that group.                *)
Waited(g, l, i) == \E p \in WaitsOf(g) : p[1] < l \/ (p[1] = l /\ p[2] < i)

(* What tasks are for RunsAsWritten: known ones; tasks of a script are      *)
(* groups; what a list repeats it does at once; one that assigns after a    *)
(* wait is known to fail; and no script calls itself or tries another       *)
(* again, which is how "retry" is more than a return.                       *)
Plain ==
  /\ \A g \in DOMAIN Group :
       /\ Group[g].type \in {"step", "task", "IF", "action", "retry", "wait", "parallel",
                             "lockscreen", "unlockscreen", "break", "breakcheck",
                             "breakcontrolgroup", "return", "exit", "reload"}
       /\ Group[g].type = "step" => Group[g].fails \in BOOLEAN
       /\ Group[g].type = "IF" => Group[g].check # {} /\ Group[g].check \subseteq {"true", "false", "throws"}
       /\ \A l \in DOMAIN Group[g].taskList : Group[g].taskList[l].repeat > 1 =>
            \A i \in DOMAIN Group[g].taskList[l].tasks :
              Group[Group[g].taskList[l].tasks[i]].type = "step"
       /\ \A l \in DOMAIN Group[g].taskList : \A i \in DOMAIN Group[g].taskList[l].tasks :
            LET task == Group[Group[g].taskList[l].tasks[i]] IN
            Waited(g, l, i) /\ task.type = "step" /\ task.assigns => task.fails
  /\ \A s \in DOMAIN Script :
       /\ \A i \in DOMAIN Script[s].tasks : Group[Script[s].tasks[i]].type \in {"task", "IF"}
       /\ \A g \in GroupsOf[s] :
            /\ Group[g].type = "action" => Group[g].script # s
            /\ Group[g].type = "retry" => Group[g].name = s

(* Tasks and scripts are finite: what they consist of is of less depth.     *)
Finite(depth) ==
  /\ depth \in [DOMAIN Group -> Nat]
  /\ \A g \in DOMAIN Group :
       /\ \A l \in DOMAIN Group[g].taskList : \A i \in DOMAIN Group[g].taskList[l].tasks :
            depth[Group[g].taskList[l].tasks[i]] < depth[g]
       /\ Group[g].type = "action" =>
            \A i \in DOMAIN Script[Group[g].script].tasks : depth[Script[Group[g].script].tasks[i]] < depth[g]
===============================================================================
