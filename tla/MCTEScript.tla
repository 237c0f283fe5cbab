------------------------------ MODULE MCTEScript ------------------------------
(* TEScript with the scripts of an instance, and what they mean.  *)
EXTENDS TEScriptMeaning, TLC

List(repeat, tasks) == [repeat |-> repeat, tasks |-> tasks]
Do(type)            == [type |-> type, taskList |-> <<>>, check |-> {}, fails |-> FALSE, assigns |-> FALSE,
                        script |-> None, name |-> None, branches |-> <<>>]
TaskOf(lists)       == [Do("task") EXCEPT !.taskList = lists]
IfOf(check, lists)  == [Do("IF") EXCEPT !.taskList = lists, !.check = check]
ScriptOf(lock, type, tasks) == [lockScreen |-> lock, actionType |-> type, tasks |-> tasks]

MCGroup ==
  "step"     :> Do("step")     @@ "other"  :> Do("step")   @@ "risky" :> [Do("step") EXCEPT !.fails = TRUE] @@
  "break"    :> Do("break")    @@ "return" :> Do("return") @@ "exit"  :> Do("exit") @@ "wait" :> Do("wait") @@
  "lock"   :> Do("lockscreen") @@ "unlock" :> Do("unlockscreen") @@
  "reload" :> Do("reload")     @@ "leaveCheck" :> Do("breakcheck") @@
  "set"    :> [Do("step") EXCEPT !.assigns = TRUE] @@
  "late"   :> [Do("step") EXCEPT !.assigns = TRUE, !.fails = TRUE] @@
  "leave"    :> Do("breakcontrolgroup") @@
  "retry"    :> [Do("retry") EXCEPT !.name = "ask"] @@
  "call"     :> [Do("action") EXCEPT !.script = "ask"] @@
  "split"    :> [Do("parallel") EXCEPT !.branches = <<"left", "right">>] @@
  "checked"  :> IfOf({"true", "false", "throws"}, <<List(1, <<"step", "break", "other">>)>>) @@
  "called"   :> TaskOf(<<List(1, <<"call", "checked", "other">>)>>) @@
  "deep"     :> IfOf({"true", "false"}, <<List(1, <<"leave", "step">>)>>) @@
  "lists"    :> TaskOf(<<List(2, <<"other">>), List(1, <<"deep", "wait", "exit">>)>>) @@
  "failed"   :> IfOf({"true", "false"}, <<List(1, <<"other", "retry">>)>>) @@
  "done"     :> IfOf({"true", "false"}, <<List(1, <<"risky", "return">>)>>) @@
  "after"    :> TaskOf(<<List(1, <<"unlock", "leaveCheck">>)>>) @@
  "first"    :> IfOf({"true", "throws"}, <<List(1, <<"split", "step">>)>>) @@
  "inLeft"   :> TaskOf(<<List(1, <<"set", "wait", "late", "step">>)>>) @@
  "inRight"  :> TaskOf(<<List(1, <<"lock", "reload">>)>>)

(* "left" and "right" are the skeleton around a branch of "split".  *)
MCScript ==
  "main"  :> ScriptOf(TRUE, "BLANK", <<"called", "lists">>) @@
  "ask"   :> ScriptOf(TRUE, "SERVERACTION", <<"failed", "done", "after">>) @@
  "fork"  :> ScriptOf(TRUE, "BLANK", <<"first">>) @@
  "left"  :> ScriptOf(FALSE, "BLANK", <<"inLeft">>) @@
  "right" :> ScriptOf(FALSE, "BLANK", <<"inRight">>)

(* The groups of tasks of a script, those within others included.           *)
RECURSIVE Within(_)
Within(g) ==
  {g} \union UNION {UNION {Within(list.tasks[i]) : i \in DOMAIN list.tasks} : list \in ToSet(MCGroup[g].taskList)}
MCGroupsOf ==
  [s \in DOMAIN MCScript |-> UNION {Within(task) : task \in ToSet(MCScript[s].tasks)}]

RECURSIVE DepthOf(_)
DepthOf(g) ==
  LET tasks == UNION {ToSet(list.tasks) : list \in ToSet(MCGroup[g].taskList)}
        \union IF MCGroup[g].type = "action" THEN ToSet(MCScript[MCGroup[g].script].tasks) ELSE {}
  IN  Max({0} \union {DepthOf(task) + 1 : task \in tasks})
MCDepth == [g \in DOMAIN MCGroup |-> DepthOf(g)]

MCRuns    == {"m", "f", "b1", "b2"}
MCStarted == "m" :> "main" @@ "f" :> "fork"
-------------------------------------------------------------------------------
ASSUME Ordinary /\ Plain /\ Finite(MCDepth)

(* Every script that was started ends, whatever its server actions answer   *)
(* and its tasks throw, until none is left; no lock of a script stays.      *)
ScriptsEnd    == (\E r \in Runs : Live(r)) ~> (\A r \in Runs : ~Live(r))
ScreenUnlocks == locked = "script" ~> locked # "script"
===============================================================================
