-------------------------------- MODULE TEScript --------------------------------
(***************************************************************************)
(* The script processor of the browser (db2te/js/                          *)
(* Class_TEScript_TECore_Processor.js) with the lock of the screen that    *)
(* scripts share (Functions_Core.js).  Runs of scripts interleave: every   *)
(* call between their tasks goes through a timer, and server actions are   *)
(* answered at any time.  A step is a timer that fires, an answer, or one  *)
(* task of a list; the tasks of a list follow each other without a break   *)
(* until one of them leaves the list.                                      *)
(***************************************************************************)
EXTENDS TEScriptStack

CONSTANTS
  Runs,           \* the runs there can be
  Started,        \* of the runs that the user starts, the script
  Script,         \* of a name, the script: lockScreen, actionType, its tasks
  Group,          \* of a name, the task: its type, its task lists, and by type the
                  \* outcomes of its check, the script it runs, if it can fail or assigns
  GroupsOf,       \* of a script, the tasks within it, at any depth
  Outcomes        \* of server actions: "true", "error" (flagGeneralError), "http"

(* The types of calls, frames and runs.                                     *)
CallType ==
  [do: {"none", "params", "execute", "followOn", "tasks", "unlock", "ends"},
   of: DOMAIN Group \union {None}, list: Nat, at: Nat, by: {"script", "stack"}]

FrameType ==
  [script: DOMAIN Script \union {None}, call: CallType,
   flag: {"", "action", "actionHead", "controlGroup", "taskGroup", "DoublePOP"}]

RunType ==
  [live: BOOLEAN, scriptHead: DOMAIN Script, script: DOMAIN Script \union {None},
   stack: Seq(FrameType), taskListRepeatCount: Nat, currentTask: CallType,
   parallelCount: Nat, parent: Runs \union {None}]

ASSUME ScriptAssumption ==
  /\ None \notin Runs \union DOMAIN Script \union RunType
  /\ DOMAIN Started \subseteq Runs /\ \A r \in DOMAIN Started : Started[r] \in DOMAIN Script
  /\ \A s \in DOMAIN Script :
       /\ Script[s].actionType \in {"BLANK", "SERVERACTION"} /\ Script[s].lockScreen \in BOOLEAN
       /\ GroupsOf[s] \subseteq DOMAIN Group /\ Script[s].tasks \in Seq(GroupsOf[s])
       /\ \A g \in GroupsOf[s] : \A l \in DOMAIN Group[g].taskList :
            Group[g].taskList[l].tasks \in Seq(GroupsOf[s])
  /\ \A g \in DOMAIN Group :
       /\ Group[g].taskList \in Seq([repeat: Nat, tasks: Seq(DOMAIN Group)])
       /\ Group[g].type = "action" => Group[g].script \in DOMAIN Script
       /\ Group[g].type = "step" => Group[g].assigns \in BOOLEAN
       /\ Group[g].type = "parallel" =>
            /\ Group[g].branches \in Seq(DOMAIN Script)
            /\ \A i \in DOMAIN Group[g].branches : ~Script[Group[g].branches[i]].lockScreen
  /\ Outcomes \subseteq {"true", "error", "http"}

VARIABLES
  runs,           \* of each run, its stack; None before it starts
  timers,         \* calls to come, in the order of their timers
  waits,          \* the calls of "wait" tasks, which come at some later time
  requests,       \* the runs whose server action is awaited
  active,         \* the task that is about to be executed, with its run
  locked,         \* is there a SCREEN_LOCK_PANEL, and whose is it?  See LockType
  log             \* of each run, the tasks it has done

vars == <<runs, timers, waits, requests, active, locked, log>>

Idle == [run |-> None, call |-> Call("none")]

ComingType == [run: Runs, call: CallType]

(* The panel of a locked screen was put up for the lockScreen attribute of  *)
(* a script, or by a lockscreen task: all that the code asks is whether it  *)
(* is "no", and the rest is history, for the properties.                    *)
LockType == {"no", "script", "task"}

Types ==
  /\ runs \in [Runs -> RunType \union {None}]
  /\ timers \in Seq(ComingType) /\ waits \subseteq ComingType /\ requests \subseteq Runs
  /\ active \in ComingType \union {Idle}
  /\ locked \in LockType

For(run, calls) == [i \in DOMAIN calls |-> [run |-> run, call |-> calls[i]]]

Init ==
  /\ runs = [r \in Runs |-> None]
  /\ timers = <<>> /\ waits = {} /\ requests = {}
  /\ active = Idle
  /\ locked = "no"
  /\ log = [r \in Runs |-> <<>>]

(* A run is left as an operator of TEScriptStack left it.  *)
Leaves(others, r, made) ==
  /\ runs' = [runs EXCEPT ![r] = made.run]
  /\ timers' = others \o For(r, made.calls)
-------------------------------------------------------------------------------
(* executeFollowOnActionsInternal from position k on: tasks, and the groups *)
(* whose check holds, are executed, each with the rest to follow; a check   *)
(* can throw.                                                               *)
FollowOnActions(run, k) ==
  LET tasks == Script[run.script].tasks
      Outcome(i, o) == o \in Group[tasks[i]].check
      ComesTo(n) == \A i \in k..n - 1 : Group[tasks[i]].type = "IF" /\ Outcome(i, "false")
      Reached == {n \in k..Len(tasks) : ComesTo(n)}
      Execute(n) == PushAndCall(run, Tasks(tasks[n], 1, 1), FollowOn(n + 1), "controlGroup")
  IN  {[made |-> Execute(n), thrown |-> FALSE] :
         n \in {m \in Reached : Group[tasks[m]].type = "task" \/ Outcome(m, "true")}}
      \union {[made |-> Made(run, <<>>), thrown |-> TRUE] :
         n \in {m \in Reached : Group[tasks[m]].type = "IF" /\ Outcome(m, "throws")}}
      \union {[made |-> PopAndCall(run), thrown |-> FALSE] :
         n \in {m \in {Len(tasks) + 1} : ComesTo(m)}}

(* Mutant: what a first check throws is not caught.  *)
ExecuteUncaught(others, r) ==
  /\ IF Script[runs[r].script].actionType = "SERVERACTION"
       THEN /\ requests' = requests \union {r}
            /\ timers' = others /\ UNCHANGED runs
       ELSE /\ \E f \in FollowOnActions(runs[r], 1) : Leaves(others, r, f.made)
            /\ UNCHANGED requests

(* executeTEScript (GLOBAL_ACTION_TYPE.executeNoDebug): by its type.  *)
ExecuteTEScript(others, r) ==
  /\ IF Script[runs[r].script].actionType = "SERVERACTION"
       THEN /\ requests' = requests \union {r}
            /\ timers' = others /\ UNCHANGED runs
       ELSE /\ \E f \in FollowOnActions(runs[r], 1) :
                 Leaves(others, r, IF f.thrown THEN ExitAction(runs[r]) ELSE f.made)
            /\ UNCHANGED requests

(* The callbacks of a server action.  An error that the server reports is   *)
(* thrown to onException, as is whatever a check throws in onSuccess;       *)
(* onException goes on with the follow-on actions and then throws for want  *)
(* of a task.  So does onFailure, whose own throw is given to onException.  *)
Again(results) ==
  UNION {{[f EXCEPT !.made.calls = first.made.calls \o @] : f \in FollowOnActions(first.made.run, 1)} :
           first \in results}

Handled(run, outcome) ==
  LET once == FollowOnActions(run, 1) IN
  CASE outcome = "true"  -> {f \in once : ~f.thrown} \union Again({f \in once : f.thrown})
    [] outcome = "error" -> once
    [] outcome = "http"  -> Again(once)

Answered(r) ==
  /\ active = Idle /\ r \in requests
  /\ \E outcome \in Outcomes : \E f \in Handled(runs[r], outcome) : Leaves(timers, r, f.made)
  /\ requests' = requests \ {r}
  /\ UNCHANGED <<waits, active, locked, log>>

-------------------------------------------------------------------------------
(* callAction and runaction push the frame to go back to; a script with     *)
(* lockScreen locks the screen unless it is locked, and then pushes a frame *)
(* that unlocks it; then its parameters are processed.                      *)
Entered(run, script, callBack, outer, inner) ==
  LET pushed == Push(run, script, callBack, outer)
      lock == Script[script].lockScreen /\ locked = "no"
      under == IF lock THEN Push(pushed, None, Call("unlock"), "DoublePOP") ELSE pushed
  IN  PushAndCall(under, Call("params"), Call("execute"), inner)

Locks(script) ==
  locked' = IF Script[script].lockScreen /\ locked = "no" THEN "script" ELSE locked

(* The user starts a script: runTEScript.  *)
CallAction(r) ==
  /\ active = Idle /\ r \in DOMAIN Started /\ runs[r] = None
  /\ Leaves(timers, r, Entered(NewRun(Started[r], None), Started[r], Call("ends"), "", "action"))
  /\ Locks(Started[r])
  /\ UNCHANGED <<waits, requests, active, log>>

(* The last call of a run: parallelendtask if it is a branch of a parallel  *)
(* task, which goes on after that task when all branches have ended; then   *)
(* remove.                                                                  *)
Ends(r) ==
  LET p == runs[r].parent IN
  IF p = None
    THEN /\ runs' = [runs EXCEPT ![r] = Removed(@)]
         /\ UNCHANGED <<active, log>>
    ELSE /\ runs' = [runs EXCEPT ![r] = Removed(@), ![p].parallelCount = @ - 1]
         /\ IF runs[p].parallelCount = 1
              THEN /\ active' = [run |-> p, call |-> [runs[p].currentTask EXCEPT !.at = @ + 1]]
                   /\ log' = [log EXCEPT ![p] = Append(@, "joined")]
              ELSE UNCHANGED <<active, log>>

(* A timer fires: callEval.  A location names the group of tasks that it    *)
(* leads to: LocationsHold says that it is looked up in the right script.   *)
Fire ==
  /\ active = Idle /\ timers # <<>>
  /\ LET r == Head(timers).run
         call == Head(timers).call
     IN  \/ /\ call.do = "unlock"
            /\ locked' = "no" /\ timers' = Tail(timers)
            /\ UNCHANGED <<runs, requests, active, log>>
         \/ /\ call.do = "ends" /\ Ends(r) /\ timers' = Tail(timers)
            /\ UNCHANGED <<requests, locked>>
         \/ /\ call.do = "params" /\ Leaves(Tail(timers), r, PopAndCall(runs[r]))
            /\ UNCHANGED <<requests, active, locked, log>>
         \/ /\ call.do = "execute" /\ ExecuteTEScript(Tail(timers), r)
            /\ UNCHANGED <<active, locked, log>>
         \/ /\ call.do = "followOn"
            /\ \E f \in FollowOnActions(runs[r], call.at) : Leaves(Tail(timers), r, f.made)
            /\ UNCHANGED <<requests, active, locked, log>>
         \/ /\ call.do = "tasks"
            /\ active' = Head(timers) /\ timers' = Tail(timers)
            /\ UNCHANGED <<runs, requests, locked, log>>
  /\ UNCHANGED waits

(* The timer of a "wait" task.  Its call has the stack for its "this".      *)
WaitEnds(wait) ==
  /\ active = Idle
  /\ active' = wait /\ waits' = waits \ {wait}
  /\ UNCHANGED <<runs, timers, requests, locked, log>>

(* UNLOCK_SCREEN, which the panel offers as a button.  *)
Unlock ==
  /\ active = Idle /\ locked # "no"
  /\ locked' = "no"
  /\ UNCHANGED <<runs, timers, waits, requests, active, log>>
-------------------------------------------------------------------------------
(* taskProcessor: the task that is active.  *)

R == active.run
Lists == Group[active.call.of].taskList
TaskList == Lists[active.call.list]
InList == active.run # None /\ active.call.list <= Len(Lists)
AtTask == InList /\ TaskList.repeat > runs[R].taskListRepeatCount /\ active.call.at <= Len(TaskList.tasks)
Task == Group[TaskList.tasks[active.call.at]]

Here  == Tasks(active.call.of, active.call.list, active.call.at)
After == [Here EXCEPT !.at = @ + 1]
GoesOn(call) == active' = [active EXCEPT !.call = call]
At(run) == [run EXCEPT !.currentTask = Here]

(* breakTaskList: the list is left as the stack says.  *)
BreakTaskList(made) ==
  /\ active' = Idle
  /\ Leaves(timers, R, [made EXCEPT !.run = At(@)])

(* Mutant: the count stays as it was.  *)
EndOfListKeepsCount ==
  \/ /\ InList /\ TaskList.repeat > runs[R].taskListRepeatCount /\ active.call.at > Len(TaskList.tasks)
     /\ runs' = [runs EXCEPT ![R].taskListRepeatCount = @ + 1]
     /\ GoesOn([active.call EXCEPT !.at = 1])
     /\ UNCHANGED timers
  \/ /\ InList /\ TaskList.repeat <= runs[R].taskListRepeatCount
     /\ GoesOn([active.call EXCEPT !.list = @ + 1])
     /\ UNCHANGED <<runs, timers>>
  \/ /\ active.run # None /\ ~InList
     /\ active' = Idle
     /\ Leaves(timers, R, PopAndCall(runs[R]))

(* The loops around the tasks: a list again, the next list, and the end.    *)
EndOfList ==
  \/ /\ InList /\ TaskList.repeat > runs[R].taskListRepeatCount /\ active.call.at > Len(TaskList.tasks)
     /\ runs' = [runs EXCEPT ![R].taskListRepeatCount = @ + 1]
     /\ GoesOn([active.call EXCEPT !.at = 1])
     /\ UNCHANGED timers
  \/ /\ InList /\ TaskList.repeat <= runs[R].taskListRepeatCount
     /\ runs' = [runs EXCEPT ![R].taskListRepeatCount = 0]
     /\ GoesOn([active.call EXCEPT !.list = @ + 1])
     /\ UNCHANGED timers
  \/ /\ active.run # None /\ ~InList
     /\ active' = Idle
     /\ Leaves(timers, R, PopAndCall(runs[R]))

(* A task that did its work at once; the next one follows.                  *)
TaskDone ==
  /\ log' = [log EXCEPT ![R] = Append(@, TaskList.tasks[active.call.at])]
  /\ runs' = [runs EXCEPT ![R] = At(@)]
  /\ GoesOn([active.call EXCEPT !.at = @ + 1])
  /\ UNCHANGED timers

(* A task that does its work at once, or throws, and then exits.  What      *)
(* assigns a parameter (assignsharedconstant, assignlocalparameter and,     *)
(* before its action, callglobalaction) asks "this" to do it, and always    *)
(* throws if that is the stack.                                             *)
Step ==
  /\ Task.type = "step"
  /\ \/ (Task.assigns => active.call.by = "script") /\ TaskDone
     \/ /\ Task.fails \/ (Task.assigns /\ active.call.by = "stack")
        /\ BreakTaskList(ExitAction(runs[R]))
        /\ UNCHANGED log
  /\ UNCHANGED <<waits, requests, locked>>

(* lockscreen, or lock: no frame is pushed, and a locked screen stays as it *)
(* is.                                                                      *)
LockScreen ==
  /\ Task.type = "lockscreen" /\ TaskDone
  /\ locked' = IF locked = "no" THEN "task" ELSE locked
  /\ UNCHANGED <<waits, requests>>

(* unlockscreen, or unlock: whoever locked it.                              *)
UnlockScreen ==
  /\ Task.type = "unlockscreen" /\ TaskDone
  /\ locked' = "no"
  /\ UNCHANGED <<waits, requests>>

(* task, and if: their own task lists, and then the rest of this one.       *)
TaskGroup ==
  /\ \/ Task.type = "task"
     \/ Task.type = "IF" /\ "true" \in Task.check
  /\ BreakTaskList(PushAndCall(runs[R], Tasks(TaskList.tasks[active.call.at], 1, 1), After, "taskGroup"))
  /\ UNCHANGED <<waits, requests, locked, log>>

IfNot ==
  /\ Task.type = "IF"
  /\ \/ /\ "false" \in Task.check
        /\ runs' = [runs EXCEPT ![R] = At(@)]
        /\ GoesOn([active.call EXCEPT !.at = @ + 1])
        /\ UNCHANGED timers
     \/ /\ "throws" \in Task.check
        /\ BreakTaskList(ExitAction(runs[R]))
  /\ UNCHANGED <<waits, requests, locked, log>>

(* Mutant: the task list is not left.  *)
RunActionGoesOn ==
  /\ Task.type = "action"
  /\ Locks(Task.script)
  /\ Leaves(timers, R, Entered(runs[R], Task.script, After, "action", "actionHead"))
  /\ GoesOn([active.call EXCEPT !.at = @ + 1])
  /\ UNCHANGED <<waits, requests, log>>

(* runaction, for action, callaction and callglobalaction; what the last    *)
(* assigns before it is a step.                                             *)
RunAction ==
  /\ Task.type = "action"
  /\ Locks(Task.script)
  /\ BreakTaskList(Entered(At(runs[R]), Task.script, After, "action", "actionHead"))
  /\ UNCHANGED <<waits, requests, log>>

(* retry: an action that runs within the one named is left, and the one     *)
(* named starts again.  Of itself it is no more than a return.              *)
Retry(run) ==
  LET left == PopToAndCall(run, "action")
      again == left.run.script = Task.name /\ \E i \in DOMAIN run.stack : run.stack[i].flag = "action"
      start == PushAndCall(left.run, Call("params"), Call("execute"), "action")
  IN  IF again THEN [start EXCEPT !.calls = SubSeq(left.calls, 1, Len(left.calls) - 1) \o @] ELSE left

(* The tasks that leave more than their list.  A frame with the flag        *)
(* "check" is pushed by the checks of parameters only: breakcheck finds     *)
(* none in the tasks of a script, and leaves it as exit does.               *)
Breaks ==
  \/ Task.type = "break" /\ BreakTaskList(PopAndCall(runs[R]))
  \/ Task.type = "breakcheck" /\ BreakTaskList(PopToAndCall(runs[R], "check"))
  \/ Task.type = "breakcontrolgroup" /\ BreakTaskList(PopToAndCall(runs[R], "controlGroup"))

Returns ==
  \/ Task.type = "return" /\ BreakTaskList(PopToAndCall(runs[R], "action"))
  \/ Task.type = "retry" /\ BreakTaskList(Retry(runs[R]))

(* exit; and panelreload of the script's own panel, and windowreload.       *)
Exits   == Task.type = "exit" /\ BreakTaskList(ExitAction(runs[R]))
Reloads == Task.type = "reload" /\ BreakTaskList(ExitAction(runs[R]))

Leave == (Breaks \/ Returns \/ Exits \/ Reloads) /\ UNCHANGED <<waits, requests, locked, log>>

(* wait: taskProcessor is called again by a timer with the stack as its     *)
(* "this".  A wait of such a call finds no taskProcessor there to call.     *)
Wait ==
  /\ Task.type = "wait"
  /\ waits' = IF active.call.by = "script" THEN waits \union {[run |-> R, call |-> [After EXCEPT !.by = "stack"]]}
              ELSE waits
  /\ BreakTaskList(Made(runs[R], <<>>))
  /\ UNCHANGED <<requests, locked, log>>

(* parallel: a run for each branch, whose script is the skeleton around it. *)
Parallel ==
  /\ Task.type = "parallel"
  /\ \E branches \in [DOMAIN Task.branches -> {r \in Runs \ DOMAIN Started : runs[r] = None}] :
       /\ \A i, j \in DOMAIN branches : branches[i] = branches[j] => i = j
       /\ LET Start(i) == Entered(NewRun(Task.branches[i], R), Task.branches[i], Call("ends"), "", "action")
              Branch(r) == CHOOSE i \in DOMAIN branches : branches[i] = r
          IN  /\ runs' = [r \in Runs |->
                    IF r = R THEN [At(runs[R]) EXCEPT !.parallelCount = @ + Len(branches)]
                    ELSE IF r \in {branches[i] : i \in DOMAIN branches} THEN Start(Branch(r)).run
                    ELSE runs[r]]
              /\ timers' = timers \o [i \in DOMAIN branches |-> [run |-> branches[i], call |-> Head(Start(i).calls)]]
  /\ active' = Idle
  /\ UNCHANGED <<waits, requests, locked, log>>

TaskProcessor ==
  \/ EndOfList /\ UNCHANGED <<waits, requests, locked, log>>
  \/ AtTask /\ \/ Step \/ LockScreen \/ UnlockScreen
               \/ TaskGroup \/ IfNot \/ RunAction \/ Leave \/ Wait \/ Parallel

(* What the browser does without the user.  *)
Works ==
  \/ Fire
  \/ TaskProcessor
  \/ \E wait \in waits : WaitEnds(wait)
  \/ \E r \in Runs : Answered(r)

Next == Works \/ Unlock \/ \E r \in Runs : CallAction(r)

(* As long as there is something to come it comes: a task, a timer, or the  *)
(* answer or the failure of a request.  The order is open, and the user     *)
(* need not start anything or press the button.                             *)
Spec == Init /\ [][Next]_vars /\ WF_vars(Works)
-------------------------------------------------------------------------------
Live(r) == runs[r] # None /\ runs[r].live

(* What is left of a run is never done twice and never forgotten: a started *)
(* run goes on at one place only, which is a timer, an answer, the task     *)
(* that is active or the end of its branches; one that ended, nowhere.      *)
Continuations(r) ==
  LET ofTimers == {i \in DOMAIN timers : timers[i].run = r /\ timers[i].call.do # "unlock"}
      ofWaits  == {wait \in waits : wait.run = r}
  IN  Cardinality(ofTimers) + Cardinality(ofWaits)
        + Cardinality({r} \intersect requests) + Cardinality({r} \intersect {active.run})
        + Cardinality({r} \intersect {p \in {q \in Runs : Live(q)} : runs[p].parallelCount > 0})

OneContinuation == \A r \in Runs : runs[r] # None => Continuations(r) = IF Live(r) THEN 1 ELSE 0

(* A task is found by its place in the script that the stack has when its   *)
(* call is made, not when the call was written down: they are the same one, *)
(* for the calls that are under way and for those of every frame.           *)
Leads(call, script) == call.do = "tasks" => call.of \in GroupsOf[script]

LocationsHold ==
  /\ \A c \in ToSet(timers) \union waits \union {active} :
       c.run # None => Leads(c.call, runs[c.run].script)
  /\ \A r \in {q \in Runs : Live(q)} : \A frame \in ToSet(runs[r].stack) :
       Leads(frame.call, frame.script)

(* A screen that a script's lockScreen locked always has a frame or a timer *)
(* that will unlock it, however the run that locked it is left, and however *)
(* tasks, the user and other scripts lock and unlock it in between.         *)
LockIsOwned ==
  locked = "script" =>
    \/ \E i \in DOMAIN timers : timers[i].call.do = "unlock"
    \/ \E r \in {q \in Runs : Live(q)} :
         \E frame \in ToSet(runs[r].stack) : frame.call.do = "unlock"

(* What a script must be for OneContinuation: the others are known to get   *)
(* lost.  Only the first check of a script may throw, where it is caught; a *)
(* wait comes once in a group; parallel branches are some; and a server     *)
(* action answers or reports an error.                                      *)
WaitsOf(g) ==
  {p \in UNION {{l} \X DOMAIN Group[g].taskList[l].tasks : l \in DOMAIN Group[g].taskList} :
     Group[Group[g].taskList[p[1]].tasks[p[2]]].type = "wait"}

Ordinary ==
  /\ "http" \notin Outcomes
  /\ \A s \in DOMAIN Script : \A i \in DOMAIN Script[s].tasks :
       Group[Script[s].tasks[i]].type = "IF" /\ "throws" \in Group[Script[s].tasks[i]].check
         => i = 1 /\ Script[s].actionType = "BLANK"
  /\ \A g \in DOMAIN Group :
       /\ \A p, q \in WaitsOf(g) : p = q /\ Group[g].taskList[p[1]].repeat <= 1
       /\ Group[g].type = "parallel" => Group[g].branches # <<>>
===============================================================================
