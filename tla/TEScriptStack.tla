----------------------------- MODULE TEScriptStack -----------------------------
(***************************************************************************)
(* TEScriptStackBase of db2te/js/Class_TEScript_TECore_Processor.js: the   *)
(* stack of one run of a script.  A frame keeps the script to go back to   *)
(* and the call to go on with; calls are made through timers.  Operators   *)
(* return the run as it is left and the calls it made, in order.           *)
(***************************************************************************)
EXTENDS Naturals, Sequences, FiniteSets, FiniteSetsExt, SequencesExt

CONSTANT None

Call(do)               == [do |-> do, of |-> None, list |-> 0, at |-> 0, by |-> "script"]
FollowOn(at)           == [Call("followOn") EXCEPT !.at = at]
Tasks(group, list, at) == [do |-> "tasks", of |-> group, list |-> list, at |-> at, by |-> "script"]

NewRun(script, parent) ==
  [live |-> TRUE, scriptHead |-> script, script |-> None, stack |-> <<>>, taskListRepeatCount |-> 0,
   currentTask |-> Call("none"), parallelCount |-> 0, parent |-> parent]

Made(run, calls) == [run |-> run, calls |-> calls]

Push(run, script, call, flag) ==
  [run EXCEPT !.stack = Append(@, [script |-> run.script, call |-> call, flag |-> flag]),
              !.script = IF script = None THEN @ ELSE script]

PushAndCall(run, callFunction, callBack, flag) ==
  Made(Push(run, None, callBack, flag), <<callFunction>>)

(* remove: the run is taken out of actionStackHolder.  *)
Removed(run) == [run EXCEPT !.live = FALSE]

(* The calls of the frames from the top down to frame j, of which those     *)
(* above j are only called if they are marked "DoublePOP".                  *)
CallsDownTo(stack, j) ==
  LET marked == {i \in j + 1..Len(stack) : stack[i].flag = "DoublePOP"}
      FromTop(n) == CHOOSE i \in marked : Cardinality({k \in marked : k >= i}) = n
  IN  [n \in 1..Cardinality(marked) |-> stack[FromTop(n)].call] \o <<stack[j].call>>

(* Mutant: the script of the frames is not restored.  *)
UnwindKeepsScript(run, j) ==
  IF run.stack = <<>> THEN Made(Removed(run), <<>>)
  ELSE Made([run EXCEPT !.stack = SubSeq(@, 1, j - 1)], CallsDownTo(run.stack, j))

(* Popping an empty stack throws, and the handler removes the run.  *)
UnwindTo(run, j) ==
  IF run.stack = <<>>
    THEN Made(Removed(run), <<>>)
    ELSE Made([run EXCEPT !.stack = SubSeq(@, 1, j - 1), !.script = run.stack[j].script],
              CallsDownTo(run.stack, j))

Highest(stack, flags) == Max({1} \union {i \in DOMAIN stack : stack[i].flag \in flags})

PopAndCall(run) ==
  UnwindTo(run, Max({1} \union {i \in DOMAIN run.stack : run.stack[i].flag # "DoublePOP"}))

(* Mutant: the frames in between are dropped with what they had to do.  *)
ForgetAndCall(run, flag) ==
  IF run.stack = <<>> THEN Made(Removed(run), <<>>)
  ELSE LET j == Highest(run.stack, {flag}) IN
       Made([run EXCEPT !.stack = SubSeq(@, 1, j - 1), !.script = run.stack[j].script],
            <<run.stack[j].call>>)

(* popToAndCall(flag), and exitAction() with a flag that no frame has.  A   *)
(* name given to exitAction is compared with the name of the class          *)
(* actionScript, not of the script: it makes no difference.                 *)
PopToAndCall(run, flag) == UnwindTo(run, Highest(run.stack, {flag}))

ExitAction(run) == PopToAndCall(run, "none has it")
===============================================================================
