----------------------------- MODULE TEScript_proofs -----------------------------
(***************************************************************************)
(* Proofs about the runs of scripts, for any ordinary scripts, any number  *)
(* of runs, and timers, answers and waits in any order.                    *)
(***************************************************************************)
EXTENDS TEScriptMeaning, FiniteSetTheorems, SequenceTheorems, TLAPS

-------------------------------------------------------------------------------
(* A call that can be made when that script is on the stack.                *)
Fits(call, script) ==
  /\ call.do = "followOn" => call.at > 1
  /\ call.do = "tasks" => call.of \in GroupsOf[script] /\ call.list > 0 /\ call.at > 0

(* The frames of a stack: the first ends the run, the others go on with     *)
(* something in a script, and those that unlock the screen are marked.      *)
FrameFits(script, call, flag, i) ==
  /\ flag = "DoublePOP" <=> call.do = "unlock"
  /\ flag = "" <=> i = 1
  /\ call.do = "ends" <=> i = 1
  /\ i > 1 => script \in DOMAIN Script
  /\ call.do # "none" /\ call.by = "script" /\ Fits(call, script)

Stacked(run) ==
  /\ run.stack # <<>> => run.script \in DOMAIN Script
  /\ \A i \in DOMAIN run.stack :
       FrameFits(run.stack[i].script, run.stack[i].call, run.stack[i].flag, i)

(* The call that a run goes on with.                                        *)
Ready(call, run) ==
  /\ call.do \notin {"none", "unlock"} /\ Fits(call, run.script)
  /\ call.do = "ends" <=> run.stack = <<>>

(* A group has waits, and they are done with.                               *)
Behind(call, count) ==
  /\ WaitsOf(call.of) # {}
  /\ \A p \in WaitsOf(call.of) :
        p[1] < call.list \/ (p[1] = call.list /\ (p[2] < call.at \/ count >= 1))

(* Where a run goes on, and that it goes on nowhere else.                   *)
Hit(coming, r) == coming.run = r /\ coming.call.do # "unlock"
Off(ts, r)     == \A i \in DOMAIN ts : ~Hit(ts[i], r)
Comes(ts, r, call) ==
  \E i \in DOMAIN ts : Hit(ts[i], r) /\ ts[i].call = call /\ \A j \in DOMAIN ts : Hit(ts[j], r) => j = i

InTimer(r) ==
  \E call \in {timers[i].call : i \in DOMAIN timers} :
    Comes(timers, r, call) /\ call.by = "script" /\ Ready(call, runs[r])

InWait(r) ==
  \E wait \in waits :
    /\ wait.run = r /\ wait.call.do = "tasks" /\ wait.call.by = "stack"
    /\ Ready(wait.call, runs[r]) /\ Behind(wait.call, 0)
    /\ \A other \in waits : other.run = r => other = wait

InRequest(r) ==
  r \in requests /\ runs[r].stack # <<>> /\ Script[runs[r].script].actionType = "SERVERACTION"

InTask(r) ==
  /\ active.run = r /\ active.call.do = "tasks" /\ Ready(active.call, runs[r])
  /\ active.call.by = "stack" => Behind(active.call, runs[r].taskListRepeatCount)

InBranches(r) ==
  LET call == runs[r].currentTask IN
  /\ runs[r].parallelCount > 0
  /\ call.do = "tasks" /\ call.by = "script" /\ Ready(call, runs[r])

Modes == {"timer", "wait", "request", "task", "branches"}

Stands(r, mode) ==
  /\ IF mode = "timer" THEN InTimer(r) ELSE Off(timers, r)
  /\ IF mode = "wait" THEN InWait(r) ELSE \A wait \in waits : wait.run # r
  /\ IF mode = "request" THEN InRequest(r) ELSE r \notin requests
  /\ IF mode = "task" THEN InTask(r) ELSE active.run # r
  /\ IF mode = "branches" THEN InBranches(r) ELSE runs[r].parallelCount = 0

Nowhere(r) ==
  Off(timers, r) /\ (\A wait \in waits : wait.run # r) /\ r \notin requests /\ active.run # r

Placed(r) ==
  IF Live(r) THEN Stacked(runs[r]) /\ \E mode \in Modes : Stands(r, mode) ELSE Nowhere(r)

(* A run waits for as many branches as there are.                           *)
Branches(p) == {r \in Runs : Live(r) /\ runs[r].parent = p}

Families ==
  /\ \A p \in Runs : IsFiniteSet(Branches(p))
                     /\ (runs[p] # None => runs[p].parallelCount = Cardinality(Branches(p)))
  /\ \A r \in Runs : Live(r) /\ runs[r].parent # None => Live(runs[r].parent)

IInv == Types /\ Families /\ LockIsOwned /\ \A r \in Runs : Placed(r)
-------------------------------------------------------------------------------
(* Natural numbers have a least one, and bounded ones a greatest.           *)
LEMMA Least ==
  ASSUME NEW S \in SUBSET Nat, S # {}
  PROVE  \E n \in S : \A m \in S : n <= m
<1> DEFINE T == {1..n : n \in S}
<1>1. T \subseteq FiniteSubsetsOf(Nat) BY FS_Interval DEF FiniteSubsetsOf
<1>2. PICK x \in T : \A y \in T : ~ (<<y, x>> \in StrictSubsetOrdering(Nat))
  <2>1. T # {} OBVIOUS
  <2> HIDE DEF T
  <2> QED BY <1>1, <2>1, FS_StrictSubsetOrderingWellFounded, WFMin
<1>3. PICK n \in S : x = 1..n OBVIOUS
<1>4. ASSUME NEW m \in S, ~(n <= m) PROVE FALSE
  <2>1. m \in Nat /\ n \in Nat /\ m < n BY <1>4
  <2>2. n \in 1..n /\ n \notin 1..m /\ 1..m \subseteq 1..n BY <2>1
  <2>3. 1..m \in T /\ x \in SUBSET Nat /\ 1..m \in SUBSET Nat BY <1>3, <2>1
  <2> QED BY <1>2, <1>3, <2>2, <2>3 DEF StrictSubsetOrdering
<1> QED BY <1>4

LEMMA Greatest ==
  ASSUME NEW S \in SUBSET Nat, S # {}, NEW n \in Nat, \A s \in S : s <= n
  PROVE  Max(S) \in S /\ \A s \in S : Max(S) >= s
<1> DEFINE T == {n - s : s \in S}
<1>0. \A s \in S : s \in Nat /\ n - s \in Nat /\ n - s \in T OBVIOUS
<1>1. T \in SUBSET Nat /\ T # {} BY <1>0
<1>2. PICK least \in T : \A t \in T : least <= t BY <1>1, Least
<1>3. PICK x \in S : least = n - x BY <1>2
<1>4. \A s \in S : x >= s
  <2> TAKE s \in S
  <2>1. n - x <= n - s /\ x \in Nat /\ s \in Nat BY <1>0, <1>2, <1>3
  <2> QED BY <2>1
<1> QED BY <1>4 DEF Max

(* The members of a finite set of numbers, from the top.                    *)
LEMMA FromTheTop ==
  ASSUME NEW S \in SUBSET Nat, IsFiniteSet(S), NEW n \in 1..Cardinality(S)
  PROVE  \E i \in S : Cardinality({k \in S : k >= i}) = n
<1> DEFINE C == Cardinality(S)
           above(i) == {k \in S : k >= i}
           rank == [i \in S |-> Cardinality(above(i))]
<1>1. C \in Nat BY FS_CardinalityType
<1>2. \A i \in S : above(i) \in SUBSET S /\ i \in above(i) OBVIOUS
<1>3. \A i \in S : IsFiniteSet(above(i)) /\ Cardinality(above(i)) \in 1..C
  BY <1>1, <1>2, FS_Subset, FS_EmptySet, FS_CardinalityType
<1>4. ASSUME NEW i \in S, NEW k \in S, i < k PROVE rank[i] # rank[k]
  <2>1. i \in Nat /\ k \in Nat /\ \A m \in S : m \in Nat OBVIOUS
  <2>2. \A m \in S : m >= k => m >= i BY <1>4, <2>1
  <2>3. ~(i >= k) BY <1>4, <2>1
  <2>4. above(k) \in SUBSET above(i) /\ i \notin above(k) BY ONLY <2>2, <2>3
  <2> QED BY <1>2, <1>3, <2>4, FS_Subset
<1>5. rank \in Injection(S, 1..C)
  <2>1. rank \in [S -> 1..C] BY <1>3
  <2>2. \A i, k \in S : rank[i] = rank[k] => i = k BY <1>4
  <2> HIDE DEF rank
  <2> QED BY <2>1, <2>2 DEF Injection, IsInjective
<1>6. rank \in Surjection(S, 1..C)
  <2>1. IsFiniteSet(1..C) /\ Cardinality(1..C) = C BY <1>1, FS_Interval
  <2> HIDE DEF rank
  <2> QED BY <1>5, <2>1, FS_Injection
<1> QED BY <1>6 DEF Surjection

LEMMA ElementOfFrames ==
  ASSUME NEW stack \in Seq(FrameType), NEW i \in DOMAIN stack
  PROVE  /\ stack[i] \in FrameType /\ stack[i].call \in CallType
         /\ stack[i].script \in DOMAIN Script \union {None}
<1>1. stack[i] \in FrameType OBVIOUS
<1> QED BY <1>1 DEF FrameType

(* The calls that unwinding a stack makes: that of the last frame, after    *)
(* those of the marked ones above it.                                       *)
LEMMA CallsDown ==
  ASSUME NEW stack \in Seq(FrameType), NEW j \in DOMAIN stack
  PROVE  LET calls == CallsDownTo(stack, j) IN
           /\ calls \in Seq(CallType) /\ Len(calls) \in Nat \ {0}
           /\ calls[Len(calls)] = stack[j].call
           /\ \A n \in 1..Len(calls) - 1 : \E i \in DOMAIN stack :
                stack[i].flag = "DoublePOP" /\ calls[n] = stack[i].call
           /\ \A i \in j + 1..Len(stack) : stack[i].flag = "DoublePOP" => Len(calls) > 1
<1> DEFINE marked == {i \in j + 1..Len(stack) : stack[i].flag = "DoublePOP"}
           FromTop(n) == CHOOSE i \in marked : Cardinality({k \in marked : k >= i}) = n
           C == Cardinality(marked)
           above == [n \in 1..C |-> stack[FromTop(n)].call]
<1>1. marked \in SUBSET DOMAIN stack /\ IsFiniteSet(marked) /\ C \in Nat
  <2>1. marked \in SUBSET (j + 1..Len(stack)) /\ j \in Nat /\ Len(stack) \in Nat OBVIOUS
  <2>2. IsFiniteSet(j + 1..Len(stack)) BY <2>1, FS_Interval
  <2> QED BY <2>1, <2>2, FS_Subset, FS_CardinalityType
<1>2. \A n \in 1..C : FromTop(n) \in marked
  <2>1. marked \in SUBSET Nat BY <1>1
  <2> HIDE DEF marked
  <2> QED BY <1>1, <2>1, FromTheTop
<1>3. above \in Seq(CallType) /\ Len(above) = C
  <2>1. \A i \in DOMAIN stack : stack[i].call \in CallType BY ElementOfFrames
  <2>2. \A n \in 1..C : FromTop(n) \in DOMAIN stack BY <1>1, <1>2
  <2> HIDE DEF FromTop, C
  <2>3. \A n \in 1..C : stack[FromTop(n)].call \in CallType BY <2>1, <2>2
  <2> QED BY <1>1, <2>3
<1>4. \A i \in j + 1..Len(stack) : stack[i].flag = "DoublePOP" => C > 0
  <2>1. marked # {} => C # 0 BY <1>1, FS_EmptySet
  <2> QED BY <1>1, <2>1
<1>5. \A n \in 1..C : above[n] = stack[FromTop(n)].call OBVIOUS
<1>6. CallsDownTo(stack, j) = above \o <<stack[j].call>> BY DEF CallsDownTo
<1>7. stack[j].call \in CallType BY ElementOfFrames
<1>8. \A n \in 1..C : \E i \in DOMAIN stack : stack[i].flag = "DoublePOP" /\ above[n] = stack[i].call
  BY <1>1, <1>2, <1>5
<1> HIDE DEF above, C, marked, FromTop
<1>9. LET calls == above \o <<stack[j].call>> IN
        /\ calls \in Seq(CallType) /\ Len(calls) = C + 1
        /\ calls[Len(calls)] = stack[j].call /\ \A n \in 1..C : calls[n] = above[n]
  BY <1>1, <1>3, <1>7
<1> QED BY <1>1, <1>4, <1>6, <1>8, <1>9

-------------------------------------------------------------------------------
(* What the operators of TEScriptStack return: the run as it goes on, with  *)
(* one call after those that unlock the screen.                             *)
Locking(stack) == \E i \in DOMAIN stack : stack[i].call.do = "unlock"

IsMade(made) == made = [run |-> made.run, calls |-> made.calls]

Proceeds(run, made) ==
  /\ IsMade(made)
  /\ made.run \in RunType /\ Stacked(made.run)
  /\ made.run.live = run.live /\ made.run.parent = run.parent
  /\ made.run.parallelCount = run.parallelCount
  /\ made.calls \in Seq(CallType) /\ Len(made.calls) > 0
  /\ \A i \in 1..Len(made.calls) - 1 : made.calls[i].do = "unlock"
  /\ LET last == made.calls[Len(made.calls)] IN last.by = "script" /\ Ready(last, made.run)
  /\ Locking(run.stack) =>
       Locking(made.run.stack) \/ \E i \in DOMAIN made.calls : made.calls[i].do = "unlock"

LEMMA RunFields ==
  ASSUME NEW run \in RunType
  PROVE  /\ run.live \in BOOLEAN /\ run.script \in DOMAIN Script \union {None}
         /\ run.stack \in Seq(FrameType) /\ run.taskListRepeatCount \in Nat
         /\ run.currentTask \in CallType /\ run.parallelCount \in Nat
         /\ run.parent \in Runs \union {None}
BY DEF RunType

LEMMA UnwindProceeds ==
  ASSUME NEW run \in RunType, Stacked(run), NEW j \in DOMAIN run.stack,
         run.stack[j].flag # "DoublePOP"
  PROVE  Proceeds(run, UnwindTo(run, j))
<1> DEFINE stack == run.stack
           left == SubSeq(stack, 1, j - 1)
           calls == CallsDownTo(stack, j)
           made == [run EXCEPT !.stack = left, !.script = stack[j].script]
<1>1. stack \in Seq(FrameType) /\ stack # <<>> /\ j \in 1..Len(stack) BY RunFields
<1>2. left \in Seq(FrameType) /\ Len(left) = j - 1 /\ \A i \in 1..j - 1 : left[i] = stack[i]
  BY <1>1
<1>3. stack[j].script \in DOMAIN Script \union {None} /\ stack[j].call \in CallType
  BY <1>1, ElementOfFrames
<1>4. /\ made \in RunType /\ made.stack = left /\ made.script = stack[j].script
      /\ made.live = run.live /\ made.parent = run.parent /\ made.parallelCount = run.parallelCount
  BY <1>2, <1>3 DEF RunType
<1>5. UnwindTo(run, j) = [run |-> made, calls |-> calls] BY <1>1 DEF UnwindTo, Made
<1>6. /\ calls \in Seq(CallType) /\ Len(calls) \in Nat \ {0}
      /\ calls[Len(calls)] = stack[j].call
      /\ \A n \in 1..Len(calls) - 1 : \E i \in DOMAIN stack :
           stack[i].flag = "DoublePOP" /\ calls[n] = stack[i].call
      /\ \A i \in j + 1..Len(stack) : stack[i].flag = "DoublePOP" => Len(calls) > 1
  BY <1>1, CallsDown
<1> HIDE DEF left, calls, made
<1>7. \A n \in 1..Len(calls) - 1 : calls[n].do = "unlock"
  <2>1. \A i \in DOMAIN stack : stack[i].flag = "DoublePOP" => stack[i].call.do = "unlock"
    BY DEF Stacked, FrameFits
  <2> QED BY <1>6, <2>1
<1>8. Stacked(made)
  <2>1. left # <<>> => j > 1 BY <1>1, <1>2
  <2>2. \A i \in DOMAIN left : i \in 1..j - 1 /\ i \in DOMAIN stack BY <1>1, <1>2
  <2>3. left # <<>> => stack[j].script \in DOMAIN Script BY <2>1, <1>1 DEF Stacked, FrameFits
  <2>4. \A i \in DOMAIN left : made.stack[i] = stack[i] BY <1>2, <1>4, <2>2
  <2> QED BY <1>4, <2>2, <2>3, <2>4 DEF Stacked
<1>9. stack[j].call.by = "script" /\ Ready(stack[j].call, made)
  <2>1. left = <<>> <=> j = 1 BY <1>1, <1>2
  <2> QED BY <1>1, <1>4, <2>1 DEF Stacked, FrameFits, Ready
<1>10. Locking(stack) => Locking(left) \/ \E i \in DOMAIN calls : calls[i].do = "unlock"
  <2> SUFFICES ASSUME NEW i \in DOMAIN stack, stack[i].call.do = "unlock"
               PROVE  Locking(left) \/ \E k \in DOMAIN calls : calls[k].do = "unlock"
    BY DEF Locking
  <2>1. stack[i].flag = "DoublePOP" /\ i # j BY DEF Stacked, FrameFits
  <2>2. CASE i < j
    <3>1. i \in 1..j - 1 /\ i \in DOMAIN left BY <1>1, <1>2, <2>2
    <3> QED BY <1>2, <3>1 DEF Locking
  <2>3. CASE i > j
    <3>1. i \in j + 1..Len(stack) BY <1>1, <2>3
    <3>2. 1 \in 1..Len(calls) - 1 /\ 1 \in DOMAIN calls BY <1>6, <2>1, <3>1
    <3> QED BY <1>7, <3>2
  <2> QED BY <1>1, <2>1, <2>2, <2>3
<1>11. IsMade(UnwindTo(run, j)) BY <1>5 DEF IsMade
<1> QED BY <1>4, <1>5, <1>6, <1>7, <1>8, <1>9, <1>10, <1>11 DEF Proceeds

(* The frame that a stack is unwound to.                                    *)
LEMMA HighestFrame ==
  ASSUME NEW run \in RunType, Stacked(run), run.stack # <<>>, NEW S \in SUBSET DOMAIN run.stack
  PROVE  LET j == Max({1} \union S) IN
           j \in DOMAIN run.stack /\ (j = 1 \/ j \in S) /\ \A i \in S : j >= i
<1>1. run.stack \in Seq(FrameType) BY RunFields
<1>2. {1} \union S \in SUBSET Nat /\ Len(run.stack) \in Nat
      /\ \A i \in {1} \union S : i <= Len(run.stack) /\ i \in DOMAIN run.stack
  BY <1>1
<1> QED BY <1>2, Greatest

LEMMA PopAndCallProceeds ==
  ASSUME NEW run \in RunType, Stacked(run), run.stack # <<>>
  PROVE  Proceeds(run, PopAndCall(run))
<1> DEFINE S == {i \in DOMAIN run.stack : run.stack[i].flag # "DoublePOP"}
           j == Max({1} \union S)
<1>1. j \in DOMAIN run.stack /\ (j = 1 \/ j \in S) BY HighestFrame
<1>2. run.stack[j].flag # "DoublePOP" BY <1>1 DEF Stacked, FrameFits
<1>3. PopAndCall(run) = UnwindTo(run, j) BY DEF PopAndCall
<1> HIDE DEF j
<1> QED BY <1>1, <1>2, <1>3, UnwindProceeds

LEMMA PopToAndCallProceeds ==
  ASSUME NEW run \in RunType, Stacked(run), run.stack # <<>>, NEW flag, flag # "DoublePOP"
  PROVE  /\ Proceeds(run, PopToAndCall(run, flag))
         /\ \A i \in DOMAIN run.stack : run.stack[i].flag = flag /\ flag # "" =>
              PopToAndCall(run, flag).run.stack # <<>>
<1> DEFINE S == {i \in DOMAIN run.stack : run.stack[i].flag \in {flag}}
           j == Max({1} \union S)
<1>1. j \in DOMAIN run.stack /\ (j = 1 \/ j \in S) /\ \A i \in S : j >= i BY HighestFrame
<1>2. run.stack[j].flag # "DoublePOP" BY <1>1 DEF Stacked, FrameFits
<1>3. PopToAndCall(run, flag) = UnwindTo(run, j) BY DEF PopToAndCall, Highest
<1>4. ASSUME NEW i \in DOMAIN run.stack, run.stack[i].flag = flag, flag # ""
      PROVE  UnwindTo(run, j).run.stack # <<>>
  <2>1. i \in S /\ i # 1 BY <1>4 DEF Stacked, FrameFits
  <2> HIDE DEF j, S
  <2>2. run.stack \in Seq(FrameType) BY RunFields
  <2>3. j > 1 /\ j \in 1..Len(run.stack) BY <1>1, <2>1, <2>2
  <2>4. Len(SubSeq(run.stack, 1, j - 1)) = j - 1 BY <2>2, <2>3
  <2>5. UnwindTo(run, j).run.stack = SubSeq(run.stack, 1, j - 1) BY <2>2 DEF UnwindTo, Made, RunType
  <2> QED BY <2>3, <2>4, <2>5
<1> HIDE DEF j
<1> QED BY <1>1, <1>2, <1>3, <1>4, UnwindProceeds

LEMMA CallKinds ==
  /\ \A do \in {"none", "params", "execute", "unlock", "ends"} :
       Call(do) \in CallType /\ Call(do).do = do /\ Call(do).by = "script"
       /\ \A script : Fits(Call(do), script)
  /\ \A at \in Nat : FollowOn(at) \in CallType /\ FollowOn(at).do = "followOn"
                     /\ FollowOn(at).by = "script" /\ FollowOn(at).at = at
  /\ \A g \in DOMAIN Group, list, at \in Nat :
       LET call == Tasks(g, list, at) IN
         /\ call \in CallType /\ call.do = "tasks" /\ call.by = "script"
         /\ call.of = g /\ call.list = list /\ call.at = at
<1>1. \A do : Call(do) = [do |-> do, of |-> None, list |-> 0, at |-> 0, by |-> "script"]
  BY DEF Call
<1>2. \A at : FollowOn(at) = [do |-> "followOn", of |-> None, list |-> 0, at |-> at, by |-> "script"]
  BY DEF FollowOn, Call
<1>3. \A g, list, at :
        Tasks(g, list, at) = [do |-> "tasks", of |-> g, list |-> list, at |-> at, by |-> "script"]
  BY DEF Tasks
<1> QED BY <1>1, <1>2, <1>3 DEF CallType, Fits

LEMMA AppendFacts ==
  ASSUME NEW s \in Seq(FrameType), NEW e \in FrameType
  PROVE  /\ Append(s, e) \in Seq(FrameType) /\ Len(Append(s, e)) = Len(s) + 1 /\ Append(s, e) # <<>>
         /\ Append(s, e)[Len(s) + 1] = e /\ \A i \in DOMAIN s : Append(s, e)[i] = s[i]
         /\ DOMAIN Append(s, e) = DOMAIN s \union {Len(s) + 1}
         /\ Len(s) \in Nat /\ (Len(s) = 0 <=> s = <<>>) /\ Len(s) + 1 \notin DOMAIN s
OBVIOUS

(* A frame that can be pushed.                                              *)
PushFits(run, call, flag) ==
  /\ call \in CallType
  /\ flag \in {"", "action", "actionHead", "controlGroup", "taskGroup", "DoublePOP"}
  /\ flag = "DoublePOP" <=> call.do = "unlock"
  /\ flag = "" <=> run.stack = <<>>
  /\ call.do = "ends" <=> run.stack = <<>>
  /\ call.do # "none" /\ call.by = "script" /\ Fits(call, run.script)

LEMMA PushProceeds ==
  ASSUME NEW run, NEW script, NEW call, NEW flag,
         run \in RunType, Stacked(run), PushFits(run, call, flag),
         script = None => run.stack # <<>>, script \in DOMAIN Script \union {None}
  PROVE  LET pushed == Push(run, script, call, flag) IN
           /\ pushed \in RunType /\ Stacked(pushed) /\ pushed.stack # <<>>
           /\ pushed.script = IF script = None THEN run.script ELSE script
           /\ pushed.live = run.live /\ pushed.parent = run.parent
           /\ pushed.parallelCount = run.parallelCount
           /\ Locking(run.stack) \/ call.do = "unlock" => Locking(pushed.stack)
<1> DEFINE frame == [script |-> run.script, call |-> call, flag |-> flag]
           stack == Append(run.stack, frame)
           pushed == [run EXCEPT !.stack = stack, !.script = IF script = None THEN @ ELSE script]
<1>1. run.stack \in Seq(FrameType) /\ run.script \in DOMAIN Script \union {None} BY RunFields
<1>2. frame \in FrameType BY <1>1 DEF FrameType, PushFits
<1>3. /\ stack \in Seq(FrameType) /\ Len(stack) = Len(run.stack) + 1
      /\ stack[Len(run.stack) + 1] = frame /\ \A i \in DOMAIN run.stack : stack[i] = run.stack[i]
      /\ DOMAIN stack = DOMAIN run.stack \union {Len(run.stack) + 1}
      /\ Len(run.stack) \in Nat /\ stack # <<>> /\ (Len(run.stack) + 1 = 1 <=> run.stack = <<>>)
  <2> HIDE DEF frame
  <2>1. \A i \in DOMAIN run.stack : stack[i] = run.stack[i] BY <1>1, <1>2, AppendFacts
  <2>2. DOMAIN stack = DOMAIN run.stack \union {Len(run.stack) + 1} BY <1>1, <1>2, AppendFacts
  <2>3. Len(stack) = Len(run.stack) + 1 /\ stack[Len(run.stack) + 1] = frame BY <1>1, <1>2, AppendFacts
  <2>4. stack \in Seq(FrameType) /\ Len(run.stack) \in Nat /\ stack # <<>> BY <1>1, <1>2, AppendFacts
  <2>5. Len(run.stack) + 1 = 1 <=> run.stack = <<>> BY <1>1
  <2> QED BY <2>1, <2>2, <2>3, <2>4, <2>5
<1>4. /\ pushed \in RunType /\ pushed.stack = stack
      /\ pushed.script = IF script = None THEN run.script ELSE script
      /\ pushed.live = run.live /\ pushed.parent = run.parent /\ pushed.parallelCount = run.parallelCount
  BY <1>1, <1>3 DEF RunType
<1>5. Push(run, script, call, flag) = pushed BY DEF Push
<1>6. frame.call = call /\ frame.script = run.script /\ frame.flag = flag OBVIOUS
<1> HIDE DEF frame, stack, pushed
<1>7. Stacked(pushed)
  <2>1. \A i \in DOMAIN stack : FrameFits(stack[i].script, stack[i].call, stack[i].flag, i)
    <3> TAKE i \in DOMAIN stack
    <3>1. CASE i \in DOMAIN run.stack BY <1>3, <3>1 DEF Stacked
    <3>2. CASE i = Len(run.stack) + 1
      <4>2. i = 1 <=> run.stack = <<>> BY <1>3, <3>2
      <4>3. i > 1 => run.stack # <<>> BY <4>2
      <4>4. i > 1 => run.script \in DOMAIN Script BY <4>3 DEF Stacked
      <4>1. FrameFits(run.script, call, flag, i) BY <4>2, <4>4 DEF FrameFits, PushFits
      <4> QED BY <1>3, <1>6, <3>2, <4>1
    <3> QED BY <1>3, <3>1, <3>2
  <2>2. pushed.script \in DOMAIN Script BY <1>1, <1>4 DEF Stacked
  <2> QED BY <1>4, <2>1, <2>2 DEF Stacked
<1>8. Locking(run.stack) \/ call.do = "unlock" => Locking(stack) BY <1>3, <1>6 DEF Locking
<1> QED BY <1>3, <1>4, <1>5, <1>7, <1>8

LEMMA PushAndCallProceeds ==
  ASSUME NEW run, NEW callFunction, NEW callBack, NEW flag,
         run \in RunType, Stacked(run), run.stack # <<>>, PushFits(run, callBack, flag),
         callFunction \in CallType, callFunction.do \notin {"none", "unlock", "ends"},
         callFunction.by = "script", Fits(callFunction, run.script)
  PROVE  LET made == PushAndCall(run, callFunction, callBack, flag) IN
           /\ Proceeds(run, made) /\ made.calls = <<callFunction>>
           /\ Locking(run.stack) => Locking(made.run.stack)
<1> DEFINE pushed == Push(run, None, callBack, flag)
<1>1. /\ pushed \in RunType /\ Stacked(pushed) /\ pushed.stack # <<>>
      /\ pushed.script = run.script
      /\ pushed.live = run.live /\ pushed.parent = run.parent /\ pushed.parallelCount = run.parallelCount
      /\ Locking(run.stack) => Locking(pushed.stack)
  BY PushProceeds
<1>2. PushAndCall(run, callFunction, callBack, flag) = [run |-> pushed, calls |-> <<callFunction>>]
  BY DEF PushAndCall, Made
<1>3. <<callFunction>> \in Seq(CallType) /\ Len(<<callFunction>>) = 1 /\ <<callFunction>>[1] = callFunction
  OBVIOUS
<1> HIDE DEF pushed
<1>4. Ready(callFunction, pushed) BY <1>1 DEF Ready
<1>5. \A i \in 1..0 : FALSE OBVIOUS
<1>6. IsMade(PushAndCall(run, callFunction, callBack, flag)) BY <1>2 DEF IsMade
<1> QED BY <1>1, <1>2, <1>3, <1>4, <1>5, <1>6 DEF Proceeds

LEMMA EnteredProceeds ==
  ASSUME NEW run, NEW script, NEW callBack, NEW outer, NEW inner,
         None \notin DOMAIN Script, run \in RunType, Stacked(run), script \in DOMAIN Script,
         PushFits(run, callBack, outer), callBack.do # "unlock", inner \in {"action", "actionHead"}
  PROVE  LET made == Entered(run, script, callBack, outer, inner) IN
           /\ Proceeds(run, made) /\ made.calls = <<Call("params")>>
           /\ Script[script].lockScreen /\ locked = "no" => Locking(made.run.stack)
<1> DEFINE pushed == Push(run, script, callBack, outer)
           lock == Script[script].lockScreen /\ locked = "no"
           under == IF lock THEN Push(pushed, None, Call("unlock"), "DoublePOP") ELSE pushed
           made == PushAndCall(under, Call("params"), Call("execute"), inner)
<1>1. /\ pushed \in RunType /\ Stacked(pushed) /\ pushed.stack # <<>> /\ pushed.script = script
      /\ pushed.live = run.live /\ pushed.parent = run.parent /\ pushed.parallelCount = run.parallelCount
      /\ Locking(run.stack) => Locking(pushed.stack)
  BY PushProceeds
<1>2. Entered(run, script, callBack, outer, inner) = made BY DEF Entered
<1> HIDE DEF pushed
<1>3. /\ under \in RunType /\ Stacked(under) /\ under.stack # <<>> /\ under.script = script
      /\ under.live = run.live /\ under.parent = run.parent /\ under.parallelCount = run.parallelCount
      /\ Locking(run.stack) \/ lock => Locking(under.stack)
  <2>1. CASE lock
    <3>1. Call("unlock").do = "unlock" /\ PushFits(pushed, Call("unlock"), "DoublePOP")
      BY <1>1, CallKinds DEF PushFits
    <3> QED BY <1>1, <2>1, <3>1, PushProceeds
  <2>2. CASE ~lock BY <1>1, <2>2
  <2> QED BY <2>1, <2>2
<1> HIDE DEF under, lock
<1>4. /\ Call("params") \in CallType /\ Call("params").do \notin {"none", "unlock", "ends"}
      /\ Call("params").by = "script" /\ Fits(Call("params"), under.script)
      /\ PushFits(under, Call("execute"), inner)
  BY <1>3, CallKinds DEF PushFits
<1>5. /\ Proceeds(under, made) /\ made.calls = <<Call("params")>>
      /\ Locking(under.stack) => Locking(made.run.stack)
  BY <1>3, <1>4, PushAndCallProceeds
<1>6. Proceeds(run, made) BY <1>3, <1>5 DEF Proceeds
<1> QED BY <1>2, <1>3, <1>5, <1>6 DEF lock

(* The current task of a run is none of the stack's business.               *)
LEMMA AtProceeds ==
  ASSUME NEW run, NEW made, NEW task,
         Proceeds(run, made), task \in CallType
  PROVE  LET there == [made EXCEPT !.run = [@ EXCEPT !.currentTask = task]] IN
           Proceeds(run, there) /\ there.run.stack = made.run.stack /\ there.calls = made.calls
<1> DEFINE at == [made.run EXCEPT !.currentTask = task]
           there == [made EXCEPT !.run = [@ EXCEPT !.currentTask = task]]
<1>1. /\ at \in RunType /\ at.stack = made.run.stack /\ at.script = made.run.script
      /\ at.live = made.run.live /\ at.parent = made.run.parent
      /\ at.parallelCount = made.run.parallelCount
  BY DEF Proceeds, RunType
<1>2. there = [run |-> at, calls |-> made.calls] BY DEF Proceeds, IsMade
<1>3. there.run = at /\ there.calls = made.calls BY <1>2
<1> HIDE DEF at, there
<1>4. Stacked(at) BY <1>1 DEF Proceeds, Stacked
<1>5. \A call : Ready(call, made.run) => Ready(call, at) BY <1>1 DEF Ready
<1>6. IsMade(there) BY <1>2, <1>3 DEF IsMade
<1>7. Ready(made.calls[Len(made.calls)], at) BY <1>5 DEF Proceeds
<1>8. Proceeds(run, there) /\ there.run.stack = made.run.stack /\ there.calls = made.calls
  BY <1>1, <1>3, <1>4, <1>6, <1>7 DEF Proceeds
<1> QED BY <1>8 DEF at, there

(* retry leaves at least the frame of the action that it starts again.      *)
LEMMA RetryProceeds ==
  ASSUME NEW run, run \in RunType, Stacked(run), run.stack # <<>>
  PROVE  Proceeds(run, Retry(run))
<1> DEFINE left == PopToAndCall(run, "action")
           again == left.run.script = Task.name /\ \E i \in DOMAIN run.stack : run.stack[i].flag = "action"
           start == PushAndCall(left.run, Call("params"), Call("execute"), "action")
           before == SubSeq(left.calls, 1, Len(left.calls) - 1)
           calls == before \o start.calls
<1>1. Proceeds(run, left) /\ (again => left.run.stack # <<>>) BY PopToAndCallProceeds
<1>2. Retry(run) = IF again THEN [start EXCEPT !.calls = before \o @] ELSE left BY DEF Retry
<1>3. start = [run |-> start.run, calls |-> start.calls] BY DEF PushAndCall, Made
<1> HIDE DEF left
<1>4. ASSUME again PROVE Proceeds(run, [start EXCEPT !.calls = before \o @])
  <2>1. /\ Call("params") \in CallType /\ Call("params").do \notin {"none", "unlock", "ends"}
        /\ Call("params").by = "script" /\ Fits(Call("params"), left.run.script)
        /\ PushFits(left.run, Call("execute"), "action")
    BY <1>1, <1>4, CallKinds DEF PushFits
  <2>2. left.run \in RunType /\ Stacked(left.run) BY <1>1 DEF Proceeds
  <2>3. /\ Proceeds(left.run, start) /\ start.calls = <<Call("params")>>
        /\ Locking(left.run.stack) => Locking(start.run.stack)
    BY <1>1, <1>4, <2>1, <2>2, PushAndCallProceeds
  <2> DEFINE made == [start EXCEPT !.calls = before \o @]
  <2>4. /\ made.run = start.run /\ made.calls = before \o <<Call("params")>>
        /\ IsMade(made)
    <3> HIDE DEF start, before
    <3> QED BY <1>3, <2>3 DEF IsMade
  <2>5. left.calls \in Seq(CallType) /\ Len(left.calls) > 0 BY <1>1 DEF Proceeds
  <2>6. before \in Seq(CallType) /\ Len(before) = Len(left.calls) - 1
        /\ \A i \in 1..Len(left.calls) - 1 : before[i] = left.calls[i]
    BY <2>5
  <2>7. /\ made.calls \in Seq(CallType) /\ Len(made.calls) = Len(left.calls)
        /\ made.calls[Len(left.calls)] = Call("params")
        /\ \A i \in 1..Len(left.calls) - 1 : made.calls[i] = left.calls[i]
    <3> HIDE DEF before, made
    <3> QED BY <2>1, <2>4, <2>5, <2>6
  <2> HIDE DEF made
  <2>8. Ready(Call("params"), made.run) BY <2>3, <2>4 DEF Proceeds
  <2>9. Locking(run.stack) =>
          Locking(made.run.stack) \/ \E i \in DOMAIN made.calls : made.calls[i].do = "unlock"
    <3>1. ASSUME NEW i \in DOMAIN left.calls, left.calls[i].do = "unlock"
          PROVE  \E k \in DOMAIN made.calls : made.calls[k].do = "unlock"
      <4>1. i # Len(left.calls) BY <1>1, <3>1 DEF Proceeds, Ready
      <4>2. i \in 1..Len(left.calls) - 1 BY <2>5, <4>1
      <4> QED BY <2>5, <2>7, <3>1, <4>2
    <3> QED BY <1>1, <2>3, <2>4, <3>1 DEF Proceeds
  <2>10. made.calls \in Seq(CallType) /\ Len(made.calls) > 0
         /\ \A i \in 1..Len(made.calls) - 1 : made.calls[i].do = "unlock"
    BY <1>1, <2>5, <2>7 DEF Proceeds
  <2>11. /\ made.run \in RunType /\ Stacked(made.run) /\ made.run.live = run.live
         /\ made.run.parent = run.parent /\ made.run.parallelCount = run.parallelCount
    BY <1>1, <2>3, <2>4 DEF Proceeds
  <2>12. made.calls[Len(made.calls)] = Call("params") BY <2>7
  <2>13. Proceeds(run, made)
    BY <2>1, <2>4, <2>8, <2>9, <2>10, <2>11, <2>12 DEF Proceeds
  <2> QED BY <2>13 DEF made
<1> QED BY <1>1, <1>2, <1>4

(* A follow-on action goes on, or its check throws: then it was the first   *)
(* of an ordinary script without server action.                             *)
LEMMA FollowOnProceeds ==
  ASSUME NEW run, NEW k, NEW f,
         Ordinary, run \in RunType, Stacked(run), run.stack # <<>>, k \in Nat \ {0},
         f \in FollowOnActions(run, k)
  PROVE  /\ f.thrown \in BOOLEAN
         /\ ~f.thrown => Proceeds(run, f.made)
         /\ f.thrown => k = 1 /\ Script[run.script].actionType = "BLANK"
<1> DEFINE tasks == Script[run.script].tasks
           Outcome(i, o) == o \in Group[tasks[i]].check
           ComesTo(n) == \A i \in k..n - 1 : Group[tasks[i]].type = "IF" /\ Outcome(i, "false")
           Reached == {n \in k..Len(tasks) : ComesTo(n)}
           Execute(n) == PushAndCall(run, Tasks(tasks[n], 1, 1), FollowOn(n + 1), "controlGroup")
<1>1. run.script \in DOMAIN Script BY DEF Stacked
<1>2. tasks \in Seq(GroupsOf[run.script]) /\ GroupsOf[run.script] \subseteq DOMAIN Group
      /\ Script[run.script].actionType \in {"BLANK", "SERVERACTION"}
  BY <1>1, ScriptAssumption
<1>3. \A n \in k..Len(tasks) :
        n \in DOMAIN tasks /\ n \in Nat /\ n > 0 /\ n + 1 > 1 /\ n + 1 \in Nat
        /\ tasks[n] \in GroupsOf[run.script] /\ tasks[n] \in DOMAIN Group
  <2> HIDE DEF tasks
  <2> QED BY <1>2
<1>4. ASSUME NEW n \in k..Len(tasks) PROVE Proceeds(run, Execute(n))
  <2>1. tasks[n] \in GroupsOf[run.script] /\ tasks[n] \in DOMAIN Group /\ n + 1 \in Nat /\ n + 1 > 1
    BY <1>3
  <2>2. PushFits(run, FollowOn(n + 1), "controlGroup") BY <2>1, CallKinds DEF PushFits, Fits
  <2> DEFINE call == Tasks(tasks[n], 1, 1)
  <2>3. call \in CallType /\ call.do = "tasks" /\ call.by = "script" /\ call.of = tasks[n]
        /\ call.list = 1 /\ call.at = 1
    BY <2>1, CallKinds
  <2>4. Fits(call, run.script) BY <2>1, <2>3 DEF Fits
  <2> HIDE DEF call
  <2>5. Proceeds(run, PushAndCall(run, call, FollowOn(n + 1), "controlGroup"))
    BY <2>2, <2>3, <2>4, PushAndCallProceeds
  <2> QED BY <2>5 DEF call
<1>5. CASE f \in {[made |-> Execute(n), thrown |-> FALSE] :
                   n \in {m \in Reached : Group[tasks[m]].type = "task" \/ Outcome(m, "true")}}
  <2>1. PICK n \in k..Len(tasks) : f = [made |-> Execute(n), thrown |-> FALSE] BY <1>5
  <2> HIDE DEF Execute
  <2> QED BY <1>4, <2>1
<1>6. CASE f \in {[made |-> Made(run, <<>>), thrown |-> TRUE] :
                   n \in {m \in Reached : Group[tasks[m]].type = "IF" /\ Outcome(m, "throws")}}
  <2>1. f.thrown = TRUE BY <1>6
  <2>2. PICK n \in k..Len(tasks) : Group[tasks[n]].type = "IF" /\ Outcome(n, "throws") BY <1>6
  <2>3. n = 1 /\ Script[run.script].actionType = "BLANK" BY <1>1, <1>3, <2>2 DEF Ordinary
  <2>4. f.thrown \in BOOLEAN /\ ~ ~f.thrown BY <2>1
  <2> QED BY <2>3, <2>4
<1>7. CASE f \in {[made |-> PopAndCall(run), thrown |-> FALSE] :
                   n \in {m \in {Len(tasks) + 1} : ComesTo(m)}}
  <2>1. f.made = PopAndCall(run) /\ f.thrown = FALSE BY <1>7
  <2> QED BY <2>1, PopAndCallProceeds
<1> QED BY <1>5, <1>6, <1>7 DEF FollowOnActions

(* Whatever an ordinary server action answers, its script goes on.          *)
LEMMA HandledProceeds ==
  ASSUME NEW run, NEW outcome, NEW f,
         Ordinary, run \in RunType, Stacked(run), run.stack # <<>>,
         Script[run.script].actionType = "SERVERACTION",
         outcome \in Outcomes, f \in Handled(run, outcome)
  PROVE  Proceeds(run, f.made)
<1> DEFINE once == FollowOnActions(run, 1)
<1>1. \A g \in once : g.thrown = FALSE /\ Proceeds(run, g.made) BY FollowOnProceeds
<1>2. outcome = "true" \/ outcome = "error" BY ScriptAssumption DEF Ordinary
<1>3. Again({}) = {} BY DEF Again
<1> HIDE DEF once
<1>4. {g \in once : g.thrown} = {} BY <1>1
<1>5. f \in once
  <2>1. CASE outcome = "true"
    <3>1. f \in {g \in once : ~g.thrown} \union Again({g \in once : g.thrown})
      BY <2>1 DEF Handled, once
    <3> QED BY <3>1, <1>3, <1>4
  <2>2. CASE outcome = "error" BY <2>2 DEF Handled, once
  <2> QED BY <1>2, <2>1, <2>2
<1> QED BY <1>1, <1>5

-------------------------------------------------------------------------------
(* What the timers have for a run as calls are made and added.              *)
KeepsFor(ts, us, q) ==
  /\ Off(ts, q) => Off(us, q)
  /\ \A call : Comes(ts, q, call) => Comes(us, q, call)

LEMMA TailKeeps ==
  ASSUME NEW ts, NEW q, ts \in Seq(ComingType), ts # <<>>, ~Hit(Head(ts), q)
  PROVE  KeepsFor(ts, Tail(ts), q)
<1> DEFINE us == Tail(ts)
<1>1. /\ us \in Seq(ComingType) /\ Len(ts) \in Nat \ {0} /\ Len(us) = Len(ts) - 1
      /\ \A i \in DOMAIN us : us[i] = ts[i + 1] /\ i + 1 \in DOMAIN ts /\ i \in Nat
      /\ \A i \in DOMAIN ts : i # 1 => i - 1 \in DOMAIN us /\ ts[i] = us[i - 1] /\ i \in Nat /\ i - 1 + 1 = i
      /\ Head(ts) = ts[1]
  OBVIOUS
<1> HIDE DEF us
<1>2. Off(ts, q) => Off(us, q) BY <1>1 DEF Off
<1>3. ASSUME NEW call, Comes(ts, q, call) PROVE Comes(us, q, call)
  <2>1. PICK i \in DOMAIN ts : Hit(ts[i], q) /\ ts[i].call = call /\ \A j \in DOMAIN ts : Hit(ts[j], q) => j = i
    BY <1>3 DEF Comes
  <2>2. i # 1 BY <1>1, <2>1
  <2>3. i - 1 \in DOMAIN us /\ us[i - 1] = ts[i] BY <1>1, <2>2
  <2>4. \A j \in DOMAIN us : Hit(us[j], q) => j = i - 1
    <3> SUFFICES ASSUME NEW j \in DOMAIN us, Hit(us[j], q) PROVE j = i - 1 OBVIOUS
    <3>1. j + 1 = i /\ j \in Nat BY <1>1, <2>1
    <3> QED BY <3>1
  <2> QED BY <2>1, <2>3, <2>4 DEF Comes
<1> QED BY <1>2, <1>3 DEF KeepsFor, us

LEMMA TailEmpties ==
  ASSUME NEW ts, NEW r, NEW call, ts \in Seq(ComingType), ts # <<>>, Hit(Head(ts), r),
         Comes(ts, r, call)
  PROVE  Off(Tail(ts), r) /\ Head(ts).call = call
<1>1. /\ Head(ts) = ts[1] /\ 1 \in DOMAIN ts
      /\ \A i \in DOMAIN Tail(ts) : Tail(ts)[i] = ts[i + 1] /\ i + 1 \in DOMAIN ts /\ i + 1 # 1
  OBVIOUS
<1>2. PICK i \in DOMAIN ts : ts[i].call = call /\ \A j \in DOMAIN ts : Hit(ts[j], r) => j = i
  BY DEF Comes
<1>3. i = 1 BY <1>1, <1>2
<1> QED BY <1>1, <1>2, <1>3 DEF Off

LEMMA ConcatFacts ==
  ASSUME NEW ts, NEW us, ts \in Seq(ComingType), us \in Seq(ComingType)
  PROVE  LET vs == ts \o us IN
           /\ vs \in Seq(ComingType)
           /\ \A i \in DOMAIN ts : i \in DOMAIN vs /\ vs[i] = ts[i]
           /\ \A i \in DOMAIN us : Len(ts) + i \in DOMAIN vs /\ vs[Len(ts) + i] = us[i]
           /\ \A k \in DOMAIN vs : \/ k \in DOMAIN ts /\ vs[k] = ts[k]
                                   \/ \E i \in DOMAIN us : k = Len(ts) + i /\ vs[k] = us[i]
<1> DEFINE vs == ts \o us
<1>1. /\ vs \in Seq(ComingType) /\ Len(ts) \in Nat /\ Len(us) \in Nat /\ Len(vs) = Len(ts) + Len(us)
      /\ \A i \in 1..Len(ts) : vs[i] = ts[i]
      /\ \A i \in 1..Len(us) : vs[Len(ts) + i] = us[i]
      /\ DOMAIN vs = 1..Len(vs) /\ DOMAIN ts = 1..Len(ts) /\ DOMAIN us = 1..Len(us)
  OBVIOUS
<1> HIDE DEF vs
<1>2. \A i \in DOMAIN ts : i \in DOMAIN vs /\ vs[i] = ts[i] BY <1>1
<1>3. \A i \in DOMAIN us : Len(ts) + i \in DOMAIN vs /\ vs[Len(ts) + i] = us[i] BY <1>1
<1>4. ASSUME NEW k \in DOMAIN vs, k \notin DOMAIN ts
      PROVE  \E i \in DOMAIN us : k = Len(ts) + i /\ vs[k] = us[i]
  <2>1. k - Len(ts) \in DOMAIN us /\ k = Len(ts) + (k - Len(ts)) BY <1>1, <1>4
  <2> QED BY <1>3, <2>1
<1>5. \A k \in DOMAIN vs : \/ k \in DOMAIN ts /\ vs[k] = ts[k]
                           \/ \E i \in DOMAIN us : k = Len(ts) + i /\ vs[k] = us[i]
  BY <1>2, <1>4
<1> QED BY <1>1, <1>2, <1>3, <1>5 DEF vs

LEMMA ConcatKeeps ==
  ASSUME NEW ts, NEW us, NEW q, ts \in Seq(ComingType), us \in Seq(ComingType), Off(us, q)
  PROVE  KeepsFor(ts, ts \o us, q)
<1> DEFINE vs == ts \o us
<1>1. /\ \A i \in DOMAIN ts : i \in DOMAIN vs /\ vs[i] = ts[i]
      /\ \A k \in DOMAIN vs : \/ k \in DOMAIN ts /\ vs[k] = ts[k]
                              \/ \E i \in DOMAIN us : k = Len(ts) + i /\ vs[k] = us[i]
  BY ConcatFacts
<1> HIDE DEF vs
<1>2. \A k \in DOMAIN vs : Hit(vs[k], q) => k \in DOMAIN ts /\ vs[k] = ts[k] BY <1>1 DEF Off
<1>3. Off(ts, q) => Off(vs, q) BY <1>2 DEF Off
<1>4. \A call : Comes(ts, q, call) => Comes(vs, q, call) BY <1>1, <1>2 DEF Comes
<1> QED BY <1>3, <1>4 DEF KeepsFor, vs

LEMMA ConcatComes ==
  ASSUME NEW ts, NEW us, NEW r, NEW call, ts \in Seq(ComingType), us \in Seq(ComingType),
         Off(ts, r), Comes(us, r, call)
  PROVE  Comes(ts \o us, r, call)
<1> DEFINE vs == ts \o us
<1>1. /\ \A i \in DOMAIN us : Len(ts) + i \in DOMAIN vs /\ vs[Len(ts) + i] = us[i]
      /\ \A k \in DOMAIN vs : \/ k \in DOMAIN ts /\ vs[k] = ts[k]
                              \/ \E i \in DOMAIN us : k = Len(ts) + i /\ vs[k] = us[i]
  BY ConcatFacts
<1> HIDE DEF vs
<1>2. PICK i \in DOMAIN us : Hit(us[i], r) /\ us[i].call = call /\ \A j \in DOMAIN us : Hit(us[j], r) => j = i
  BY DEF Comes
<1>3. \A k \in DOMAIN vs : Hit(vs[k], r) => k = Len(ts) + i BY <1>1, <1>2 DEF Off
<1>4. Len(ts) + i \in DOMAIN vs /\ vs[Len(ts) + i] = us[i] BY <1>1
<1> QED BY <1>2, <1>3, <1>4 DEF Comes, vs

(* The timers of calls that a run made.                                     *)
LEMMA ForComes ==
  ASSUME NEW r, NEW calls, r \in Runs, calls \in Seq(CallType), Len(calls) > 0,
         \A i \in 1..Len(calls) - 1 : calls[i].do = "unlock",
         calls[Len(calls)].do # "unlock"
  PROVE  LET us == For(r, calls) IN
           /\ us \in Seq(ComingType) /\ Comes(us, r, calls[Len(calls)])
           /\ \A q : q # r => Off(us, q)
           /\ \A i \in DOMAIN calls : i \in DOMAIN us /\ us[i].call = calls[i]
<1> DEFINE us == For(r, calls)
           n == Len(calls)
<1>1. DOMAIN us = DOMAIN calls /\ \A i \in DOMAIN calls : us[i] = [run |-> r, call |-> calls[i]]
  BY DEF For
<1>2. \A i \in DOMAIN calls : us[i] \in ComingType /\ us[i].run = r /\ us[i].call = calls[i]
  BY <1>1 DEF ComingType
<1>3. n \in DOMAIN calls /\ \A i \in DOMAIN calls : i # n => i \in 1..n - 1 OBVIOUS
<1>4. us \in Seq(ComingType)
  <2>1. Len(calls) \in Nat /\ DOMAIN calls = 1..Len(calls) OBVIOUS
  <2>2. us = [i \in 1..Len(calls) |-> us[i]] BY <2>1 DEF For
  <2> HIDE DEF us
  <2>3. \A i \in 1..Len(calls) : us[i] \in ComingType BY <1>2, <2>1
  <2> QED BY <2>1, <2>2, <2>3
<1> HIDE DEF us, n
<1>5. Comes(us, r, calls[n]) BY <1>1, <1>2, <1>3 DEF Comes, Hit, n
<1>6. \A q : q # r => Off(us, q) BY <1>1, <1>2 DEF Off, Hit
<1> QED BY <1>1, <1>2, <1>4, <1>5, <1>6 DEF us, n

(* A step leaves a run alone: it goes on where it did.                      *)
Undisturbed(q) ==
  /\ runs'[q] = runs[q] /\ KeepsFor(timers, timers', q)
  /\ \A wait : wait.run = q => (wait \in waits <=> wait \in waits')
  /\ q \in requests <=> q \in requests'
  /\ active.run = q => active' = active
  /\ active'.run = q => active.run = q

LEMMA PlacedStays ==
  ASSUME NEW q, Placed(q), Undisturbed(q)
  PROVE  Placed(q)'
<1>1. CASE Live(q)
  <2>1. PICK mode \in Modes : Stands(q, mode) BY <1>1 DEF Placed
  <2>2. InTimer(q) => InTimer(q)'
    <3> SUFFICES ASSUME InTimer(q) PROVE InTimer(q)' OBVIOUS
    <3>1. PICK call : Comes(timers, q, call) /\ call.by = "script" /\ Ready(call, runs[q]) BY DEF InTimer
    <3>2. Comes(timers', q, call) /\ Ready(call, runs'[q]) BY <3>1 DEF Undisturbed, KeepsFor
    <3>3. call \in {timers'[i].call : i \in DOMAIN timers'} BY <3>2 DEF Comes
    <3> QED BY <3>1, <3>2, <3>3 DEF InTimer
  <2>3. InWait(q) => InWait(q)' BY DEF InWait, Undisturbed
  <2>4. InRequest(q) => InRequest(q)' BY DEF InRequest, Undisturbed
  <2>5. InTask(q) => InTask(q)' BY DEF InTask, Undisturbed
  <2>6. InBranches(q) => InBranches(q)' BY DEF InBranches, Undisturbed
  <2>7. Stands(q, mode)'
    BY <2>1, <2>2, <2>3, <2>4, <2>5, <2>6 DEF Stands, Modes, Undisturbed, KeepsFor
  <2>8. Live(q)' /\ Stacked(runs'[q]) BY <1>1 DEF Live, Placed, Undisturbed
  <2> QED BY <2>7, <2>8 DEF Placed
<1>2. CASE ~Live(q)
  <2>1. ~Live(q)' BY <1>2 DEF Live, Undisturbed
  <2>2. Nowhere(q) BY <1>2 DEF Placed
  <2>3. Nowhere(q)' BY <2>2 DEF Nowhere, Undisturbed, KeepsFor
  <2> QED BY <2>1, <2>3 DEF Placed
<1> QED BY <1>1, <1>2

(* Where a run is known to go on, it goes on nowhere else.                  *)
LEMMA Whereabouts ==
  ASSUME NEW r, IInv, r \in Runs
  PROVE  /\ ~Off(timers, r) => Live(r) /\ Stands(r, "timer")
         /\ \A wait \in waits : wait.run = r => Live(r) /\ Stands(r, "wait")
         /\ r \in requests => Live(r) /\ Stands(r, "request")
         /\ active.run = r => Live(r) /\ Stands(r, "task")
         /\ Live(r) /\ runs[r].parallelCount > 0 => Stands(r, "branches")
         /\ Live(r) => runs[r] \in RunType /\ Stacked(runs[r])
<1>1. Placed(r) BY DEF IInv
<1>2. Live(r) => runs[r] \in RunType /\ Stacked(runs[r]) BY <1>1 DEF IInv, Types, Live, Placed
<1>3. CASE Live(r)
  <2>1. PICK mode \in Modes : Stands(r, mode) BY <1>1, <1>3 DEF Placed
  <2> QED BY <1>2, <1>3, <2>1 DEF Stands, Modes
<1>4. CASE ~Live(r) BY <1>1, <1>4 DEF Placed, Nowhere
<1> QED BY <1>3, <1>4

(* As long as nobody is born, dies or waits for branches anew.              *)
LEMMA FamiliesStay ==
  ASSUME Families, Types,
         \A q \in Runs : /\ runs'[q] = None <=> runs[q] = None
                         /\ runs[q] # None => /\ runs'[q].live = runs[q].live
                                              /\ runs'[q].parent = runs[q].parent
                                              /\ runs'[q].parallelCount = runs[q].parallelCount
  PROVE  Families'
<1>1. \A q \in Runs : Live(q)' <=> Live(q) BY DEF Live
<1>2. \A q \in Runs : Live(q) => runs'[q].parent = runs[q].parent BY DEF Live
<1>3. \A p : Branches(p)' = Branches(p) BY <1>1, <1>2 DEF Branches
<1>4. \A p \in Runs : IsFiniteSet(Branches(p)') /\ (runs'[p] # None => runs'[p].parallelCount = Cardinality(Branches(p)'))
  BY <1>3 DEF Families
<1>5. \A r \in Runs : Live(r)' /\ runs'[r].parent # None => Live(r) /\ runs[r].parent # None /\ runs'[r].parent = runs[r].parent
  BY <1>1, <1>2
<1>6. \A r \in Runs : Live(r)' /\ runs'[r].parent # None =>
        runs'[runs'[r].parent] # None /\ runs'[runs'[r].parent].live
  <2> SUFFICES ASSUME NEW r \in Runs, Live(r)', runs'[r].parent # None
               PROVE  runs'[runs'[r].parent] # None /\ runs'[runs'[r].parent].live
    OBVIOUS
  <2>1. Live(runs[r].parent) /\ runs'[r].parent = runs[r].parent BY <1>5 DEF Families
  <2>2. runs[r].parent \in Runs BY <1>5 DEF Types, Live, RunType
  <2> QED BY <2>1, <2>2, <1>1 DEF Live
<1> QED BY <1>4, <1>6 DEF Families, Live

-------------------------------------------------------------------------------
(* A run that is left with calls goes on at the timer of the last of them.  *)
LEMMA LeavesFacts ==
  ASSUME NEW r, NEW run, NEW others, NEW made,
         r \in Runs, Types, others \in Seq(ComingType), Off(others, r),
         Proceeds(run, made), Leaves(others, r, made)
  PROVE  /\ runs' \in [Runs -> RunType \union {None}] /\ timers' \in Seq(ComingType)
         /\ runs'[r] = made.run /\ \A q \in Runs : q # r => runs'[q] = runs[q]
         /\ InTimer(r)'
         /\ \A q : q # r => KeepsFor(others, timers', q)
         /\ \A i \in DOMAIN others : \E k \in DOMAIN timers' : timers'[k] = others[i]
         /\ Locking(run.stack) =>
              Locking(made.run.stack) \/ \E k \in DOMAIN timers' : timers'[k].call.do = "unlock"
<1> DEFINE us == For(r, made.calls)
           last == made.calls[Len(made.calls)]
<1>1. /\ made.run \in RunType /\ made.calls \in Seq(CallType) /\ Len(made.calls) > 0
      /\ \A i \in 1..Len(made.calls) - 1 : made.calls[i].do = "unlock"
      /\ last.by = "script" /\ Ready(last, made.run) /\ last.do # "unlock"
  BY DEF Proceeds, Ready
<1>2. /\ us \in Seq(ComingType) /\ Comes(us, r, last) /\ \A q : q # r => Off(us, q)
      /\ \A i \in DOMAIN made.calls : i \in DOMAIN us /\ us[i].call = made.calls[i]
  BY <1>1, ForComes
<1>3. runs' = [runs EXCEPT ![r] = made.run] /\ timers' = others \o us BY DEF Leaves
<1>4. /\ runs' \in [Runs -> RunType \union {None}] /\ runs'[r] = made.run
      /\ \A q \in Runs : q # r => runs'[q] = runs[q]
  BY <1>1, <1>3 DEF Types
<1> HIDE DEF us, last
<1>5. /\ timers' \in Seq(ComingType)
      /\ \A i \in DOMAIN others : i \in DOMAIN timers' /\ timers'[i] = others[i]
      /\ \A i \in DOMAIN us : Len(others) + i \in DOMAIN timers' /\ timers'[Len(others) + i] = us[i]
  BY <1>2, <1>3, ConcatFacts
<1>6. Comes(timers', r, last) BY <1>2, <1>3, ConcatComes
<1>7. \A q : q # r => KeepsFor(others, timers', q) BY <1>2, <1>3, ConcatKeeps
<1>8. last \in {timers'[i].call : i \in DOMAIN timers'} BY <1>6 DEF Comes
<1>9. InTimer(r)' BY <1>1, <1>4, <1>6, <1>8 DEF InTimer
<1>10. Locking(run.stack) =>
         Locking(made.run.stack) \/ \E k \in DOMAIN timers' : timers'[k].call.do = "unlock"
  <2>1. \A i \in DOMAIN made.calls : made.calls[i].do = "unlock" =>
          \E k \in DOMAIN timers' : timers'[k].call.do = "unlock"
    BY <1>2, <1>5
  <2> QED BY <2>1 DEF Proceeds
<1> QED BY <1>4, <1>5, <1>7, <1>9, <1>10

(* Of the steps that leave a run so: it was at one place, which is left.    *)
Elsewhere(r, others) ==
  /\ others \in Seq(ComingType) /\ Off(others, r) /\ \A wait \in waits : wait.run # r
  /\ \A q \in Runs : q # r => KeepsFor(timers, others, q)
  /\ \A i \in DOMAIN timers : timers[i].call.do = "unlock" =>
       \E k \in DOMAIN others : others[k].call.do = "unlock"

LEMMA RunLeaves ==
  ASSUME NEW r, NEW others, NEW made,
         r \in Runs, IInv, Live(r), runs[r].parallelCount = 0, Elsewhere(r, others),
         Proceeds(runs[r], made), Leaves(others, r, made),
         waits' = waits, requests' = requests \ {r},
         active' = IF active.run = r THEN Idle ELSE active,
         locked' \in LockType, locked' = "script" => locked = "script" \/ Locking(made.run.stack)
  PROVE  IInv'
<1>1. Types /\ Families /\ LockIsOwned /\ \A q \in Runs : Placed(q) BY DEF IInv
<1>2. None \notin Runs \union RunType BY ScriptAssumption
<1>3. /\ runs' \in [Runs -> RunType \union {None}] /\ timers' \in Seq(ComingType)
      /\ runs'[r] = made.run /\ \A q \in Runs : q # r => runs'[q] = runs[q]
      /\ InTimer(r)'
      /\ \A q : q # r => KeepsFor(others, timers', q)
      /\ \A i \in DOMAIN others : \E k \in DOMAIN timers' : timers'[k] = others[i]
      /\ Locking(runs[r].stack) =>
           Locking(made.run.stack) \/ \E k \in DOMAIN timers' : timers'[k].call.do = "unlock"
  BY <1>1, LeavesFacts DEF Elsewhere
<1>4. /\ made.run \in RunType /\ Stacked(made.run) /\ made.run # None /\ made.run.live = runs[r].live
      /\ made.run.parent = runs[r].parent /\ made.run.parallelCount = runs[r].parallelCount
  BY <1>2 DEF Proceeds
<1>5. Live(r)' BY <1>3, <1>4 DEF Live
<1>6. Types' BY <1>1, <1>3 DEF Types
<1>7. Families'
  <2>1. \A q \in Runs : /\ runs'[q] = None <=> runs[q] = None
                        /\ runs[q] # None => /\ runs'[q].live = runs[q].live
                                             /\ runs'[q].parent = runs[q].parent
                                             /\ runs'[q].parallelCount = runs[q].parallelCount
    BY <1>3, <1>4 DEF Live
  <2> QED BY <1>1, <2>1, FamiliesStay
<1>8. LockIsOwned'
  <2>1. ASSUME NEW i \in DOMAIN timers, timers[i].call.do = "unlock"
        PROVE  \E k \in DOMAIN timers' : timers'[k].call.do = "unlock"
    BY <1>3, <2>1 DEF Elsewhere
  <2>2. Locking(made.run.stack) => \E q \in {p \in Runs : Live(p)'} :
          \E frame \in ToSet(runs'[q].stack) : frame.call.do = "unlock"
    BY <1>3, <1>5 DEF Locking, ToSet
  <2>3. ASSUME NEW q \in Runs, Live(q), NEW frame \in ToSet(runs[q].stack), frame.call.do = "unlock"
        PROVE  \/ \E k \in DOMAIN timers' : timers'[k].call.do = "unlock"
               \/ \E p \in {p \in Runs : Live(p)'} :
                    \E f \in ToSet(runs'[p].stack) : f.call.do = "unlock"
    <3>1. CASE q = r
      <4>1. Locking(runs[r].stack) BY <2>3, <3>1 DEF Locking, ToSet
      <4> QED BY <4>1, <1>3, <2>2
    <3>2. CASE q # r BY <1>3, <2>3, <3>2 DEF Live
    <3> QED BY <3>1, <3>2
  <2> QED BY <1>1, <2>1, <2>2, <2>3 DEF LockIsOwned
<1>9. ASSUME NEW q \in Runs, q # r PROVE Placed(q)'
  <2>1. KeepsFor(timers, timers', q) BY <1>3, <1>9 DEF Elsewhere, KeepsFor
  <2>2. Undisturbed(q) BY <1>2, <1>3, <1>9, <2>1 DEF Undisturbed, Idle
  <2> QED BY <1>1, <2>2, PlacedStays
<1>10. Placed(r)'
  <2>1. \A wait \in waits' : wait.run # r BY DEF Elsewhere
  <2>2. r \notin requests' /\ active'.run # r BY <1>2 DEF Idle
  <2>3. runs'[r].parallelCount = 0 BY <1>3, <1>4
  <2>4. Stands(r, "timer")' BY <1>3, <2>1, <2>2, <2>3 DEF Stands
  <2>5. "timer" \in Modes BY DEF Modes
  <2> QED BY <1>3, <1>4, <1>5, <2>4, <2>5 DEF Placed
<1> QED BY <1>6, <1>7, <1>8, <1>9, <1>10 DEF IInv

LEMMA LockStays ==
  ASSUME LockIsOwned, locked' = "script" => locked = "script",
         \A i \in DOMAIN timers : timers[i].call.do = "unlock" =>
           \E k \in DOMAIN timers' : timers'[k].call.do = "unlock",
         \A q \in Runs : Live(q) /\ Locking(runs[q].stack) => Live(q)' /\ runs'[q].stack = runs[q].stack
  PROVE  LockIsOwned'
<1>1. ASSUME NEW q \in Runs, Live(q), NEW frame \in ToSet(runs[q].stack), frame.call.do = "unlock"
      PROVE  \E p \in {p \in Runs : Live(p)'} : \E f \in ToSet(runs'[p].stack) : f.call.do = "unlock"
  <2>1. Locking(runs[q].stack) BY <1>1 DEF Locking, ToSet
  <2> QED BY <1>1, <2>1
<1> QED BY <1>1 DEF LockIsOwned

(* Of the steps that lock the screen for no script.                         *)
LockKept == locked' \in LockType /\ (locked' = "script" => locked = "script")

LEMMA SameLock ==
  ASSUME IInv, locked' = locked
  PROVE  LockKept
BY DEF IInv, Types, LockKept

(* A run whose stack stays as it is goes on at another place.               *)
LEMMA RunMoves ==
  ASSUME NEW r, NEW run, NEW mode,
         r \in Runs, IInv, Live(r), mode \in Modes,
         runs' = [runs EXCEPT ![r] = run], run \in RunType, run.stack = runs[r].stack,
         run.script = runs[r].script, run.live = runs[r].live, run.parent = runs[r].parent,
         run.parallelCount = runs[r].parallelCount,
         timers' \in Seq(ComingType), waits' \subseteq ComingType, requests' \subseteq Runs,
         active' \in ComingType \union {Idle}, LockKept,
         \A i \in DOMAIN timers : timers[i].call.do = "unlock" =>
           \E k \in DOMAIN timers' : timers'[k].call.do = "unlock",
         \A q \in Runs : q # r => Undisturbed(q),
         Stands(r, mode)'
  PROVE  IInv'
<1>1. Types /\ Families /\ LockIsOwned /\ \A q \in Runs : Placed(q) BY DEF IInv
<1>2. runs'[r] = run /\ run # None /\ \A q \in Runs : q # r => runs'[q] = runs[q]
  BY <1>1, ScriptAssumption DEF Types
<1>3. Types' BY <1>1, <1>2 DEF Types, LockKept
<1>4. Live(r)' BY <1>2 DEF Live
<1>5. Families'
  <2>1. \A q \in Runs : /\ runs'[q] = None <=> runs[q] = None
                        /\ runs[q] # None => /\ runs'[q].live = runs[q].live
                                             /\ runs'[q].parent = runs[q].parent
                                             /\ runs'[q].parallelCount = runs[q].parallelCount
    BY <1>2 DEF Live
  <2> QED BY <1>1, <2>1, FamiliesStay
<1>6. LockIsOwned'
  <2>1. \A q \in Runs : Live(q) => Live(q)' /\ runs'[q].stack = runs[q].stack
    BY <1>2, <1>4 DEF Live
  <2> QED BY <1>1, <2>1, LockStays DEF LockKept
<1>7. \A q \in Runs : q # r => Placed(q)' BY <1>1, PlacedStays
<1>8. Stacked(runs'[r]) BY <1>1, <1>2 DEF Stacked, Placed
<1>9. Placed(r)' BY <1>4, <1>8 DEF Placed
<1> QED BY <1>3, <1>5, <1>6, <1>7, <1>9 DEF IInv

LEMMA SameKeeps == \A ts, q : KeepsFor(ts, ts, q)
BY DEF KeepsFor

-------------------------------------------------------------------------------
(* A timer fires for the only place where its run goes on.                  *)
LEMMA AtTheTimer ==
  ASSUME IInv, timers # <<>>, Head(timers).call.do # "unlock"
  PROVE  LET r == Head(timers).run
             call == Head(timers).call
         IN  /\ r \in Runs /\ Live(r) /\ runs[r] \in RunType /\ Stacked(runs[r])
             /\ call \in CallType /\ call.by = "script" /\ Ready(call, runs[r])
             /\ Elsewhere(r, Tail(timers)) /\ r \notin requests
             /\ runs[r].parallelCount = 0
<1> DEFINE first == Head(timers)
           r == first.run
           call == first.call
<1>1. timers \in Seq(ComingType) /\ first = timers[1] /\ 1 \in DOMAIN timers BY DEF IInv, Types
<1>2. r \in Runs /\ call \in CallType
  <2> HIDE DEF first
  <2>1. first \in ComingType BY <1>1
  <2> QED BY <2>1 DEF ComingType
<1>3. Hit(first, r) BY DEF Hit
<1>4. ~Off(timers, r) BY <1>1, <1>3 DEF Off
<1>5. Live(r) /\ Stands(r, "timer") /\ runs[r] \in RunType /\ Stacked(runs[r])
  BY <1>2, <1>4, Whereabouts
<1>6. PICK c : Comes(timers, r, c) /\ c.by = "script" /\ Ready(c, runs[r])
  BY <1>5 DEF Stands, InTimer
<1>7. Off(Tail(timers), r) /\ call = c BY <1>1, <1>3, <1>6, TailEmpties
<1>8. \A q \in Runs : q # r => KeepsFor(timers, Tail(timers), q)
  <2> SUFFICES ASSUME NEW q \in Runs, q # r PROVE KeepsFor(timers, Tail(timers), q) OBVIOUS
  <2>1. ~Hit(first, q) BY DEF Hit
  <2> QED BY <1>1, <2>1, TailKeeps
<1>9. \A i \in DOMAIN timers : timers[i].call.do = "unlock" =>
        \E k \in DOMAIN Tail(timers) : Tail(timers)[k].call.do = "unlock"
  <2> SUFFICES ASSUME NEW i \in DOMAIN timers, timers[i].call.do = "unlock"
               PROVE  \E k \in DOMAIN Tail(timers) : Tail(timers)[k].call.do = "unlock"
    OBVIOUS
  <2>1. i # 1 BY <1>1
  <2>2. i - 1 \in DOMAIN Tail(timers) /\ Tail(timers)[i - 1] = timers[i] BY <1>1, <2>1
  <2> QED BY <2>2
<1>10. Tail(timers) \in Seq(ComingType) BY <1>1
<1> QED BY <1>2, <1>5, <1>6, <1>7, <1>8, <1>9, <1>10 DEF Stands, Elsewhere

(* The end of a run: of a branch, its parent hears.                         *)
LEMMA EndsKeeps ==
  ASSUME NEW r, IInv, r \in Runs, Live(r), runs[r].stack = <<>>,
         Elsewhere(r, Tail(timers)), r \notin requests, runs[r].parallelCount = 0,
         active = Idle, waits' = waits, requests' = requests, locked' = locked,
         timers' = Tail(timers), Ends(r)
  PROVE  IInv'
<1>0. PICK p : p = runs[r].parent OBVIOUS
<1>1. Types /\ Families /\ LockIsOwned /\ \A q \in Runs : Placed(q) BY DEF IInv
<1>2. None \notin Runs \union RunType /\ Idle.run = None /\ active.run = None
  BY ScriptAssumption DEF Idle
<1>3. runs[r] \in RunType /\ p \in Runs \union {None}
  BY <1>0, <1>1 DEF Types, Live, RunType
<1>4. /\ Removed(runs[r]) \in RunType /\ ~Removed(runs[r]).live /\ Removed(runs[r]) # None
      /\ Removed(runs[r]).parallelCount = 0
  BY <1>2, <1>3 DEF Removed, RunType
<1>5. /\ timers' \in Seq(ComingType) /\ Off(timers', r) /\ \A wait \in waits : wait.run # r
      /\ \A q \in Runs : q # r => KeepsFor(timers, timers', q)
      /\ \A i \in DOMAIN timers : timers[i].call.do = "unlock" =>
           \E k \in DOMAIN timers' : timers'[k].call.do = "unlock"
  BY DEF Elsewhere
<1>6. \A q \in Runs : Live(q) => runs[q].parent # r
  <2>1. Cardinality(Branches(r)) = 0 /\ IsFiniteSet(Branches(r)) BY <1>1, <1>2, <1>3 DEF Families
  <2>2. Branches(r) = {} BY <2>1, FS_EmptySet
  <2> QED BY <2>2 DEF Branches
<1>7. p # r BY <1>0, <1>6
<1>8. ~Locking(runs[r].stack) BY DEF Locking
<1>9. CASE p = None
  <2>1. runs' = [runs EXCEPT ![r] = Removed(runs[r])] /\ active' = active BY <1>0, <1>9 DEF Ends
  <2>2. runs'[r] = Removed(runs[r]) /\ \A q \in Runs : q # r => runs'[q] = runs[q] BY <1>1, <2>1 DEF Types
  <2>3. Types' BY <1>1, <1>4, <1>5, <2>1 DEF Types
  <2>4. ~Live(r)' /\ \A q \in Runs : q # r => (Live(q)' <=> Live(q)) BY <1>4, <2>2 DEF Live
  <2>5. \A q \in Runs : Branches(q)' = Branches(q)
    BY <1>0, <1>2, <1>9, <2>2, <2>4 DEF Branches
  <2>6. Families'
    <3>1. \A q \in Runs : IsFiniteSet(Branches(q)')
                          /\ (runs'[q] # None => runs'[q].parallelCount = Cardinality(Branches(q)'))
      BY <1>1, <1>2, <1>3, <1>4, <2>2, <2>5 DEF Families
    <3>2. \A q \in Runs : Live(q)' /\ runs'[q].parent # None =>
            runs'[runs'[q].parent] # None /\ runs'[runs'[q].parent].live
      <4> SUFFICES ASSUME NEW q \in Runs, Live(q)', runs'[q].parent # None
                   PROVE  runs'[runs'[q].parent] # None /\ runs'[runs'[q].parent].live
        OBVIOUS
      <4>1. q # r /\ Live(q) /\ runs'[q] = runs[q] BY <2>2, <2>4
      <4>2. Live(runs[q].parent) /\ runs[q].parent # r BY <1>1, <1>6, <4>1 DEF Families
      <4>3. runs[q].parent \in Runs BY <1>1, <4>1 DEF Types, Live, RunType
      <4> QED BY <2>2, <4>1, <4>2, <4>3 DEF Live
    <3> QED BY <3>1, <3>2 DEF Families, Live
  <2>7. LockIsOwned'
    <3>1. \A q \in Runs : Live(q) /\ Locking(runs[q].stack) => Live(q)' /\ runs'[q].stack = runs[q].stack
      BY <1>8, <2>2, <2>4
    <3> QED BY <1>1, <1>5, <3>1, LockStays
  <2>8. Placed(r)'
    <3>1. active'.run # r /\ r \notin requests' BY <1>2, <2>1
    <3> QED BY <1>5, <2>4, <3>1 DEF Placed, Nowhere
  <2>9. ASSUME NEW q \in Runs, q # r PROVE Placed(q)'
    <3>1. Undisturbed(q) BY <1>5, <2>1, <2>2, <2>9 DEF Undisturbed
    <3> QED BY <1>1, <3>1, PlacedStays
  <2> QED BY <2>3, <2>6, <2>7, <2>8, <2>9 DEF IInv
<1>10. CASE p # None
  <2>1. p \in Runs /\ Live(p) BY <1>0, <1>1, <1>3, <1>10 DEF Families
  <2>2. r \in Branches(p) /\ IsFiniteSet(Branches(p)) /\ runs[p].parallelCount = Cardinality(Branches(p))
    BY <1>0, <1>1, <2>1 DEF Families, Branches, Live
  <2>3. runs[p] \in RunType BY <1>1, <2>1 DEF Types, Live
  <2>4. /\ Cardinality(Branches(p)) \in Nat \ {0}
        /\ Cardinality(Branches(p) \ {r}) = Cardinality(Branches(p)) - 1
        /\ IsFiniteSet(Branches(p) \ {r})
    BY <2>2, FS_RemoveElement, FS_CardinalityType, FS_EmptySet
  <2>5. Stands(p, "branches") BY <1>1, <2>1, <2>2, <2>4, Whereabouts
  <2> DEFINE other == [runs[p] EXCEPT !.parallelCount = @ - 1]
  <2>8. /\ other \in RunType /\ other # None /\ other.parallelCount = runs[p].parallelCount - 1
        /\ other.stack = runs[p].stack /\ other.script = runs[p].script
        /\ other.live = runs[p].live /\ other.parent = runs[p].parent
        /\ other.currentTask = runs[p].currentTask
    BY <1>2, <2>2, <2>3, <2>4 DEF RunType
  <2>6. runs' = [runs EXCEPT ![r] = Removed(@), ![p].parallelCount = @ - 1] BY <1>0, <1>10 DEF Ends
  <2>7. runs' \in [Runs -> RunType \union {None}]
        /\ runs'[r] = Removed(runs[r]) /\ runs'[p] = other
        /\ \A q \in Runs : q # r /\ q # p => runs'[q] = runs[q]
    BY <1>1, <1>4, <1>7, <2>1, <2>6, <2>8 DEF Types
  <2>9. ~Live(r)' /\ \A q \in Runs : q # r => (Live(q)' <=> Live(q))
    BY <1>2, <1>4, <1>7, <2>1, <2>7, <2>8 DEF Live
  <2>10. \A q \in Runs : q # r => runs'[q].parent = runs[q].parent BY <2>7, <2>8
  <2>11. Branches(p)' = Branches(p) \ {r} BY <1>0, <2>9, <2>10 DEF Branches
  <2>12. \A q \in Runs : q # p => Branches(q)' = Branches(q) BY <1>0, <2>9, <2>10 DEF Branches
  <2>13. Families'
    <3>1. ASSUME NEW q \in Runs
          PROVE  IsFiniteSet(Branches(q)')
                 /\ (runs'[q] # None => runs'[q].parallelCount = Cardinality(Branches(q)'))
      <4>1. CASE q = p BY <2>2, <2>4, <2>7, <2>8, <2>11, <4>1
      <4>2. CASE q = r BY <1>1, <1>2, <1>3, <1>4, <1>7, <2>7, <2>12, <4>2 DEF Families
      <4>3. CASE q # r /\ q # p BY <1>1, <2>7, <2>12, <4>3 DEF Families
      <4> QED BY <4>1, <4>2, <4>3
    <3>2. \A q \in Runs : Live(q)' /\ runs'[q].parent # None =>
            runs'[runs'[q].parent] # None /\ runs'[runs'[q].parent].live
      <4> SUFFICES ASSUME NEW q \in Runs, Live(q)', runs'[q].parent # None
                   PROVE  runs'[runs'[q].parent] # None /\ runs'[runs'[q].parent].live
        OBVIOUS
      <4>1. q # r /\ Live(q) /\ runs'[q].parent = runs[q].parent BY <2>9, <2>10
      <4>2. Live(runs[q].parent) /\ runs[q].parent # r BY <1>1, <1>6, <4>1 DEF Families
      <4>3. runs[q].parent \in Runs BY <1>1, <4>1 DEF Types, Live, RunType
      <4> QED BY <2>9, <4>1, <4>2, <4>3 DEF Live
    <3> QED BY <3>1, <3>2 DEF Families, Live
  <2>14. LockIsOwned'
    <3>1. \A q \in Runs : Live(q) /\ Locking(runs[q].stack) => Live(q)' /\ runs'[q].stack = runs[q].stack
      BY <1>8, <2>7, <2>8, <2>9
    <3> QED BY <1>1, <1>5, <3>1, LockStays
  <2>15. /\ \A i \in DOMAIN timers' : ~Hit(timers'[i], p)
         /\ (\A wait \in waits : wait.run # p) /\ p \notin requests
         /\ runs[p].currentTask.do = "tasks" /\ runs[p].currentTask.by = "script"
         /\ Ready(runs[p].currentTask, runs[p]) /\ runs[p].currentTask \in CallType
    BY <1>5, <1>7, <2>1, <2>3, <2>5 DEF Stands, InBranches, KeepsFor, Off, RunType
  <2>16. Live(p)' /\ Stacked(runs'[p])
    BY <1>1, <1>7, <2>1, <2>7, <2>8, <2>9 DEF Placed, Stacked
  <2> DEFINE next == [runs[p].currentTask EXCEPT !.at = @ + 1]
  <2>17. /\ next \in CallType /\ next.do = "tasks" /\ next.by = "script" /\ Ready(next, runs'[p])
    BY <2>7, <2>8, <2>15 DEF CallType, Ready, Fits
  <2> HIDE DEF next, other
  <2>18. CASE runs[p].parallelCount = 1
    <3>1. active' = [run |-> p, call |-> next] BY <1>0, <1>10, <2>18 DEF Ends, next
    <3>2. active' \in ComingType /\ active'.run = p /\ active'.call = next
      BY <2>1, <2>17, <3>1 DEF ComingType
    <3>3. InTask(p)' BY <2>17, <3>2 DEF InTask
    <3>4. Stands(p, "task")' BY <2>7, <2>8, <2>15, <2>18, <3>3 DEF Stands, Off
    <3>5. "task" \in Modes BY DEF Modes
    <3>6. Placed(p)' BY <2>16, <3>4, <3>5 DEF Placed
    <3>7. Types' BY <1>1, <1>5, <2>7, <3>2 DEF Types
    <3>8. ASSUME NEW q \in Runs, q # r, q # p PROVE Placed(q)'
      <4>1. Undisturbed(q) BY <1>2, <1>5, <2>7, <3>2, <3>8 DEF Undisturbed
      <4> QED BY <1>1, <4>1, PlacedStays
    <3>9. Placed(r)'
      <4>1. active'.run # r /\ r \notin requests' BY <1>7, <3>2
      <4> QED BY <1>5, <2>9, <4>1 DEF Placed, Nowhere
    <3> QED BY <2>13, <2>14, <3>6, <3>7, <3>8, <3>9 DEF IInv
  <2>19. CASE runs[p].parallelCount # 1
    <3>1. active' = active BY <1>0, <1>10, <2>19 DEF Ends
    <3>2. runs'[p].parallelCount > 0 /\ runs'[p].currentTask = runs[p].currentTask
      BY <2>2, <2>4, <2>7, <2>8, <2>19
    <3>3. runs'[p].stack = runs[p].stack /\ runs'[p].script = runs[p].script BY <2>7, <2>8
    <3>4. Ready(runs[p].currentTask, runs'[p]) BY <2>15, <3>3 DEF Ready
    <3>5. InBranches(p)' BY <2>15, <3>2, <3>4 DEF InBranches
    <3>6. Stands(p, "branches")' BY <1>2, <2>1, <2>15, <3>1, <3>5 DEF Stands, Off
    <3>7. "branches" \in Modes BY DEF Modes
    <3>8. Placed(p)' BY <2>16, <3>6, <3>7 DEF Placed
    <3>9. Types' BY <1>1, <1>5, <2>7, <3>1 DEF Types
    <3>10. ASSUME NEW q \in Runs, q # r, q # p PROVE Placed(q)'
      <4>1. Undisturbed(q) BY <1>5, <2>7, <3>1, <3>10 DEF Undisturbed
      <4> QED BY <1>1, <4>1, PlacedStays
    <3>11. Placed(r)'
      <4>1. active'.run # r /\ r \notin requests' BY <1>2, <3>1
      <4> QED BY <1>5, <2>9, <4>1 DEF Placed, Nowhere
    <3> QED BY <2>13, <2>14, <3>8, <3>9, <3>10, <3>11 DEF IInv
  <2> QED BY <2>18, <2>19
<1> QED BY <1>9, <1>10

(* A timer fires.                                                           *)
LEMMA FireKeeps ==
  ASSUME Ordinary, IInv, Fire
  PROVE  IInv'
<1>1. Types /\ Families /\ LockIsOwned /\ \A q \in Runs : Placed(q) BY DEF IInv
<1>2. active = Idle /\ timers # <<>> /\ waits' = waits BY DEF Fire
<1>3. timers \in Seq(ComingType) /\ Tail(timers) \in Seq(ComingType) /\ locked \in LockType
  BY <1>1, <1>2 DEF Types
<1>4. None \notin Runs /\ Idle.run = None BY ScriptAssumption DEF Idle
<1>5. PICK r, call : r = Head(timers).run /\ call = Head(timers).call OBVIOUS
<1>6. CASE call.do = "unlock" /\ locked' = "no" /\ timers' = Tail(timers)
           /\ UNCHANGED <<runs, requests, active, log>>
  <2>1. Types' BY <1>1, <1>2, <1>3, <1>6 DEF Types, LockType
  <2>2. Families' BY <1>1, <1>6, FamiliesStay
  <2>3. LockIsOwned' BY <1>6 DEF LockIsOwned
  <2>4. ASSUME NEW q \in Runs PROVE Placed(q)'
    <3>1. ~Hit(Head(timers), q) BY <1>5, <1>6 DEF Hit
    <3>2. KeepsFor(timers, timers', q) BY <1>2, <1>3, <1>6, <3>1, TailKeeps
    <3>3. Undisturbed(q) BY <1>2, <1>6, <3>2 DEF Undisturbed
    <3> QED BY <1>1, <3>3, PlacedStays
  <2> QED BY <2>1, <2>2, <2>3, <2>4 DEF IInv
<1>7. ASSUME call.do # "unlock"
      PROVE  /\ r \in Runs /\ Live(r) /\ runs[r] \in RunType /\ Stacked(runs[r])
             /\ call \in CallType /\ call.by = "script" /\ Ready(call, runs[r])
             /\ Elsewhere(r, Tail(timers)) /\ r \notin requests
             /\ runs[r].parallelCount = 0 /\ active.run # r
  BY <1>2, <1>4, <1>5, <1>7, AtTheTimer
<1>8. ASSUME call.do # "unlock", call.do # "ends" PROVE runs[r].stack # <<>>
  BY <1>7, <1>8 DEF Ready
<1>9. ASSUME NEW made, call.do # "unlock", Proceeds(runs[r], made), Leaves(Tail(timers), r, made),
             requests' = requests, active' = active, locked' = locked
      PROVE  IInv'
  <2>1. requests' = requests \ {r} BY <1>7, <1>9
  <2>2. active' = IF active.run = r THEN Idle ELSE active BY <1>7, <1>9
  <2>3. locked' \in LockType /\ (locked' = "script" => locked = "script" \/ Locking(made.run.stack)) BY <1>3, <1>9
  <2> QED BY <1>2, <1>7, <1>9, <2>1, <2>2, <2>3, RunLeaves
<1>10. CASE call.do = "ends" /\ Ends(r) /\ timers' = Tail(timers) /\ UNCHANGED <<requests, locked>>
  BY <1>2, <1>7, <1>10, EndsKeeps DEF Ready
<1>11. CASE call.do = "params" /\ Leaves(Tail(timers), r, PopAndCall(runs[r]))
            /\ UNCHANGED <<requests, active, locked, log>>
  <2>1. Proceeds(runs[r], PopAndCall(runs[r])) BY <1>7, <1>8, <1>11, PopAndCallProceeds
  <2> QED BY <1>9, <1>11, <2>1
<1>12. CASE call.do = "execute" /\ ExecuteTEScript(Tail(timers), r)
            /\ UNCHANGED <<active, locked, log>>
  <2>1. CASE Script[runs[r].script].actionType = "SERVERACTION"
    <3>1. requests' = requests \union {r} /\ timers' = Tail(timers) /\ runs' = runs
      BY <1>12, <2>1 DEF ExecuteTEScript
    <3>2. \A q \in Runs : q # r => Undisturbed(q)
      BY <1>2, <1>7, <1>12, <3>1 DEF Undisturbed, Elsewhere
    <3>3. InRequest(r)' BY <1>8, <1>12, <2>1, <3>1 DEF InRequest
    <3>4. Stands(r, "request")'
      BY <1>2, <1>7, <1>12, <3>1, <3>3 DEF Stands, Elsewhere
    <3>5. "request" \in Modes BY DEF Modes
    <3>6. runs' = [runs EXCEPT ![r] = runs[r]] BY <1>1, <3>1 DEF Types
    <3>7. /\ timers' \in Seq(ComingType) /\ waits' \subseteq ComingType /\ requests' \subseteq Runs
          /\ active' \in ComingType \union {Idle} /\ locked' = locked
      BY <1>1, <1>2, <1>3, <1>7, <1>12, <3>1 DEF Types
    <3>8. \A i \in DOMAIN timers : timers[i].call.do = "unlock" =>
            \E k \in DOMAIN timers' : timers'[k].call.do = "unlock"
      BY <1>7, <1>12, <3>1 DEF Elsewhere
    <3> QED BY <1>7, <1>12, <3>2, <3>4, <3>5, <3>6, <3>7, <3>8, RunMoves, SameLock
  <2>2. CASE Script[runs[r].script].actionType # "SERVERACTION"
    <3>1. PICK f \in FollowOnActions(runs[r], 1) :
            /\ Leaves(Tail(timers), r, IF f.thrown THEN ExitAction(runs[r]) ELSE f.made)
            /\ requests' = requests
      BY <1>12, <2>2 DEF ExecuteTEScript
    <3>2. f.thrown \in BOOLEAN /\ (~f.thrown => Proceeds(runs[r], f.made))
      BY <1>7, <1>8, <1>12, FollowOnProceeds
    <3>3. Proceeds(runs[r], ExitAction(runs[r]))
      BY <1>7, <1>8, <1>12, PopToAndCallProceeds DEF ExitAction
    <3>4. Proceeds(runs[r], IF f.thrown THEN ExitAction(runs[r]) ELSE f.made) BY <3>2, <3>3
    <3> QED BY <1>9, <1>12, <3>1, <3>4
  <2> QED BY <2>1, <2>2
<1>13. CASE call.do = "followOn"
            /\ (\E f \in FollowOnActions(runs[r], call.at) : Leaves(Tail(timers), r, f.made))
            /\ UNCHANGED <<requests, active, locked, log>>
  <2>1. PICK f \in FollowOnActions(runs[r], call.at) : Leaves(Tail(timers), r, f.made) BY <1>13
  <2>2. call.at \in Nat \ {0} /\ call.at # 1 BY <1>7, <1>13 DEF Ready, Fits, CallType
  <2>3. Proceeds(runs[r], f.made) BY <1>7, <1>8, <1>13, <2>2, FollowOnProceeds
  <2> QED BY <1>9, <1>13, <2>1, <2>3
<1>14. CASE call.do = "tasks" /\ active' = Head(timers) /\ timers' = Tail(timers)
            /\ UNCHANGED <<runs, requests, locked, log>>
  <2>1. active'.run = r /\ active'.call = call /\ active' \in ComingType
    BY <1>2, <1>3, <1>5, <1>14
  <2>2. \A q \in Runs : q # r => Undisturbed(q)
    BY <1>2, <1>4, <1>7, <1>14, <2>1 DEF Undisturbed, Elsewhere
  <2>3. InTask(r)' BY <1>7, <1>14, <2>1 DEF InTask
  <2>4. Stands(r, "task")' BY <1>2, <1>7, <1>14, <2>3 DEF Stands, Elsewhere
  <2>5. "task" \in Modes BY DEF Modes
  <2>6. runs' = [runs EXCEPT ![r] = runs[r]] BY <1>1, <1>14 DEF Types
  <2>7. /\ timers' \in Seq(ComingType) /\ waits' \subseteq ComingType /\ requests' \subseteq Runs
        /\ active' \in ComingType \union {Idle} /\ locked' = locked
    BY <1>1, <1>2, <1>3, <1>14, <2>1 DEF Types
  <2>8. \A i \in DOMAIN timers : timers[i].call.do = "unlock" =>
          \E k \in DOMAIN timers' : timers'[k].call.do = "unlock"
    BY <1>7, <1>14 DEF Elsewhere
  <2> QED BY <1>7, <1>14, <2>2, <2>4, <2>5, <2>6, <2>7, <2>8, RunMoves, SameLock
<1> QED BY <1>5, <1>6, <1>10, <1>11, <1>12, <1>13, <1>14 DEF Fire

LEMMA AnsweredKeeps ==
  ASSUME NEW r, Ordinary, IInv, r \in Runs, Answered(r)
  PROVE  IInv'
<1>1. Types BY DEF IInv
<1>2. /\ active = Idle /\ r \in requests /\ requests' = requests \ {r}
      /\ waits' = waits /\ active' = active /\ locked' = locked
  BY DEF Answered
<1>3. None \notin Runs /\ Idle.run = None BY ScriptAssumption DEF Idle
<1>4. Live(r) /\ Stands(r, "request") /\ runs[r] \in RunType /\ Stacked(runs[r])
  BY <1>2, Whereabouts
<1>5. Off(timers, r) /\ (\A wait \in waits : wait.run # r) /\ InRequest(r) /\ runs[r].parallelCount = 0
  BY <1>4 DEF Stands
<1>6. Elsewhere(r, timers) BY <1>1, <1>5, SameKeeps DEF Elsewhere, Types
<1>11. PICK outcome \in Outcomes : \E f \in Handled(runs[r], outcome) : Leaves(timers, r, f.made)
  BY DEF Answered
<1>7. PICK f \in Handled(runs[r], outcome) : Leaves(timers, r, f.made) BY <1>11
<1>8. Proceeds(runs[r], f.made) BY <1>4, <1>5, HandledProceeds DEF InRequest
<1>9. locked' \in LockType /\ (locked' = "script" => locked = "script" \/ Locking(f.made.run.stack)) BY <1>1, <1>2 DEF Types
<1>10. active' = IF active.run = r THEN Idle ELSE active BY <1>2, <1>3
<1> QED BY <1>2, <1>4, <1>5, <1>6, <1>7, <1>8, <1>9, <1>10, RunLeaves

LEMMA WaitEndsKeeps ==
  ASSUME NEW wait, IInv, wait \in waits, WaitEnds(wait)
  PROVE  IInv'
<1>1. Types BY DEF IInv
<1>2. /\ active = Idle /\ active' = wait /\ waits' = waits \ {wait}
      /\ runs' = runs /\ timers' = timers /\ requests' = requests /\ locked' = locked
  BY DEF WaitEnds
<1>3. None \notin Runs /\ Idle.run = None BY ScriptAssumption DEF Idle
<1>4. wait \in ComingType /\ wait.run \in Runs BY <1>1 DEF Types, ComingType
<1>5. PICK r \in Runs : r = wait.run BY <1>4
<1>6. Live(r) /\ Stands(r, "wait") /\ runs[r] \in RunType BY <1>5, Whereabouts
<1>7. /\ wait.call.do = "tasks" /\ wait.call.by = "stack"
      /\ Ready(wait.call, runs[r]) /\ Behind(wait.call, 0)
      /\ \A other \in waits : other.run = r => other = wait
  BY <1>5, <1>6 DEF Stands, InWait
<1>8. /\ Off(timers, r) /\ r \notin requests /\ runs[r].parallelCount = 0 BY <1>6 DEF Stands
<1>9. \A q \in Runs : q # r => Undisturbed(q)
  BY <1>2, <1>3, <1>5, SameKeeps DEF Undisturbed
<1>10. Behind(wait.call, runs[r].taskListRepeatCount) BY <1>7 DEF Behind
<1>11. InTask(r)' BY <1>2, <1>5, <1>7, <1>10 DEF InTask
<1>12. Stands(r, "task")' BY <1>2, <1>7, <1>8, <1>11 DEF Stands
<1>13. "task" \in Modes BY DEF Modes
<1>14. runs' = [runs EXCEPT ![r] = runs[r]] BY <1>1, <1>2 DEF Types
<1>15. /\ timers' \in Seq(ComingType) /\ waits' \subseteq ComingType /\ requests' \subseteq Runs
       /\ active' \in ComingType \union {Idle}
  BY <1>1, <1>2, <1>4 DEF Types
<1>16. \A i \in DOMAIN timers : timers[i].call.do = "unlock" =>
         \E k \in DOMAIN timers' : timers'[k].call.do = "unlock"
  BY <1>2
<1> QED BY <1>2, <1>6, <1>9, <1>12, <1>13, <1>14, <1>15, <1>16, RunMoves, SameLock

LEMMA UnlockKeeps ==
  ASSUME IInv, Unlock
  PROVE  IInv'
<1>1. Types /\ Families /\ \A q \in Runs : Placed(q) BY DEF IInv
<1>2. locked' = "no" /\ UNCHANGED <<runs, timers, waits, requests, active, log>> BY DEF Unlock
<1>3. Types' BY <1>1, <1>2 DEF Types, LockType
<1>4. Families' BY <1>1, <1>2, FamiliesStay
<1>5. LockIsOwned' BY <1>2 DEF LockIsOwned
<1>6. ASSUME NEW q \in Runs PROVE Placed(q)'
  <2>1. Undisturbed(q) BY <1>2, SameKeeps DEF Undisturbed
  <2> QED BY <1>1, <2>1, PlacedStays
<1> QED BY <1>3, <1>4, <1>5, <1>6 DEF IInv

(* A run before its first call.                                             *)
LEMMA NewRunFacts ==
  ASSUME NEW script, NEW parent, script \in DOMAIN Script, parent \in Runs \union {None}
  PROVE  LET run == NewRun(script, parent) IN
           /\ run \in RunType /\ Stacked(run) /\ run.stack = <<>> /\ run.live
           /\ run.parent = parent /\ run.parallelCount = 0
           /\ PushFits(run, Call("ends"), "") /\ Call("ends").do # "unlock"
<1> DEFINE run == NewRun(script, parent)
<1>1. <<>> \in Seq(FrameType) /\ DOMAIN <<>> = {} OBVIOUS
<1>2. /\ run \in RunType /\ run.stack = <<>> /\ run.live /\ run.parent = parent /\ run.parallelCount = 0
  BY <1>1, CallKinds DEF NewRun, RunType
<1> HIDE DEF run
<1>3. Stacked(run) BY <1>1, <1>2 DEF Stacked
<1>4. PushFits(run, Call("ends"), "") /\ Call("ends").do # "unlock"
  BY <1>2, CallKinds DEF PushFits
<1> QED BY <1>2, <1>3, <1>4 DEF run

(* A script is started on a new run.                                        *)
Launched(script, parent, run, made) ==
  run = NewRun(script, parent) /\ made = Entered(run, script, Call("ends"), "", "action")

(* It proceeds, with its parameters first.                                  *)
LEMMA StartProceeds ==
  ASSUME NEW script, NEW parent, NEW run, NEW made,
         script \in DOMAIN Script, parent \in Runs \union {None}, Launched(script, parent, run, made)
  PROVE  /\ Proceeds(run, made) /\ made.calls = <<Call("params")>>
         /\ made.run \in RunType /\ Stacked(made.run) /\ made.run.live
         /\ made.run.parent = parent /\ made.run.parallelCount = 0
         /\ Script[script].lockScreen /\ locked = "no" => Locking(made.run.stack)
<1>0. run = NewRun(script, parent) /\ made = Entered(run, script, Call("ends"), "", "action") BY DEF Launched
<1>1. /\ run \in RunType /\ Stacked(run) /\ run.stack = <<>> /\ run.live
      /\ run.parent = parent /\ run.parallelCount = 0
      /\ PushFits(run, Call("ends"), "") /\ Call("ends").do # "unlock"
  BY <1>0, NewRunFacts
<1>2. None \notin DOMAIN Script /\ "action" \in {"action", "actionHead"} BY ScriptAssumption
<1>3. LET one == Entered(run, script, Call("ends"), "", "action") IN
        /\ Proceeds(run, one) /\ one.calls = <<Call("params")>>
        /\ Script[script].lockScreen /\ locked = "no" => Locking(one.run.stack)
  BY <1>1, <1>2, EnteredProceeds
<1>4. /\ Proceeds(run, made) /\ made.calls = <<Call("params")>>
      /\ Script[script].lockScreen /\ locked = "no" => Locking(made.run.stack)
  BY <1>0, <1>3
<1> QED BY <1>0, <1>1, <1>4 DEF Proceeds

(* The user starts a script.                                                *)
LEMMA CallActionKeeps ==
  ASSUME NEW r, IInv, r \in Runs, CallAction(r)
  PROVE  IInv'
<1>1. Types /\ Families /\ LockIsOwned /\ \A q \in Runs : Placed(q) BY DEF IInv
<1>2. None \notin Runs \union RunType /\ Idle.run = None BY ScriptAssumption DEF Idle
<1>3. PICK script : script = Started[r] OBVIOUS
<1>4. script \in DOMAIN Script /\ Script[script].lockScreen \in BOOLEAN
  BY <1>3, ScriptAssumption DEF CallAction
<1>5. PICK run, made : run = NewRun(script, None) /\ made = Entered(run, script, Call("ends"), "", "action")
  OBVIOUS
<1>6. /\ Proceeds(run, made) /\ made.run \in RunType /\ Stacked(made.run) /\ made.run.live
      /\ made.run.parent = None /\ made.run.parallelCount = 0
      /\ Script[script].lockScreen /\ locked = "no" => Locking(made.run.stack)
  <2>1. Launched(script, None, run, made) BY <1>5 DEF Launched
  <2>2. None \in Runs \union {None} OBVIOUS
  <2> QED BY <1>4, <2>1, <2>2, StartProceeds
<1>7. /\ active = Idle /\ runs[r] = None /\ Leaves(timers, r, made)
      /\ locked' = IF Script[script].lockScreen /\ locked = "no" THEN "script" ELSE locked
      /\ waits' = waits /\ requests' = requests /\ active' = active
  BY <1>3, <1>5 DEF CallAction, Locks
<1>8. ~Live(r) /\ Off(timers, r) /\ (\A wait \in waits : wait.run # r) /\ r \notin requests
  BY <1>1, <1>7 DEF Placed, Nowhere, Live
<1>9. timers \in Seq(ComingType) BY <1>1 DEF Types
<1>10. /\ runs' \in [Runs -> RunType \union {None}] /\ timers' \in Seq(ComingType)
       /\ runs'[r] = made.run /\ \A q \in Runs : q # r => runs'[q] = runs[q]
       /\ InTimer(r)'
       /\ \A q : q # r => KeepsFor(timers, timers', q)
       /\ \A i \in DOMAIN timers : \E k \in DOMAIN timers' : timers'[k] = timers[i]
  BY <1>1, <1>6, <1>7, <1>8, <1>9, LeavesFacts
<1>11. Live(r)' /\ \A q \in Runs : q # r => (Live(q)' <=> Live(q))
  BY <1>2, <1>6, <1>10 DEF Live
<1>12. Types' BY <1>1, <1>4, <1>7, <1>10 DEF Types, LockType
<1>13. Families'
  <2>1. \A q \in Runs : Branches(q)' = Branches(q)
    BY <1>2, <1>6, <1>8, <1>10, <1>11 DEF Branches
  <2>2. \A q \in Runs : Live(q) => runs[q].parent # r BY <1>1, <1>2, <1>8 DEF Families
  <2>3. Branches(r) = {} BY <2>2 DEF Branches
  <2>4. \A q \in Runs : IsFiniteSet(Branches(q)')
                        /\ (runs'[q] # None => runs'[q].parallelCount = Cardinality(Branches(q)'))
    <3>1. Cardinality(Branches(r)) = 0 BY <2>3, FS_EmptySet
    <3> QED BY <1>1, <1>6, <1>10, <2>1, <3>1 DEF Families
  <2>5. \A q \in Runs : Live(q)' /\ runs'[q].parent # None =>
          runs'[runs'[q].parent] # None /\ runs'[runs'[q].parent].live
    <3> SUFFICES ASSUME NEW q \in Runs, Live(q)', runs'[q].parent # None
                 PROVE  runs'[runs'[q].parent] # None /\ runs'[runs'[q].parent].live
      OBVIOUS
    <3>1. q # r /\ Live(q) /\ runs'[q] = runs[q] BY <1>6, <1>10, <1>11
    <3>2. Live(runs[q].parent) /\ runs[q].parent # r BY <1>1, <2>2, <3>1 DEF Families
    <3>3. runs[q].parent \in Runs BY <1>1, <3>1 DEF Types, Live, RunType
    <3> QED BY <1>10, <3>1, <3>2, <3>3 DEF Live
  <2> QED BY <2>4, <2>5 DEF Families, Live
<1>14. LockIsOwned'
  <2>1. CASE locked = "script"
    <3>1. CASE \E i \in DOMAIN timers : timers[i].call.do = "unlock"
      <4>1. \E i \in DOMAIN timers' : timers'[i].call.do = "unlock" BY <1>10, <3>1
      <4> QED BY <4>1 DEF LockIsOwned
    <3>2. CASE \E q \in {q \in Runs : Live(q)} : \E frame \in ToSet(runs[q].stack) : frame.call.do = "unlock"
      <4>1. PICK q \in Runs : Live(q) /\ \E frame \in ToSet(runs[q].stack) : frame.call.do = "unlock"
        BY <3>2
      <4>2. q # r /\ Live(q)' /\ runs'[q] = runs[q] BY <1>8, <1>10, <1>11, <4>1
      <4> QED BY <4>1, <4>2 DEF LockIsOwned
    <3> QED BY <1>1, <2>1, <3>1, <3>2 DEF LockIsOwned
  <2>2. CASE locked # "script"
    <3>1. SUFFICES ASSUME locked' = "script" PROVE LockIsOwned' BY DEF LockIsOwned
    <3>2. Script[script].lockScreen /\ locked = "no" BY <1>7, <2>2, <3>1
    <3>3. Locking(runs'[r].stack) BY <1>6, <1>10, <2>2, <3>2
    <3>4. \E frame \in ToSet(runs'[r].stack) : frame.call.do = "unlock" BY <3>3 DEF Locking, ToSet
    <3> QED BY <1>11, <3>4 DEF LockIsOwned
  <2> QED BY <2>1, <2>2
<1>15. ASSUME NEW q \in Runs, q # r PROVE Placed(q)'
  <2>1. Undisturbed(q) BY <1>7, <1>10, <1>15 DEF Undisturbed
  <2> QED BY <1>1, <2>1, PlacedStays
<1>16. Placed(r)'
  <2>1. active'.run # r /\ runs'[r].parallelCount = 0 BY <1>2, <1>6, <1>7, <1>10
  <2>2. Stands(r, "timer")' BY <1>7, <1>8, <1>10, <2>1 DEF Stands
  <2>3. "timer" \in Modes BY DEF Modes
  <2> QED BY <1>6, <1>10, <1>11, <2>2, <2>3 DEF Placed
<1> QED BY <1>12, <1>13, <1>14, <1>15, <1>16 DEF IInv

-------------------------------------------------------------------------------
(* The task that is active, the only place where its run goes on.           *)
LEMMA AtTheTask ==
  ASSUME NEW r, NEW call, IInv, r = active.run, call = active.call, r # None
  PROVE  /\ r \in Runs /\ Live(r) /\ runs[r] \in RunType /\ Stacked(runs[r])
         /\ runs[r].stack # <<>> /\ runs[r].script \in DOMAIN Script
         /\ call \in CallType /\ call.do = "tasks" /\ call.list \in Nat \ {0} /\ call.at \in Nat \ {0}
         /\ call.of \in GroupsOf[runs[r].script] /\ call.of \in DOMAIN Group
         /\ call.by = "stack" => Behind(call, runs[r].taskListRepeatCount)
         /\ active = [run |-> r, call |-> call]
         /\ Elsewhere(r, timers) /\ r \notin requests /\ runs[r].parallelCount = 0
<1>1. Types BY DEF IInv
<1>2. active \in ComingType /\ active.run = r BY <1>1 DEF Types, Idle
<1>3. r \in Runs /\ call \in CallType /\ active = [run |-> r, call |-> call] BY <1>2 DEF ComingType
<1>4. Live(r) /\ Stands(r, "task") /\ runs[r] \in RunType /\ Stacked(runs[r]) BY <1>3, Whereabouts
<1>5. InTask(r) /\ Off(timers, r) /\ (\A wait \in waits : wait.run # r) /\ r \notin requests
      /\ runs[r].parallelCount = 0
  BY <1>4 DEF Stands
<1>6. call.do = "tasks" /\ Ready(call, runs[r])
      /\ (call.by = "stack" => Behind(call, runs[r].taskListRepeatCount))
  BY <1>5 DEF InTask
<1>7. runs[r].stack # <<>> /\ runs[r].script \in DOMAIN Script BY <1>4, <1>6 DEF Ready, Stacked
<1>8. call.of \in GroupsOf[runs[r].script] /\ call.list \in Nat \ {0} /\ call.at \in Nat \ {0}
  BY <1>3, <1>6 DEF Ready, Fits, CallType
<1>9. call.of \in DOMAIN Group BY <1>7, <1>8, ScriptAssumption
<1>10. Elsewhere(r, timers) BY <1>1, <1>5, SameKeeps DEF Elsewhere, Types
<1> QED BY <1>3, <1>4, <1>5, <1>6, <1>7, <1>8, <1>9, <1>10

LEMMA PlaceFacts ==
  ASSUME IInv, active.run # None
  PROVE  LET script == runs[active.run].script IN
           /\ Here \in CallType /\ Here.do = "tasks" /\ Here.by = "script" /\ Fits(Here, script)
           /\ Here.of = active.call.of /\ Here.list = active.call.list /\ Here.at = active.call.at
           /\ After \in CallType /\ After.do = "tasks" /\ After.by = "script" /\ Fits(After, script)
           /\ After.of = active.call.of /\ After.list = active.call.list /\ After.at = active.call.at + 1
<1>1. PICK r, call : r = active.run /\ call = active.call OBVIOUS
<1>2. /\ call.list \in Nat \ {0} /\ call.at \in Nat \ {0}
      /\ call.of \in GroupsOf[runs[r].script] /\ call.of \in DOMAIN Group
  BY <1>1, AtTheTask
<1>3. Here \in CallType /\ Here.do = "tasks" /\ Here.by = "script"
      /\ Here.of = call.of /\ Here.list = call.list /\ Here.at = call.at
  BY <1>1, <1>2, CallKinds DEF Here
<1>4. After = [Here EXCEPT !.at = @ + 1] BY DEF After
<1>5. PICK here, after : here = Here /\ after = After OBVIOUS
<1>6. after \in CallType /\ after.do = "tasks" /\ after.by = "script"
      /\ after.of = call.of /\ after.list = call.list /\ after.at = call.at + 1
  BY <1>3, <1>4, <1>5 DEF CallType
<1>7. Fits(here, runs[r].script) /\ Fits(after, runs[r].script) BY <1>2, <1>3, <1>5, <1>6 DEF Fits
<1> QED BY <1>1, <1>3, <1>5, <1>6, <1>7

LEMMA TaskFacts ==
  ASSUME IInv, AtTask
  PROVE  LET name == TaskList.tasks[active.call.at] IN
           /\ active.run # None /\ Task = Group[name]
           /\ name \in DOMAIN Group /\ name \in GroupsOf[runs[active.run].script]
           /\ active.call.list \in DOMAIN Lists /\ active.call.at \in DOMAIN TaskList.tasks
           /\ TaskList.repeat \in Nat /\ TaskList.repeat > runs[active.run].taskListRepeatCount
<1>1. PICK r, call : r = active.run /\ call = active.call OBVIOUS
<1>2. /\ r # None /\ call.list <= Len(Lists) /\ TaskList.repeat > runs[r].taskListRepeatCount
      /\ call.at <= Len(TaskList.tasks)
  BY <1>1 DEF AtTask, InList, R
<1>3. /\ call.list \in Nat \ {0} /\ call.at \in Nat \ {0} /\ runs[r].script \in DOMAIN Script
      /\ call.of \in GroupsOf[runs[r].script] /\ call.of \in DOMAIN Group
  BY <1>1, <1>2, AtTheTask
<1>4. Lists = Group[call.of].taskList /\ TaskList = Lists[call.list] BY <1>1 DEF Lists, TaskList
<1>5. Lists \in Seq([repeat: Nat, tasks: Seq(DOMAIN Group)]) BY <1>3, <1>4, ScriptAssumption
<1>6. call.list \in DOMAIN Lists BY <1>2, <1>3, <1>5
<1>7. TaskList \in [repeat: Nat, tasks: Seq(DOMAIN Group)]
  <2> DEFINE ListType == [repeat: Nat, tasks: Seq(DOMAIN Group)]
  <2>1. Lists \in Seq(ListType) BY <1>5
  <2> HIDE DEF ListType
  <2>2. Lists[call.list] \in ListType BY <1>6, <2>1
  <2> QED BY <1>4, <2>2 DEF ListType
<1>8. TaskList.repeat \in Nat /\ TaskList.tasks \in Seq(DOMAIN Group) BY <1>7
<1>9. call.at \in DOMAIN TaskList.tasks BY <1>2, <1>3, <1>8
<1>10. TaskList.tasks \in Seq(GroupsOf[runs[r].script]) BY <1>3, <1>4, <1>6, ScriptAssumption
<1>11. TaskList.tasks[call.at] \in GroupsOf[runs[r].script] BY <1>9, <1>10
<1>12. TaskList.tasks[call.at] \in DOMAIN Group BY <1>8, <1>9
<1>13. Task = Group[TaskList.tasks[call.at]] BY <1>1 DEF Task
<1> QED BY <1>1, <1>2, <1>6, <1>8, <1>9, <1>11, <1>12, <1>13

(* A task list that is left with calls.                                     *)
LEMMA BreakKeeps ==
  ASSUME NEW r, NEW made,
         IInv, r = active.run, r # None, Proceeds(runs[r], made), BreakTaskList(made),
         waits' = waits, requests' = requests,
         locked' \in LockType, locked' = "script" => locked = "script" \/ Locking(made.run.stack)
  PROVE  IInv'
<1>1. PICK call, here : call = active.call /\ here = Here OBVIOUS
<1>2. /\ r \in Runs /\ Live(r) /\ Elsewhere(r, timers) /\ r \notin requests /\ runs[r].parallelCount = 0
  BY <1>1, AtTheTask
<1>3. here \in CallType BY <1>1, PlaceFacts
<1>4. PICK there : there = [made EXCEPT !.run = [@ EXCEPT !.currentTask = here]] OBVIOUS
<1>5. Proceeds(runs[r], there) /\ there.run.stack = made.run.stack BY <1>3, <1>4, AtProceeds
<1>6. active' = Idle /\ Leaves(timers, r, there) BY <1>1, <1>4 DEF BreakTaskList, R, At
<1>7. requests' = requests \ {r} /\ active' = IF active.run = r THEN Idle ELSE active BY <1>2, <1>6
<1>8. locked' = "script" => locked = "script" \/ Locking(there.run.stack) BY <1>5
<1> QED BY <1>2, <1>5, <1>6, <1>7, <1>8, RunLeaves

(* A task list that goes on.                                                *)
GoesOnWith(r, run, next) ==
  /\ runs' = [runs EXCEPT ![r] = run]
  /\ run \in RunType /\ run.stack = runs[r].stack /\ run.script = runs[r].script
  /\ run.live = runs[r].live /\ run.parent = runs[r].parent
  /\ run.parallelCount = runs[r].parallelCount
  /\ active' = [active EXCEPT !.call = next] /\ next \in CallType
  /\ next.do = "tasks" /\ next.by = active.call.by /\ next.of = active.call.of
  /\ next.list > 0 /\ next.at > 0
  /\ next.by = "stack" => Behind(next, run.taskListRepeatCount)
  /\ UNCHANGED <<timers, waits, requests>> /\ LockKept

LEMMA GoesOnKeeps ==
  ASSUME NEW r, NEW run, NEW next, IInv, r = active.run, r # None, GoesOnWith(r, run, next)
  PROVE  IInv'
<1> USE DEF GoesOnWith
<1>1. PICK call : call = active.call OBVIOUS
<1>2. /\ r \in Runs /\ Live(r) /\ Elsewhere(r, timers) /\ r \notin requests /\ runs[r].parallelCount = 0
      /\ runs[r].stack # <<>> /\ call.of \in GroupsOf[runs[r].script]
      /\ active = [run |-> r, call |-> call]
  BY <1>1, AtTheTask
<1>3. Types BY DEF IInv
<1>4. active' = [run |-> r, call |-> next] BY <1>2
<1>5. active' \in ComingType /\ active'.run = r /\ active'.call = next BY <1>2, <1>4 DEF ComingType
<1>6. runs'[r] = run /\ \A q \in Runs : q # r => runs'[q] = runs[q] BY <1>2, <1>3 DEF Types
<1>7. Ready(next, run) BY <1>1, <1>2 DEF Ready, Fits
<1>8. InTask(r)' BY <1>5, <1>6, <1>7 DEF InTask
<1>9. Stands(r, "task")' BY <1>2, <1>6, <1>8 DEF Stands, Elsewhere
<1>10. "task" \in Modes BY DEF Modes
<1>11. \A q \in Runs : q # r => Undisturbed(q) BY <1>5, <1>6, SameKeeps DEF Undisturbed
<1>12. /\ timers' \in Seq(ComingType) /\ waits' \subseteq ComingType /\ requests' \subseteq Runs
       /\ active' \in ComingType \union {Idle}
  BY <1>3, <1>5 DEF Types
<1>13. \A i \in DOMAIN timers : timers[i].call.do = "unlock" =>
         \E k \in DOMAIN timers' : timers'[k].call.do = "unlock"
  OBVIOUS
<1> QED BY <1>2, <1>9, <1>10, <1>11, <1>12, <1>13, RunMoves

LEMMA WaitPlaces ==
  ASSUME NEW g, NEW p, g \in DOMAIN Group, p \in WaitsOf(g)
  PROVE  /\ p[1] \in DOMAIN Group[g].taskList /\ p[2] \in DOMAIN Group[g].taskList[p[1]].tasks
         /\ p[1] \in Nat /\ p[2] \in Nat
<1> DEFINE lists == Group[g].taskList
           ListType == [repeat: Nat, tasks: Seq(DOMAIN Group)]
<1>1. PICK l \in DOMAIN lists : p \in {l} \X DOMAIN lists[l].tasks BY DEF WaitsOf
<1>2. p[1] = l /\ p[2] \in DOMAIN lists[l].tasks BY <1>1
<1>3. lists \in Seq(ListType) BY ScriptAssumption
<1>4. lists[l] \in ListType
  <2> HIDE DEF lists, ListType
  <2> QED BY <1>1, <1>3
<1>5. lists[l].tasks \in Seq(DOMAIN Group) BY <1>4
<1> HIDE DEF lists, ListType
<1>6. l \in Nat /\ p[2] \in Nat BY <1>1, <1>2, <1>3, <1>5
<1> QED BY <1>1, <1>2, <1>6 DEF lists

LEMMA EndOfListKeeps ==
  ASSUME IInv, EndOfList, UNCHANGED <<waits, requests, locked, log>>
  PROVE  IInv'
<1>1. PICK r, call : r = active.run /\ call = active.call OBVIOUS
<1>2. r # None BY <1>1 DEF EndOfList, InList
<1>3. /\ r \in Runs /\ Live(r) /\ runs[r] \in RunType /\ Stacked(runs[r]) /\ runs[r].stack # <<>>
      /\ call \in CallType /\ call.do = "tasks" /\ call.list \in Nat \ {0} /\ call.at \in Nat \ {0}
      /\ call.of \in DOMAIN Group
      /\ call.by = "stack" => Behind(call, runs[r].taskListRepeatCount)
  BY <1>1, <1>2, AtTheTask
<1>4. runs \in [Runs -> RunType \union {None}] /\ locked \in LockType BY DEF IInv, Types
<1>5. runs[r].taskListRepeatCount \in Nat BY <1>3, RunFields
<1>9. LockKept BY SameLock
<1>6. CASE /\ runs' = [runs EXCEPT ![R].taskListRepeatCount = @ + 1]
           /\ GoesOn([active.call EXCEPT !.at = 1]) /\ timers' = timers
  <2>1. PICK run, next : /\ run = [runs[r] EXCEPT !.taskListRepeatCount = @ + 1]
                         /\ next = [call EXCEPT !.at = 1]
    OBVIOUS
  <2>2. runs' = [runs EXCEPT ![r] = run] /\ active' = [active EXCEPT !.call = next]
    BY <1>1, <1>3, <1>4, <1>6, <2>1 DEF R, GoesOn
  <2>3. /\ run \in RunType /\ run.stack = runs[r].stack /\ run.script = runs[r].script
        /\ run.live = runs[r].live /\ run.parent = runs[r].parent
        /\ run.parallelCount = runs[r].parallelCount
        /\ run.taskListRepeatCount = runs[r].taskListRepeatCount + 1
    BY <1>3, <1>5, <2>1 DEF RunType
  <2>4. /\ next \in CallType /\ next.do = "tasks" /\ next.by = call.by /\ next.of = call.of
        /\ next.list = call.list /\ next.at = 1
    BY <1>3, <2>1 DEF CallType
  <2>5. next.by = "stack" => Behind(next, run.taskListRepeatCount)
    BY <1>3, <1>5, <2>3, <2>4 DEF Behind
  <2>6. next.list > 0 /\ next.at > 0 BY <1>3, <2>4
  <2>7. GoesOnWith(r, run, next)
    BY <1>1, <1>6, <1>9, <2>2, <2>3, <2>4, <2>5, <2>6 DEF GoesOnWith
  <2> QED BY <1>1, <1>2, <2>7, GoesOnKeeps
<1>7. CASE /\ runs' = [runs EXCEPT ![R].taskListRepeatCount = 0]
           /\ GoesOn([active.call EXCEPT !.list = @ + 1]) /\ timers' = timers
  <2>1. PICK run, next : /\ run = [runs[r] EXCEPT !.taskListRepeatCount = 0]
                         /\ next = [call EXCEPT !.list = @ + 1]
    OBVIOUS
  <2>2. runs' = [runs EXCEPT ![r] = run] /\ active' = [active EXCEPT !.call = next]
    BY <1>1, <1>3, <1>4, <1>7, <2>1 DEF R, GoesOn
  <2>3. /\ run \in RunType /\ run.stack = runs[r].stack /\ run.script = runs[r].script
        /\ run.live = runs[r].live /\ run.parent = runs[r].parent
        /\ run.parallelCount = runs[r].parallelCount
    BY <1>3, <2>1 DEF RunType
  <2>4. /\ next \in CallType /\ next.do = "tasks" /\ next.by = call.by /\ next.of = call.of
        /\ next.list = call.list + 1 /\ next.at = call.at
    BY <1>3, <2>1 DEF CallType
  <2>5. next.by = "stack" => Behind(next, run.taskListRepeatCount)
    <3> SUFFICES ASSUME next.by = "stack", NEW p \in WaitsOf(next.of) PROVE p[1] < next.list
      BY <1>3, <2>4 DEF Behind
    <3>1. p[1] < call.list \/ p[1] = call.list BY <1>3, <2>4 DEF Behind
    <3>2. call.list \in Nat BY <1>3
    <3>3. p[1] \in Nat BY <1>3, <2>4, WaitPlaces
    <3> QED BY <2>4, <3>1, <3>2, <3>3
  <2>6. next.list > 0 /\ next.at > 0 BY <1>3, <2>4
  <2>7. GoesOnWith(r, run, next)
    BY <1>1, <1>7, <1>9, <2>2, <2>3, <2>4, <2>5, <2>6 DEF GoesOnWith
  <2> QED BY <1>1, <1>2, <2>7, GoesOnKeeps
<1>8. CASE active' = Idle /\ Leaves(timers, R, PopAndCall(runs[R]))
  <2>1. PICK made : made = PopAndCall(runs[r]) OBVIOUS
  <2>2. Proceeds(runs[r], made) BY <1>3, <2>1, PopAndCallProceeds
  <2>3. Leaves(timers, r, made) BY <1>1, <1>8, <2>1 DEF R
  <2>4. Elsewhere(r, timers) /\ r \notin requests /\ runs[r].parallelCount = 0
    BY <1>1, <1>2, AtTheTask
  <2>5. requests' = requests \ {r} /\ active' = IF active.run = r THEN Idle ELSE active
    BY <1>1, <1>8, <2>4
  <2> QED BY <1>3, <1>4, <2>2, <2>3, <2>4, <2>5, RunLeaves
<1> QED BY <1>6, <1>7, <1>8 DEF EndOfList

(* After a task that did its work at once, or a group that is passed over.  *)
LEMMA NextTaskKeeps ==
  ASSUME IInv, active.run # None,
         runs' = [runs EXCEPT ![R] = At(@)], GoesOn([active.call EXCEPT !.at = @ + 1]),
         timers' = timers, waits' = waits, requests' = requests, LockKept
  PROVE  IInv'
<1>1. PICK r, call : r = active.run /\ call = active.call OBVIOUS
<1>2. /\ r \in Runs /\ Live(r) /\ runs[r] \in RunType
      /\ call \in CallType /\ call.do = "tasks" /\ call.list \in Nat \ {0} /\ call.at \in Nat \ {0}
      /\ call.of \in DOMAIN Group
      /\ call.by = "stack" => Behind(call, runs[r].taskListRepeatCount)
  BY <1>1, AtTheTask
<1>3. PICK run, next : run = At(runs[r]) /\ next = [call EXCEPT !.at = @ + 1] OBVIOUS
<1>4. Here \in CallType BY PlaceFacts
<1>5. runs' = [runs EXCEPT ![r] = run] /\ active' = [active EXCEPT !.call = next]
  BY <1>1, <1>3 DEF R, GoesOn
<1>6. /\ run \in RunType /\ run.stack = runs[r].stack /\ run.script = runs[r].script
      /\ run.live = runs[r].live /\ run.parent = runs[r].parent
      /\ run.parallelCount = runs[r].parallelCount
      /\ run.taskListRepeatCount = runs[r].taskListRepeatCount
  BY <1>2, <1>3, <1>4 DEF RunType, At
<1>7. /\ next \in CallType /\ next.do = "tasks" /\ next.by = call.by /\ next.of = call.of
      /\ next.list = call.list /\ next.at = call.at + 1
  BY <1>2, <1>3 DEF CallType
<1>8. next.by = "stack" => Behind(next, run.taskListRepeatCount)
  <2> SUFFICES ASSUME next.by = "stack", NEW p \in WaitsOf(next.of),
                      ~(p[1] < next.list)
               PROVE  p[1] = next.list /\ (p[2] < next.at \/ runs[r].taskListRepeatCount >= 1)
    BY <1>2, <1>6, <1>7 DEF Behind
  <2>1. p[1] = call.list /\ (p[2] < call.at \/ runs[r].taskListRepeatCount >= 1)
    BY <1>2, <1>7 DEF Behind
  <2>2. call.at \in Nat BY <1>2
  <2>3. p[2] \in Nat BY <1>2, <1>7, WaitPlaces
  <2> QED BY <1>7, <2>1, <2>2, <2>3
<1>9. next.list > 0 /\ next.at > 0 BY <1>2, <1>7
<1>10. GoesOnWith(r, run, next) BY <1>1, <1>5, <1>6, <1>7, <1>8, <1>9 DEF GoesOnWith
<1> QED BY <1>1, <1>10, GoesOnKeeps

(* A task list that is left for what the stack has.                         *)
LEMMA BreakUnlocked ==
  ASSUME NEW r, NEW made, IInv, r = active.run, r # None, Proceeds(runs[r], made),
         BreakTaskList(made), UNCHANGED <<waits, requests, locked>>
  PROVE  IInv'
<1>1. locked' \in LockType BY DEF IInv, Types
<1> QED BY <1>1, BreakKeeps

LEMMA StepKeeps ==
  ASSUME IInv, AtTask, Step
  PROVE  IInv'
<1>1. active.run # None BY TaskFacts
<1>2. UNCHANGED <<waits, requests, locked>> BY DEF Step
<1>3. CASE /\ runs' = [runs EXCEPT ![R] = At(@)] /\ GoesOn([active.call EXCEPT !.at = @ + 1])
           /\ UNCHANGED timers
  BY <1>1, <1>2, <1>3, NextTaskKeeps, SameLock
<1>4. CASE BreakTaskList(ExitAction(runs[R]))
  <2>1. PICK r, made : r = active.run /\ made = ExitAction(runs[r]) OBVIOUS
  <2>2. runs[r] \in RunType /\ Stacked(runs[r]) /\ runs[r].stack # <<>> BY <1>1, <2>1, AtTheTask
  <2>3. Proceeds(runs[r], made) BY <2>1, <2>2, PopToAndCallProceeds DEF ExitAction
  <2>4. BreakTaskList(made) BY <1>4, <2>1 DEF R
  <2> QED BY <1>1, <1>2, <2>1, <2>3, <2>4, BreakUnlocked
<1> QED BY <1>3, <1>4 DEF Step, TaskDone

(* What locks the screen for no script, and what unlocks it.                *)
LEMMA LockTasksKeep ==
  ASSUME IInv, AtTask, LockScreen \/ UnlockScreen
  PROVE  IInv'
<1>1. active.run # None BY TaskFacts
<1>2. TaskDone /\ UNCHANGED <<waits, requests>> BY DEF LockScreen, UnlockScreen
<1>3. locked \in LockType BY DEF IInv, Types
<1>4. LockKept BY <1>3 DEF LockScreen, UnlockScreen, LockKept, LockType
<1> QED BY <1>1, <1>2, <1>4, NextTaskKeeps DEF TaskDone

LEMMA IfNotKeeps ==
  ASSUME IInv, AtTask, IfNot
  PROVE  IInv'
<1>1. active.run # None BY TaskFacts
<1>2. UNCHANGED <<waits, requests, locked>> BY DEF IfNot
<1>3. CASE /\ runs' = [runs EXCEPT ![R] = At(@)] /\ GoesOn([active.call EXCEPT !.at = @ + 1])
           /\ UNCHANGED timers
  BY <1>1, <1>2, <1>3, NextTaskKeeps, SameLock
<1>4. CASE BreakTaskList(ExitAction(runs[R]))
  <2>1. PICK r, made : r = active.run /\ made = ExitAction(runs[r]) OBVIOUS
  <2>2. runs[r] \in RunType /\ Stacked(runs[r]) /\ runs[r].stack # <<>> BY <1>1, <2>1, AtTheTask
  <2>3. Proceeds(runs[r], made) BY <2>1, <2>2, PopToAndCallProceeds DEF ExitAction
  <2>4. BreakTaskList(made) BY <1>4, <2>1 DEF R
  <2> QED BY <1>1, <1>2, <2>1, <2>3, <2>4, BreakUnlocked
<1> QED BY <1>3, <1>4 DEF IfNot

LEMMA TaskGroupKeeps ==
  ASSUME IInv, AtTask, TaskGroup
  PROVE  IInv'
<1>1. PICK r, call, name, first, after :
        /\ r = active.run /\ call = active.call /\ name = TaskList.tasks[active.call.at]
        /\ first = Tasks(name, 1, 1) /\ after = After
  OBVIOUS
<1>2. r # None /\ name \in DOMAIN Group /\ name \in GroupsOf[runs[r].script] BY <1>1, TaskFacts
<1>3. runs[r] \in RunType /\ Stacked(runs[r]) /\ runs[r].stack # <<>> BY <1>1, <1>2, AtTheTask
<1>4. after \in CallType /\ after.do = "tasks" /\ after.by = "script" /\ Fits(after, runs[r].script)
  BY <1>1, <1>2, PlaceFacts
<1>5. PushFits(runs[r], after, "taskGroup") BY <1>3, <1>4 DEF PushFits
<1>6. first \in CallType /\ first.do = "tasks" /\ first.by = "script" /\ Fits(first, runs[r].script)
  BY <1>1, <1>2, CallKinds DEF Fits
<1>7. PICK made : made = PushAndCall(runs[r], first, after, "taskGroup") OBVIOUS
<1>8. Proceeds(runs[r], made) BY <1>3, <1>5, <1>6, <1>7, PushAndCallProceeds
<1>9. BreakTaskList(made) /\ UNCHANGED <<waits, requests, locked>>
  BY <1>1, <1>7 DEF TaskGroup, R
<1> QED BY <1>1, <1>2, <1>8, <1>9, BreakUnlocked

LEMMA RunActionKeeps ==
  ASSUME IInv, AtTask, RunAction
  PROVE  IInv'
<1>1. PICK r, call, name, script, here, after :
        /\ r = active.run /\ call = active.call /\ name = TaskList.tasks[active.call.at]
        /\ script = Task.script /\ here = Here /\ after = After
  OBVIOUS
<1>2. r # None /\ name \in DOMAIN Group /\ Task = Group[name] BY <1>1, TaskFacts
<1>3. script \in DOMAIN Script /\ Script[script].lockScreen \in BOOLEAN /\ None \notin DOMAIN Script
  BY <1>1, <1>2, ScriptAssumption DEF RunAction
<1>4. runs[r] \in RunType /\ Stacked(runs[r]) /\ runs[r].stack # <<>> BY <1>1, <1>2, AtTheTask
<1>5. /\ here \in CallType
      /\ after \in CallType /\ after.do = "tasks" /\ after.by = "script" /\ Fits(after, runs[r].script)
  BY <1>1, <1>2, PlaceFacts
<1>6. PICK at : at = At(runs[r]) OBVIOUS
<1>7. /\ at \in RunType /\ at.stack = runs[r].stack /\ at.script = runs[r].script
      /\ at.live = runs[r].live /\ at.parent = runs[r].parent
      /\ at.parallelCount = runs[r].parallelCount
  BY <1>1, <1>4, <1>5, <1>6 DEF At, RunType
<1>8. Stacked(at) BY <1>4, <1>7 DEF Stacked
<1>9. PushFits(at, after, "action") BY <1>4, <1>5, <1>7 DEF PushFits
<1>10. PICK made : made = Entered(at, script, after, "action", "actionHead") OBVIOUS
<1>11. Proceeds(at, made) /\ (Script[script].lockScreen /\ locked = "no" => Locking(made.run.stack))
  BY <1>3, <1>5, <1>7, <1>8, <1>9, <1>10, EnteredProceeds
<1>12. Proceeds(runs[r], made) BY <1>7, <1>11 DEF Proceeds
<1>13. /\ BreakTaskList(made) /\ locked' = IF Script[script].lockScreen /\ locked = "no" THEN "script" ELSE locked
       /\ waits' = waits /\ requests' = requests
  BY <1>1, <1>6, <1>10 DEF RunAction, R, Locks
<1>14. locked \in LockType BY DEF IInv, Types
<1>15. locked' \in LockType /\ (locked' = "script" => locked = "script" \/ Locking(made.run.stack))
  BY <1>3, <1>11, <1>13, <1>14 DEF LockType
<1> QED BY <1>1, <1>2, <1>12, <1>13, <1>15, BreakKeeps

LEMMA LeaveKeeps ==
  ASSUME IInv, AtTask, Leave
  PROVE  IInv'
<1>1. PICK r, call : r = active.run /\ call = active.call OBVIOUS
<1>2. r # None BY <1>1, TaskFacts
<1>3. runs[r] \in RunType /\ Stacked(runs[r]) /\ runs[r].stack # <<>> BY <1>1, <1>2, AtTheTask
<1>4. UNCHANGED <<waits, requests, locked>> BY DEF Leave
<1>5. PICK made : made \in {PopAndCall(runs[r]), PopToAndCall(runs[r], "check"),
                            PopToAndCall(runs[r], "controlGroup"), PopToAndCall(runs[r], "action"),
                            Retry(runs[r]), ExitAction(runs[r])}
                  /\ BreakTaskList(made)
  BY <1>1 DEF Leave, Breaks, Returns, Exits, Reloads, R
<1>6. Proceeds(runs[r], made)
  BY <1>3, <1>5, PopAndCallProceeds, PopToAndCallProceeds, RetryProceeds DEF ExitAction
<1> QED BY <1>1, <1>2, <1>4, <1>5, <1>6, BreakUnlocked

(* A wait: the call of an ordinary one has a script for its "this".         *)
LEMMA WaitKeeps ==
  ASSUME Ordinary, IInv, AtTask, Wait
  PROVE  IInv'
<1>1. PICK r, call, name, here, after :
        /\ r = active.run /\ call = active.call /\ name = TaskList.tasks[active.call.at]
        /\ here = Here /\ after = After
  OBVIOUS
<1>2. /\ r # None /\ Task = Group[name]
      /\ call.list \in DOMAIN Lists /\ call.at \in DOMAIN TaskList.tasks
      /\ TaskList.repeat \in Nat /\ TaskList.repeat > runs[r].taskListRepeatCount
  BY <1>1, TaskFacts
<1>3. /\ r \in Runs /\ Live(r) /\ runs[r] \in RunType /\ Stacked(runs[r]) /\ runs[r].stack # <<>>
      /\ call \in CallType /\ call.of \in DOMAIN Group /\ call.at \in Nat /\ call.list \in Nat
      /\ call.by = "stack" => Behind(call, runs[r].taskListRepeatCount)
      /\ Elsewhere(r, timers) /\ r \notin requests /\ runs[r].parallelCount = 0
  BY <1>1, <1>2, AtTheTask
<1>4. Lists = Group[call.of].taskList /\ TaskList = Group[call.of].taskList[call.list]
      /\ name = Group[call.of].taskList[call.list].tasks[call.at]
  BY <1>1 DEF Lists, TaskList
<1>5. PICK place : place = <<call.list, call.at>> BY Zenon
<1>6. place[1] = call.list /\ place[2] = call.at BY <1>5, SMTT(40)
<1>7. place \in WaitsOf(call.of)
  <2>1. place \in {call.list} \X DOMAIN Group[call.of].taskList[call.list].tasks BY <1>2, <1>4, <1>5
  <2>2. Group[name].type = "wait" BY <1>2 DEF Wait
  <2> QED BY <1>2, <1>4, <1>6, <2>1, <2>2 DEF WaitsOf
<1>8. /\ \A p \in WaitsOf(call.of) : p = place
      /\ Group[call.of].taskList[call.list].repeat <= 1
  BY <1>3, <1>6, <1>7 DEF Ordinary
<1>9. call.by = "script"
  <2> SUFFICES ASSUME call.by = "stack" PROVE FALSE BY <1>3 DEF CallType
  <2>1. runs[r].taskListRepeatCount >= 1 BY <1>3, <1>6, <1>7 DEF Behind
  <2>2. runs[r].taskListRepeatCount \in Nat BY <1>3, RunFields
  <2> QED BY <1>2, <1>4, <1>8, <2>1, <2>2
<1>10. /\ here \in CallType
       /\ after \in CallType /\ after.do = "tasks" /\ after.by = "script" /\ Fits(after, runs[r].script)
       /\ after.of = call.of /\ after.list = call.list /\ after.at = call.at + 1
  BY <1>1, <1>2, PlaceFacts
<1>11. PICK at, next, wait : /\ at = At(runs[r]) /\ next = [after EXCEPT !.by = "stack"]
                             /\ wait = [run |-> r, call |-> next]
  OBVIOUS
<1>12. /\ at \in RunType /\ at.stack = runs[r].stack /\ at.script = runs[r].script
       /\ at.live = runs[r].live /\ at.parent = runs[r].parent
       /\ at.parallelCount = runs[r].parallelCount
  BY <1>1, <1>3, <1>10, <1>11 DEF At, RunType
<1>13. /\ next \in CallType /\ next.do = "tasks" /\ next.by = "stack" /\ next.of = call.of
       /\ next.list = call.list /\ next.at = call.at + 1
  BY <1>10, <1>11 DEF CallType
<1>14. Ready(next, at) BY <1>3, <1>10, <1>12, <1>13 DEF Ready, Fits
<1>15. Behind(next, 0)
  <2>1. WaitsOf(next.of) = WaitsOf(call.of) BY <1>13
  <2>2. WaitsOf(next.of) # {} BY <1>7, <2>1
  <2>3. \A p \in WaitsOf(next.of) : p[1] = next.list /\ p[2] < next.at BY <1>3, <1>6, <1>8, <1>13, <2>1
  <2> QED BY <2>2, <2>3 DEF Behind
<1>16. wait \in ComingType /\ wait.run = r /\ wait.call = next BY <1>3, <1>11, <1>13 DEF ComingType
<1>17. /\ waits' = waits \union {wait} /\ requests' = requests /\ locked' = locked
       /\ active' = Idle /\ runs' = [runs EXCEPT ![r] = at]
  BY <1>1, <1>9, <1>11 DEF Wait, R, BreakTaskList, Leaves, Made
<1>18. timers' = timers
  <2>1. timers \in Seq(ComingType) BY DEF IInv, Types
  <2>2. For(R, <<>>) = <<>> BY DEF For
  <2>3. timers' = timers \o For(R, <<>>) BY DEF Wait, BreakTaskList, Leaves, Made
  <2> QED BY <2>1, <2>2, <2>3
<1>19. Types BY DEF IInv
<1>20. None \notin Runs /\ Idle.run = None BY ScriptAssumption DEF Idle
<1>21. runs'[r] = at /\ \A q \in Runs : q # r => runs'[q] = runs[q] BY <1>3, <1>17, <1>19 DEF Types
<1>22. \A other \in waits' : other.run = r => other = wait BY <1>3, <1>17 DEF Elsewhere
<1>23. wait \in waits' BY <1>17
<1>24. InWait(r)' BY <1>13, <1>14, <1>15, <1>16, <1>21, <1>22, <1>23 DEF InWait
<1>25. Stands(r, "wait")' BY <1>3, <1>12, <1>17, <1>18, <1>20, <1>21, <1>24 DEF Stands, Elsewhere
<1>26. "wait" \in Modes BY DEF Modes
<1>27. \A q \in Runs : q # r => Undisturbed(q)
  BY <1>1, <1>16, <1>17, <1>18, <1>20, <1>21, SameKeeps DEF Undisturbed
<1>28. /\ timers' \in Seq(ComingType) /\ waits' \subseteq ComingType /\ requests' \subseteq Runs
       /\ active' \in ComingType \union {Idle}
  BY <1>16, <1>17, <1>18, <1>19 DEF Types
<1>29. \A i \in DOMAIN timers : timers[i].call.do = "unlock" =>
         \E k \in DOMAIN timers' : timers'[k].call.do = "unlock"
  BY <1>18
<1> QED BY <1>3, <1>12, <1>17, <1>25, <1>26, <1>27, <1>28, <1>29, RunMoves, SameLock

(* parallel: which branches start, and that each comes with its parameters. *)
Branch(r, b, script) ==
  /\ script \in DOMAIN Script
  /\ runs'[b] = Entered(NewRun(script, r), script, Call("ends"), "", "action").run
  /\ Comes(timers', b, Call("params"))

LEMMA ParallelStarts ==
  ASSUME Ordinary, IInv, AtTask, Parallel, NEW r, r = active.run
  PROVE  \E B, n :
           /\ n \in Nat \ {0} /\ IsFiniteSet(B) /\ Cardinality(B) = n
           /\ r \notin B /\ \A b \in B : b \in Runs /\ runs[b] = None
           /\ \A b \in B : \E script : Branch(r, b, script)
           /\ runs' \in [Runs -> RunType \union {None}]
           /\ runs'[r] = [At(runs[r]) EXCEPT !.parallelCount = @ + n]
           /\ \A q \in Runs : q # r /\ q \notin B => runs'[q] = runs[q]
           /\ \A q : q \notin B => KeepsFor(timers, timers', q)
           /\ timers' \in Seq(ComingType)
           /\ \A i \in DOMAIN timers : i \in DOMAIN timers' /\ timers'[i] = timers[i]
<1>1. PICK call, name, here, scripts :
        /\ call = active.call /\ name = TaskList.tasks[active.call.at]
        /\ here = Here /\ scripts = Task.branches
  OBVIOUS
<1>2. r # None /\ name \in DOMAIN Group /\ Task = Group[name] BY <1>1, TaskFacts
<1>3. /\ r \in Runs /\ Live(r) /\ runs[r] \in RunType /\ Stacked(runs[r]) /\ runs[r].stack # <<>>
      /\ Elsewhere(r, timers) /\ r \notin requests /\ runs[r].parallelCount = 0
  BY <1>1, <1>2, AtTheTask
<1>4. /\ here \in CallType /\ here.do = "tasks" /\ here.by = "script" /\ Fits(here, runs[r].script)
  BY <1>1, <1>2, PlaceFacts, SMTT(40)
<1>5. scripts \in Seq(DOMAIN Script) /\ scripts # <<>>
  BY <1>1, <1>2, ScriptAssumption DEF Ordinary, Parallel
<1>6. PICK n : n = Len(scripts) OBVIOUS
<1>7. n \in Nat \ {0} /\ DOMAIN scripts = 1..n /\ \A i \in 1..n : scripts[i] \in DOMAIN Script
  BY <1>5, <1>6
<1>8. Types /\ Families /\ LockIsOwned /\ \A q \in Runs : Placed(q) BY DEF IInv
<1>9. None \notin Runs \union RunType /\ Idle.run = None BY ScriptAssumption DEF Idle
<1>11. active' = Idle /\ waits' = waits /\ requests' = requests /\ locked' = locked BY DEF Parallel
<1> DEFINE Start(i) == Entered(NewRun(scripts[i], r), scripts[i], Call("ends"), "", "action")
<1>10. PICK branches \in [DOMAIN Task.branches -> {q \in Runs \ DOMAIN Started : runs[q] = None}] :
         /\ \A i, j \in DOMAIN branches : branches[i] = branches[j] => i = j
         /\ runs' = [q \in Runs |->
              IF q = R THEN [At(runs[R]) EXCEPT !.parallelCount = @ + Len(branches)]
              ELSE IF q \in {branches[i] : i \in DOMAIN branches}
                THEN Entered(NewRun(Task.branches[CHOOSE i \in DOMAIN branches : branches[i] = q], R),
                             Task.branches[CHOOSE i \in DOMAIN branches : branches[i] = q],
                             Call("ends"), "", "action").run
              ELSE runs[q]]
         /\ timers' = timers \o [i \in DOMAIN branches |-> [run |-> branches[i],
              call |-> Head(Entered(NewRun(Task.branches[i], R), Task.branches[i],
                                    Call("ends"), "", "action").calls)]]
  BY DEF Parallel
<1> DEFINE B == {branches[i] : i \in 1..n}
           us == [i \in DOMAIN branches |-> [run |-> branches[i],
              call |-> Head(Entered(NewRun(Task.branches[i], R), Task.branches[i],
                                    Call("ends"), "", "action").calls)]]
<1>12. R = r /\ Task.branches = scripts BY <1>1 DEF R
<1>13. DOMAIN branches = 1..n /\ \A i \in 1..n : branches[i] \in Runs /\ runs[branches[i]] = None
  BY <1>7, <1>10, <1>12
<1>14. Len(branches) = n
  <2>1. branches = [i \in 1..n |-> branches[i]] BY <1>10, <1>13
  <2>2. branches \in Seq(Runs) BY <1>7, <1>13, <2>1
  <2> QED BY <1>7, <1>13, <2>2
<1>15. \A i \in 1..n :
         /\ Start(i).run \in RunType /\ Stacked(Start(i).run) /\ Start(i).run.live
         /\ Start(i).run.parent = r /\ Start(i).run.parallelCount = 0
         /\ Start(i).calls = <<Call("params")>> /\ Ready(Call("params"), Start(i).run)
  <2> SUFFICES ASSUME NEW i \in 1..n
               PROVE  /\ Start(i).run \in RunType /\ Stacked(Start(i).run) /\ Start(i).run.live
                      /\ Start(i).run.parent = r /\ Start(i).run.parallelCount = 0
                      /\ Start(i).calls = <<Call("params")>> /\ Ready(Call("params"), Start(i).run)
    OBVIOUS
  <2>1. PICK made : made = Start(i) OBVIOUS
  <2>2. PICK run, script : script = scripts[i] /\ run = NewRun(script, r) OBVIOUS
  <2>5. script \in DOMAIN Script /\ r \in Runs \union {None} BY <1>3, <1>7, <2>2
  <2>6. made = Entered(run, script, Call("ends"), "", "action") BY <2>1, <2>2
  <2>3. /\ Proceeds(run, made) /\ made.calls = <<Call("params")>>
        /\ made.run \in RunType /\ Stacked(made.run) /\ made.run.live
        /\ made.run.parent = r /\ made.run.parallelCount = 0
    <3>1. Launched(script, r, run, made) BY <2>2, <2>6 DEF Launched
    <3> QED BY <2>5, <3>1, StartProceeds
  <2>4. Ready(Call("params"), made.run) BY <2>3 DEF Proceeds
  <2> QED BY <2>1, <2>3, <2>4
<1>16. runs'[r] = [At(runs[r]) EXCEPT !.parallelCount = @ + n] BY <1>3, <1>10, <1>12, <1>14
<1>17. \A q \in Runs : q # r /\ q \notin B => runs'[q] = runs[q] BY <1>10, <1>12, <1>13
<1>18. r \notin B BY <1>3, <1>13 DEF Live
<1>19. \A b \in B : \E i \in 1..n : runs'[b] = Start(i).run
  <2> SUFFICES ASSUME NEW b \in B PROVE \E i \in 1..n : runs'[b] = Start(i).run OBVIOUS
  <2>1. PICK i : i = CHOOSE k \in DOMAIN branches : branches[k] = b OBVIOUS
  <2>2. i \in 1..n BY <1>13, <2>1
  <2>3. b # r /\ b \in Runs /\ b \in {branches[k] : k \in DOMAIN branches} BY <1>13, <1>18
  <2>4. runs'[b] = Entered(NewRun(Task.branches[i], R), Task.branches[i], Call("ends"), "", "action").run
    BY <1>10, <1>12, <2>1, <2>3
  <2>5. runs'[b] = Start(i).run BY <1>12, <2>4
  <2> QED BY <2>2, <2>5
<1>32. \A b \in B : \E script : script \in DOMAIN Script
          /\ runs'[b] = Entered(NewRun(script, r), script, Call("ends"), "", "action").run
  <2> SUFFICES ASSUME NEW b \in B
               PROVE  \E script : script \in DOMAIN Script
                        /\ runs'[b] = Entered(NewRun(script, r), script, Call("ends"), "", "action").run
    OBVIOUS
  <2>1. PICK i \in 1..n : runs'[b] = Start(i).run BY <1>19
  <2>2. PICK script : script = scripts[i] OBVIOUS
  <2> QED BY <1>7, <2>1, <2>2
<1>33. \A b \in B : runs'[b] \in RunType BY <1>15, <1>19
<1>20. \A i \in 1..n : us[i] = [run |-> branches[i], call |-> Call("params")]
  <2> SUFFICES ASSUME NEW i \in 1..n PROVE us[i] = [run |-> branches[i], call |-> Call("params")]
    OBVIOUS
  <2>1. us[i] = [run |-> branches[i],
                 call |-> Head(Entered(NewRun(Task.branches[i], R), Task.branches[i],
                                       Call("ends"), "", "action").calls)]
    BY <1>13
  <2>2. Start(i).calls = <<Call("params")>> BY <1>15
  <2>3. Head(<<Call("params")>>) = Call("params") OBVIOUS
  <2> QED BY <1>12, <2>1, <2>2, <2>3
<1>21. DOMAIN us = 1..n /\ timers' = timers \o us BY <1>10, <1>13
<1> HIDE DEF us, Start
<1>22. /\ Call("params") \in CallType /\ Call("params").do = "params" /\ Call("params").by = "script"
  BY CallKinds
<1>23. \A i \in 1..n : /\ us[i] \in ComingType /\ us[i].run = branches[i] /\ us[i].call = Call("params")
                       /\ Hit(us[i], branches[i]) /\ \A q : Hit(us[i], q) => q = branches[i]
  <2> SUFFICES ASSUME NEW i \in 1..n
               PROVE  /\ us[i] \in ComingType /\ us[i].run = branches[i] /\ us[i].call = Call("params")
                      /\ Hit(us[i], branches[i]) /\ \A q : Hit(us[i], q) => q = branches[i]
    OBVIOUS
  <2>1. PICK coming, b : coming = us[i] /\ b = branches[i] OBVIOUS
  <2>2. coming = [run |-> b, call |-> Call("params")] /\ b \in Runs BY <1>13, <1>20, <2>1
  <2>3. coming \in ComingType /\ coming.run = b /\ coming.call = Call("params")
    BY <1>22, <2>2 DEF ComingType
  <2>4. Hit(coming, b) /\ \A q : Hit(coming, q) => q = b BY <1>22, <2>3 DEF Hit
  <2> QED BY <2>1, <2>3, <2>4
<1>24. us \in Seq(ComingType)
  <2>1. us = [i \in 1..n |-> us[i]] BY <1>21 DEF us
  <2> QED BY <1>7, <1>23, <2>1
<1>25. timers \in Seq(ComingType) BY <1>8 DEF Types
<1>26. timers' \in Seq(ComingType)
       /\ \A i \in DOMAIN timers : i \in DOMAIN timers' /\ timers'[i] = timers[i]
  BY <1>21, <1>24, <1>25, ConcatFacts
<1>27. \A q : q \notin B => Off(us, q) BY <1>21, <1>23 DEF Off
<1>28. \A q : q \notin B => KeepsFor(timers, timers', q) BY <1>21, <1>24, <1>25, <1>27, ConcatKeeps
<1>29. \A b \in B : b \in Runs /\ runs[b] = None /\ ~Live(b) BY <1>13 DEF Live
<1>30. \A b \in B : Off(timers, b) /\ (\A wait \in waits : wait.run # b) /\ b \notin requests
  BY <1>8, <1>29 DEF Placed, Nowhere
<1>31. \A b \in B : Comes(timers', b, Call("params"))
  <2> SUFFICES ASSUME NEW i \in 1..n PROVE Comes(timers', branches[i], Call("params")) OBVIOUS
  <2>1. Comes(us, branches[i], Call("params"))
    <3>1. \A k \in DOMAIN us : Hit(us[k], branches[i]) => k = i BY <1>10, <1>13, <1>21, <1>23
    <3> QED BY <1>21, <1>23, <3>1 DEF Comes
  <2> QED BY <1>21, <1>24, <1>25, <1>30, <2>1, ConcatComes
<1>34. \A b \in B : \E script : Branch(r, b, script) BY <1>31, <1>32 DEF Branch
<1>35. runs'[r] \in RunType
  <2>1. PICK at : at = At(runs[r]) OBVIOUS
  <2>2. at \in RunType /\ at.parallelCount = 0 BY <1>1, <1>3, <1>4, <2>1 DEF At, RunType
  <2>3. runs'[r] = [at EXCEPT !.parallelCount = @ + n] BY <1>16, <2>1
  <2>4. [at EXCEPT !.parallelCount = @ + n] \in RunType BY <1>7, <2>2 DEF RunType
  <2> QED BY <2>3, <2>4
<1>36. IsFiniteSet(B) /\ Cardinality(B) = n
  <2>1. IsFiniteSet(1..n) /\ Cardinality(1..n) = n BY <1>7, FS_Interval
  <2>2. branches \in [1..n -> B] BY <1>10, <1>13 DEF B
  <2>3. branches \in Bijection(1..n, B)
    BY <1>10, <1>13, <2>2 DEF B, Bijection, Injection, IsInjective, Surjection
  <2>4. ExistsBijection(1..n, B) BY <2>3 DEF ExistsBijection
  <2> QED BY <2>1, <2>4, FS_Bijection
<1> HIDE DEF B
<1>37. runs' \in [Runs -> RunType \union {None}]
  <2>1. \A q \in Runs : runs'[q] \in RunType \union {None}
    BY <1>8, <1>17, <1>33, <1>35 DEF Types
  <2> DEFINE next(q) ==
        IF q = R THEN [At(runs[R]) EXCEPT !.parallelCount = @ + Len(branches)]
        ELSE IF q \in {branches[i] : i \in DOMAIN branches}
          THEN Entered(NewRun(Task.branches[CHOOSE i \in DOMAIN branches : branches[i] = q], R),
                       Task.branches[CHOOSE i \in DOMAIN branches : branches[i] = q],
                       Call("ends"), "", "action").run
        ELSE runs[q]
  <2>3. runs' = [q \in Runs |-> next(q)] BY <1>10
  <2> HIDE DEF next
  <2>2. runs' = [q \in Runs |-> runs'[q]] BY <2>3
  <2> QED BY <2>1, <2>2
<1>38. n \in Nat \ {0} /\ r \notin B /\ \A b \in B : b \in Runs /\ runs[b] = None BY <1>7, <1>18, <1>29
<1> QED BY <1>16, <1>17, <1>26, <1>28, <1>34, <1>36, <1>37, <1>38

(* parallel: the branches that start are those that the run waits for.      *)
LEMMA ParallelKeeps ==
  ASSUME Ordinary, IInv, AtTask, Parallel
  PROVE  IInv'
<1>1. PICK r, call, name, here :
        r = active.run /\ call = active.call /\ name = TaskList.tasks[active.call.at] /\ here = Here
  OBVIOUS
<1>2. r # None /\ name \in DOMAIN Group /\ Task = Group[name] BY <1>1, TaskFacts
<1>3. /\ r \in Runs /\ Live(r) /\ runs[r] \in RunType /\ Stacked(runs[r]) /\ runs[r].stack # <<>>
      /\ Elsewhere(r, timers) /\ r \notin requests /\ runs[r].parallelCount = 0
  BY <1>1, <1>2, AtTheTask
<1>4. /\ here \in CallType /\ here.do = "tasks" /\ here.by = "script" /\ Fits(here, runs[r].script)
  BY <1>1, <1>2, PlaceFacts
<1>5. Types /\ Families /\ LockIsOwned /\ \A q \in Runs : Placed(q) BY DEF IInv
<1>6. None \notin Runs \union RunType /\ Idle.run = None BY ScriptAssumption DEF Idle
<1>7. active' = Idle /\ waits' = waits /\ requests' = requests /\ locked' = locked BY DEF Parallel
<1>8. PICK B, n :
         /\ n \in Nat \ {0} /\ IsFiniteSet(B) /\ Cardinality(B) = n
         /\ r \notin B /\ \A b \in B : b \in Runs /\ runs[b] = None
         /\ \A b \in B : \E script : Branch(r, b, script)
         /\ runs' \in [Runs -> RunType \union {None}]
         /\ runs'[r] = [At(runs[r]) EXCEPT !.parallelCount = @ + n]
         /\ \A q \in Runs : q # r /\ q \notin B => runs'[q] = runs[q]
         /\ \A q : q \notin B => KeepsFor(timers, timers', q)
         /\ timers' \in Seq(ComingType)
         /\ \A i \in DOMAIN timers : i \in DOMAIN timers' /\ timers'[i] = timers[i]
  BY <1>1, ParallelStarts
<1>9. \A b \in B : b \in Runs /\ runs[b] = None /\ ~Live(b) BY <1>8 DEF Live
<1>10. \A b \in B : Off(timers, b) /\ (\A wait \in waits : wait.run # b) /\ b \notin requests
  BY <1>5, <1>9 DEF Placed, Nowhere
<1>11. \A b \in B : /\ runs'[b] \in RunType /\ runs'[b] # None /\ Stacked(runs'[b]) /\ runs'[b].live
                    /\ runs'[b].parent = r /\ runs'[b].parallelCount = 0
                    /\ Ready(Call("params"), runs'[b]) /\ Comes(timers', b, Call("params"))
  <2> SUFFICES ASSUME NEW b \in B
               PROVE  /\ runs'[b] \in RunType /\ runs'[b] # None /\ Stacked(runs'[b]) /\ runs'[b].live
                      /\ runs'[b].parent = r /\ runs'[b].parallelCount = 0
                      /\ Ready(Call("params"), runs'[b]) /\ Comes(timers', b, Call("params"))
    OBVIOUS
  <2>1. PICK script : Branch(r, b, script) BY <1>8
  <2>2. PICK run, made : run = NewRun(script, r) /\ made = Entered(run, script, Call("ends"), "", "action")
    OBVIOUS
  <2>3. script \in DOMAIN Script /\ runs'[b] = made.run /\ Comes(timers', b, Call("params"))
    BY <2>1, <2>2 DEF Branch
  <2>4. r \in Runs \union {None} /\ made = Entered(run, script, Call("ends"), "", "action") BY <1>3, <2>2
  <2>5. /\ Proceeds(run, made) /\ made.calls = <<Call("params")>>
        /\ made.run \in RunType /\ Stacked(made.run) /\ made.run.live
        /\ made.run.parent = r /\ made.run.parallelCount = 0
    <3>1. Launched(script, r, run, made) BY <2>2, <2>4 DEF Launched
    <3>2. script \in DOMAIN Script BY <2>3
    <3>3. r \in Runs \union {None} BY <2>4
    <3> QED BY <3>1, <3>2, <3>3, StartProceeds
  <2>6. Ready(Call("params"), made.run) BY <2>5 DEF Proceeds
  <2> QED BY <1>6, <2>3, <2>5, <2>6
<1>12. PICK at, waiting : at = At(runs[r]) /\ waiting = [at EXCEPT !.parallelCount = @ + n] OBVIOUS
<1>13. /\ waiting \in RunType /\ waiting # None /\ waiting.stack = runs[r].stack
       /\ waiting.script = runs[r].script /\ waiting.live = runs[r].live
       /\ waiting.parent = runs[r].parent /\ waiting.parallelCount = n /\ waiting.currentTask = here
  <2>1. /\ at \in RunType /\ at.stack = runs[r].stack /\ at.script = runs[r].script
        /\ at.live = runs[r].live /\ at.parent = runs[r].parent
        /\ at.parallelCount = 0 /\ at.currentTask = here
    BY <1>1, <1>3, <1>4, <1>12 DEF At, RunType
  <2> QED BY <1>6, <1>8, <1>12, <2>1 DEF RunType
<1>14. runs'[r] = waiting BY <1>8, <1>12
<1>15. Types' BY <1>5, <1>7, <1>8 DEF Types
<1>16. /\ Live(r)' /\ \A b \in B : Live(b)'
       /\ \A q \in Runs : q \notin B => (Live(q)' <=> Live(q))
  BY <1>3, <1>8, <1>9, <1>11, <1>13, <1>14 DEF Live
<1>17. Families'
  <2>1. Cardinality(Branches(r)) = 0 /\ IsFiniteSet(Branches(r)) BY <1>3, <1>5 DEF Families, Live
  <2>2. Branches(r) = {} BY <2>1, FS_EmptySet
  <2>3. \A q \in Runs : Live(q) => runs[q].parent # r BY <2>2 DEF Branches
  <2>4. \A q \in Runs : q \notin B => runs'[q].parent = runs[q].parent \/ ~Live(q)
    BY <1>8, <1>13, <1>14
  <2>5. Branches(r)' = B BY <1>9, <1>11, <1>16, <2>3, <2>4 DEF Branches
  <2>6. \A p \in Runs : p # r => Branches(p)' = Branches(p)
    BY <1>9, <1>11, <1>16, <2>4 DEF Branches
  <2>7. IsFiniteSet(B) /\ Cardinality(B) = n BY <1>8
  <2>8. \A b \in B : Branches(b) = {} BY <1>5, <1>6, <1>9 DEF Families, Branches
  <2>9. ASSUME NEW p \in Runs
        PROVE  IsFiniteSet(Branches(p)')
               /\ (runs'[p] # None => runs'[p].parallelCount = Cardinality(Branches(p)'))
    <3>1. CASE p = r BY <1>13, <1>14, <2>5, <2>7, <3>1
    <3>2. CASE p \in B
      <4>1. p # r /\ Branches(p)' = {} BY <1>8, <2>6, <2>8, <3>2
      <4> QED BY <1>11, <3>2, <4>1, FS_EmptySet
    <3>3. CASE p # r /\ p \notin B BY <1>5, <1>8, <2>6, <3>3 DEF Families
    <3> QED BY <3>1, <3>2, <3>3
  <2>10. \A q \in Runs : Live(q)' /\ runs'[q].parent # None =>
           runs'[runs'[q].parent] # None /\ runs'[runs'[q].parent].live
    <3> SUFFICES ASSUME NEW q \in Runs, Live(q)', runs'[q].parent # None
                 PROVE  runs'[runs'[q].parent] # None /\ runs'[runs'[q].parent].live
      OBVIOUS
    <3>1. CASE q \in B BY <1>3, <1>11, <1>13, <1>14, <3>1 DEF Live
    <3>2. CASE q \notin B
      <4>1. Live(q) /\ runs'[q].parent = runs[q].parent BY <1>16, <2>4, <3>2
      <4>2. PICK p : p = runs[q].parent OBVIOUS
      <4>3. Live(p) /\ p # None BY <1>5, <4>1, <4>2 DEF Families
      <4>4. p \in Runs BY <1>5, <4>1, <4>2, <4>3 DEF Types, Live, RunType
      <4>5. Live(p)' BY <1>16, <4>3, <4>4
      <4> QED BY <4>1, <4>2, <4>5 DEF Live
    <3> QED BY <3>1, <3>2
  <2> QED BY <2>9, <2>10 DEF Families, Live
<1>18. LockIsOwned'
  <2>1. \A q \in Runs : Live(q) => Live(q)' /\ runs'[q].stack = runs[q].stack
    BY <1>8, <1>9, <1>13, <1>14, <1>16
  <2>2. \A i \in DOMAIN timers : timers[i].call.do = "unlock" =>
          \E k \in DOMAIN timers' : timers'[k].call.do = "unlock"
    BY <1>8
  <2> QED BY <1>5, <1>7, <2>1, <2>2, LockStays
<1>19. ASSUME NEW b \in B PROVE Placed(b)'
  <2>1. Comes(timers', b, Call("params")) /\ Ready(Call("params"), runs'[b]) BY <1>11
  <2>2. Call("params") \in {timers'[i].call : i \in DOMAIN timers'} BY <2>1 DEF Comes
  <2>3. InTimer(b)' BY <2>1, <2>2, CallKinds DEF InTimer
  <2>4. active'.run # b BY <1>6, <1>7, <1>9
  <2>5. Stands(b, "timer")' BY <1>7, <1>10, <1>11, <2>3, <2>4 DEF Stands
  <2>6. "timer" \in Modes BY DEF Modes
  <2> QED BY <1>11, <1>16, <2>5, <2>6 DEF Placed
<1>20. Placed(r)'
  <2>1. Ready(here, runs'[r]) BY <1>3, <1>4, <1>13, <1>14 DEF Ready
  <2>2. runs'[r].parallelCount > 0
    <3>1. n > 0 BY <1>8
    <3> QED BY <1>13, <1>14, <3>1
  <2>3. InBranches(r)' BY <1>4, <1>13, <1>14, <2>1, <2>2 DEF InBranches
  <2>4. Off(timers', r) BY <1>3, <1>8 DEF Elsewhere, KeepsFor
  <2>5. active'.run # r BY <1>3, <1>6, <1>7
  <2>6. Stands(r, "branches")' BY <1>3, <1>7, <2>3, <2>4, <2>5 DEF Stands, Elsewhere
  <2>7. "branches" \in Modes BY DEF Modes
  <2>8. Stacked(runs'[r]) BY <1>3, <1>13, <1>14 DEF Stacked
  <2> QED BY <1>16, <2>6, <2>7, <2>8 DEF Placed
<1>21. ASSUME NEW q \in Runs, q # r, q \notin B PROVE Placed(q)'
  <2>1. Undisturbed(q) BY <1>1, <1>6, <1>7, <1>8, <1>21 DEF Undisturbed
  <2> QED BY <1>5, <2>1, PlacedStays
<1>22. \A q \in Runs : Placed(q)' BY <1>19, <1>20, <1>21
<1> QED BY <1>15, <1>17, <1>18, <1>22 DEF IInv

-------------------------------------------------------------------------------
LEMMA InitHolds ==
  ASSUME Init
  PROVE  IInv
<1>1. None \notin Runs /\ Idle.run = None BY ScriptAssumption DEF Idle
<1>2. <<>> \in Seq(ComingType) /\ DOMAIN <<>> = {} OBVIOUS
<1>3. /\ runs = [r \in Runs |-> None] /\ timers = <<>> /\ waits = {} /\ requests = {}
      /\ active = Idle /\ locked = "no"
  BY DEF Init
<1>4. Types BY <1>2, <1>3 DEF Types, LockType
<1>5. \A r \in Runs : runs[r] = None /\ ~Live(r) BY <1>3 DEF Live
<1>6. Families
  <2>1. \A p : Branches(p) = {} BY <1>5 DEF Branches
  <2> QED BY <1>5, <2>1, FS_EmptySet DEF Families
<1>7. LockIsOwned BY <1>3 DEF LockIsOwned
<1>8. \A r \in Runs : Placed(r)
  <2> SUFFICES ASSUME NEW r \in Runs PROVE Placed(r) OBVIOUS
  <2>1. Off(timers, r) BY <1>2, <1>3 DEF Off
  <2>2. Nowhere(r) BY <1>1, <1>3, <2>1 DEF Nowhere
  <2> QED BY <1>5, <2>2 DEF Placed
<1> QED BY <1>4, <1>6, <1>7, <1>8 DEF IInv

LEMMA NextKeeps ==
  ASSUME Ordinary, IInv, [Next]_vars
  PROVE  IInv'
<1>1. CASE Fire BY <1>1, FireKeeps
<1>2. CASE EndOfList /\ UNCHANGED <<waits, requests, locked, log>> BY <1>2, EndOfListKeeps
<1>3. CASE AtTask /\ Step BY <1>3, StepKeeps
<1>4. CASE AtTask /\ TaskGroup BY <1>4, TaskGroupKeeps
<1>5. CASE AtTask /\ IfNot BY <1>5, IfNotKeeps
<1>6. CASE AtTask /\ RunAction BY <1>6, RunActionKeeps
<1>7. CASE AtTask /\ Leave BY <1>7, LeaveKeeps
<1>8. CASE AtTask /\ Wait BY <1>8, WaitKeeps
<1>9. CASE AtTask /\ Parallel BY <1>9, ParallelKeeps
<1>15. CASE AtTask /\ (LockScreen \/ UnlockScreen) BY <1>15, LockTasksKeep
<1>10. ASSUME NEW wait \in waits, WaitEnds(wait) PROVE IInv' BY <1>10, WaitEndsKeeps
<1>11. ASSUME NEW r \in Runs, Answered(r) PROVE IInv' BY <1>11, AnsweredKeeps
<1>12. CASE Unlock BY <1>12, UnlockKeeps
<1>13. ASSUME NEW r \in Runs, CallAction(r) PROVE IInv' BY <1>13, CallActionKeeps
<1>14. CASE UNCHANGED vars
  <2>1. /\ runs' = runs /\ timers' = timers /\ waits' = waits /\ requests' = requests
        /\ active' = active /\ locked' = locked
    BY <1>14 DEF vars
  <2>2. Types /\ Families /\ LockIsOwned /\ \A q \in Runs : Placed(q) BY DEF IInv
  <2>3. Types' BY <2>1, <2>2 DEF Types
  <2>4. Families' BY <2>1, <2>2, FamiliesStay
  <2>5. LockIsOwned' BY <2>1, <2>2 DEF LockIsOwned, Live
  <2>6. ASSUME NEW q \in Runs PROVE Placed(q)'
    <3>1. Undisturbed(q) BY <2>1, SameKeeps DEF Undisturbed
    <3> QED BY <2>2, <3>1, PlacedStays
  <2> QED BY <2>3, <2>4, <2>5, <2>6 DEF IInv
<1> QED BY <1>1, <1>2, <1>3, <1>4, <1>5, <1>6, <1>7, <1>8, <1>9, <1>10, <1>11, <1>12, <1>13, <1>14, <1>15
     DEF Next, Works, TaskProcessor

(* A run goes on at the one place where it stands.                          *)
LEMMA StandsOnce ==
  ASSUME IInv
  PROVE  OneContinuation
<1> SUFFICES ASSUME NEW r \in Runs, runs[r] # None
             PROVE  Continuations(r) = IF Live(r) THEN 1 ELSE 0
  BY DEF OneContinuation
<1> DEFINE ofTimers == {i \in DOMAIN timers : timers[i].run = r /\ timers[i].call.do # "unlock"}
           ofWaits  == {wait \in waits : wait.run = r}
           ofRequests == {r} \intersect requests
           ofTask == {r} \intersect {active.run}
           ofBranches == {r} \intersect {p \in {q \in Runs : Live(q)} : runs[p].parallelCount > 0}
<1>1. Cardinality({}) = 0 /\ \A x : Cardinality({x}) = 1 BY FS_EmptySet, FS_Singleton
<1>2. Off(timers, r) => ofTimers = {} BY DEF Off, Hit
<1>3. ASSUME InTimer(r) PROVE \E i : ofTimers = {i}
  <2>1. PICK call : Comes(timers, r, call) BY <1>3 DEF InTimer
  <2>2. PICK i \in DOMAIN timers : Hit(timers[i], r) /\ \A j \in DOMAIN timers : Hit(timers[j], r) => j = i
    BY <2>1 DEF Comes
  <2>3. ofTimers = {i} BY <2>2 DEF Hit
  <2> QED BY <2>3
<1>4. (\A wait \in waits : wait.run # r) => ofWaits = {} OBVIOUS
<1>5. ASSUME InWait(r) PROVE \E wait : ofWaits = {wait}
  <2>1. PICK wait \in waits : wait.run = r /\ \A other \in waits : other.run = r => other = wait
    BY <1>5 DEF InWait
  <2>2. ofWaits = {wait} BY <2>1
  <2> QED BY <2>2
<1>6. ofRequests = IF r \in requests THEN {r} ELSE {} OBVIOUS
<1>7. ofTask = IF active.run = r THEN {r} ELSE {} OBVIOUS
<1>8. ofBranches = IF Live(r) /\ runs[r].parallelCount > 0 THEN {r} ELSE {} OBVIOUS
<1>9. Continuations(r) = Cardinality(ofTimers) + Cardinality(ofWaits) + Cardinality(ofRequests)
                           + Cardinality(ofTask) + Cardinality(ofBranches)
  BY DEF Continuations
<1>10. Placed(r) BY DEF IInv
<1> HIDE DEF ofTimers, ofWaits, ofRequests, ofTask, ofBranches
<1>11. CASE Live(r)
  <2>1. PICK mode \in Modes : Stands(r, mode) BY <1>10, <1>11 DEF Placed
  <2>2. Cardinality(ofTimers) = IF mode = "timer" THEN 1 ELSE 0 BY <1>1, <1>2, <1>3, <2>1 DEF Stands
  <2>3. Cardinality(ofWaits) = IF mode = "wait" THEN 1 ELSE 0 BY <1>1, <1>4, <1>5, <2>1 DEF Stands
  <2>4. Cardinality(ofRequests) = IF mode = "request" THEN 1 ELSE 0
    BY <1>1, <1>6, <2>1 DEF Stands, InRequest
  <2>5. Cardinality(ofTask) = IF mode = "task" THEN 1 ELSE 0 BY <1>1, <1>7, <2>1 DEF Stands, InTask
  <2>6. Cardinality(ofBranches) = IF mode = "branches" THEN 1 ELSE 0
    <3>1. CASE mode = "branches" BY <1>1, <1>8, <1>11, <2>1, <3>1 DEF Stands, InBranches
    <3>2. CASE mode # "branches"
      <4>1. runs[r].parallelCount = 0 BY <2>1, <3>2 DEF Stands
      <4>2. ofBranches = {} BY <1>8, <4>1
      <4> QED BY <1>1, <3>2, <4>2
    <3> QED BY <3>1, <3>2
  <2> QED BY <1>9, <1>11, <2>2, <2>3, <2>4, <2>5, <2>6 DEF Modes
<1>12. CASE ~Live(r)
  <2>1. ofTimers = {} /\ ofWaits = {} /\ ofRequests = {} /\ ofTask = {} /\ ofBranches = {}
    BY <1>2, <1>4, <1>6, <1>7, <1>8, <1>10, <1>12 DEF Placed, Nowhere
  <2> QED BY <1>1, <1>9, <1>12, <2>1
<1> QED BY <1>11, <1>12

(* What fits leads to where it was written down.                            *)
LEMMA PlacesLead ==
  ASSUME IInv
  PROVE  LocationsHold
<1>1. Types BY DEF IInv
<1>2. ASSUME NEW c \in ToSet(timers) \union waits \union {active}, c.run # None, c.call.do = "tasks"
      PROVE  c.call.of \in GroupsOf[runs[c.run].script]
  <2>1. PICK r : r = c.run OBVIOUS
  <2>2. CASE c \in ToSet(timers)
    <3>1. PICK i \in DOMAIN timers : c = timers[i] BY <2>2 DEF ToSet
    <3>8. timers \in Seq(ComingType) BY <1>1 DEF Types
    <3>9. c \in ComingType BY <3>1, <3>8
    <3>2. r \in Runs BY <2>1, <3>9 DEF ComingType
    <3>3. Hit(timers[i], r) BY <1>2, <2>1, <3>1 DEF Hit
    <3>4. ~Off(timers, r) BY <3>3 DEF Off
    <3>5. InTimer(r) BY <3>2, <3>4, Whereabouts DEF Stands
    <3>6. PICK call : Comes(timers, r, call) /\ Ready(call, runs[r]) BY <3>5 DEF InTimer
    <3>7. c.call = call BY <3>1, <3>3, <3>6 DEF Comes
    <3> QED BY <1>2, <2>1, <3>6, <3>7 DEF Ready, Fits
  <2>3. CASE c \in waits
    <3>1. r \in Runs BY <1>1, <2>1, <2>3 DEF Types, ComingType
    <3>2. InWait(r) BY <2>1, <2>3, <3>1, Whereabouts DEF Stands
    <3>3. Ready(c.call, runs[r]) BY <2>1, <2>3, <3>2 DEF InWait
    <3> QED BY <1>2, <2>1, <3>3 DEF Ready, Fits
  <2>4. CASE c = active
    <3>1. c \in ComingType /\ r \in Runs BY <1>1, <1>2, <2>1, <2>4 DEF Types, Idle, ComingType
    <3>2. InTask(r) BY <2>1, <2>4, <3>1, Whereabouts DEF Stands
    <3>3. Ready(c.call, runs[r]) BY <2>4, <3>2 DEF InTask
    <3> QED BY <1>2, <2>1, <3>3 DEF Ready, Fits
  <2> QED BY <2>2, <2>3, <2>4
<1>3. ASSUME NEW r \in Runs, Live(r), NEW frame \in ToSet(runs[r].stack), frame.call.do = "tasks"
      PROVE  frame.call.of \in GroupsOf[frame.script]
  <2>1. Stacked(runs[r]) BY <1>3 DEF IInv, Placed
  <2>2. PICK i \in DOMAIN runs[r].stack : frame = runs[r].stack[i] BY <1>3 DEF ToSet
  <2> QED BY <1>3, <2>1, <2>2 DEF Stacked, FrameFits, Fits
<1> QED BY <1>2, <1>3 DEF LocationsHold, Leads

-------------------------------------------------------------------------------
(* Runs of ordinary scripts: each stands at one place, with a stack whose   *)
(* frames fit, and parents count the branches that have not ended.          *)
THEOREM ScriptsSound == Ordinary => (Spec => []IInv)
<1> SUFFICES ASSUME Ordinary PROVE Spec => []IInv OBVIOUS
<1>1. Init => IInv BY InitHolds
<1>2. IInv /\ [Next]_vars => IInv' BY NextKeeps
<1> QED BY <1>1, <1>2, PTL DEF Spec

(* What is left of a run is never done twice and never forgotten, whatever  *)
(* the order of timers, answers and waits.                                  *)
THEOREM ContinuesOnce == Ordinary => (Spec => []OneContinuation)
<1> SUFFICES ASSUME Ordinary PROVE Spec => []OneContinuation OBVIOUS
<1>1. Spec => []IInv BY ScriptsSound
<1>2. IInv => OneContinuation BY StandsOnce
<1> QED BY <1>1, <1>2, PTL

(* A task is looked up in the script that its place was written down for.   *)
THEOREM PlacesHold == Ordinary => (Spec => []LocationsHold)
<1> SUFFICES ASSUME Ordinary PROVE Spec => []LocationsHold OBVIOUS
<1>1. Spec => []IInv BY ScriptsSound
<1>2. IInv => LocationsHold BY PlacesLead
<1> QED BY <1>1, <1>2, PTL

(* A screen that was locked for a script's lockScreen has a frame or a      *)
(* timer that will unlock it, also while tasks lock and unlock it and the   *)
(* user presses the button.  One that a lockscreen task locked need not.    *)
THEOREM LockOwned == Ordinary => (Spec => []LockIsOwned)
<1> SUFFICES ASSUME Ordinary PROVE Spec => []LockIsOwned OBVIOUS
<1>1. Spec => []IInv BY ScriptsSound
<1>2. IInv => LockIsOwned BY DEF IInv
<1> QED BY <1>1, <1>2, PTL

-------------------------------------------------------------------------------
(* What holds of a place if it holds of the lower ones holds of all.        *)
LEMMA ByDepth ==
  ASSUME NEW S, NEW depth \in [S -> Nat], NEW P,
         \A m \in S : (\A x \in S : depth[x] < depth[m] => x \in P) => m \in P
  PROVE  S \subseteq P
<1> SUFFICES ASSUME NEW one \in S, one \notin P PROVE FALSE OBVIOUS
<1> DEFINE Depths == {depth[x] : x \in S \ P}
<1>1. Depths \in SUBSET Nat /\ Depths # {} OBVIOUS
<1>2. PICK n \in Depths : \A k \in Depths : n <= k BY <1>1, Least, Zenon
<1>3. PICK m \in S \ P : n = depth[m] BY <1>2
<1>4. ASSUME NEW x \in S, depth[x] < depth[m], x \notin P PROVE FALSE
  <2>1. depth[x] \in Depths BY <1>4
  <2>2. depth[m] <= depth[x] BY <1>2, <1>3, <2>1
  <2> QED BY <1>4, <2>2
<1> QED BY <1>3, <1>4

(* A function that is given in terms of its values at lower places exists.  *)
ByLower(S, V, depth, step) ==
  /\ depth \in [S -> Nat] /\ [S -> V] # {} /\ step \in [[S -> V] -> [S -> V]]
  /\ \A g, h \in [S -> V] : \A m \in S :
       (\A x \in S : depth[x] < depth[m] => g[x] = h[x]) => step[g][m] = step[h][m]

Fixed(S, V, step) == \E f \in [S -> V] : f = step[f]

(* What is given by the values of lower places exists.                      *)
LEMMA Recursion ==
  ASSUME NEW S, NEW V, NEW depth, NEW step, ByLower(S, V, depth, step)
  PROVE  Fixed(S, V, step)
<1>0. /\ depth \in [S -> Nat] /\ step \in [[S -> V] -> [S -> V]]
      /\ \A g, h \in [S -> V] : \A m \in S :
            (\A x \in S : depth[x] < depth[m] => g[x] = h[x]) => step[g][m] = step[h][m]
  BY DEF ByLower
<1> PICK start \in [S -> V] : TRUE BY DEF ByLower
<1> DEFINE Upto(n, g) == \A m \in S : depth[m] < n => g[m] = step[g][m]
           Found == {n \in Nat : \E g \in [S -> V] : Upto(n, g)}
<1>1. Found = Nat
  <2> SUFFICES ASSUME Nat \ Found # {} PROVE FALSE OBVIOUS
  <2>1. PICK n \in Nat \ Found : \A k \in Nat \ Found : n <= k BY Least, Zenon
  <2>2. n # 0
    <3>1. Upto(0, start) BY <1>0
    <3> QED BY <2>1, <3>1
  <2>3. n - 1 \in Nat /\ n - 1 \in Found BY <2>1, <2>2
  <2>4. PICK g \in [S -> V] : Upto(n - 1, g) BY <2>3
  <2>5. step[g] \in [S -> V] BY <1>0
  <2>6. ASSUME NEW m \in S, depth[m] < n PROVE step[g][m] = step[step[g]][m]
    <3>1. ASSUME NEW x \in S, depth[x] < depth[m] PROVE g[x] = step[g][x]
      <4>1. depth[x] < n - 1 BY <1>0, <2>1, <2>3, <2>6, <3>1
      <4> QED BY <2>4, <4>1
    <3> QED BY <1>0, <2>5, <3>1
  <2>7. Upto(n, step[g]) BY <2>6
  <2> QED BY <2>1, <2>5, <2>7
<1>2. ASSUME NEW n \in Nat, NEW k \in Nat, NEW g \in [S -> V], NEW h \in [S -> V], Upto(n, g), Upto(k, h)
      PROVE  \A m \in S : depth[m] < n /\ depth[m] < k => g[m] = h[m]
  <2> DEFINE P == {m \in S : depth[m] < n /\ depth[m] < k => g[m] = h[m]}
  <2>1. ASSUME NEW m \in S, \A x \in S : depth[x] < depth[m] => x \in P, depth[m] < n, depth[m] < k
        PROVE  g[m] = h[m]
    <3>1. \A x \in S : depth[x] < depth[m] => g[x] = h[x] BY <1>0, <2>1
    <3>2. step[g][m] = step[h][m] BY <1>0, <3>1
    <3> QED BY <1>2, <2>1, <3>2
  <2>2. \A m \in S : (\A x \in S : depth[x] < depth[m] => x \in P) => m \in P BY <2>1
  <2>3. S \subseteq P
    <3> HIDE DEF P
    <3> QED BY <1>0, <2>2, ByDepth
  <2> QED BY <2>3
<1> DEFINE First(m) == CHOOSE g \in [S -> V] : Upto(depth[m] + 1, g)
           f == [m \in S |-> First(m)[m]]
<1>3. ASSUME NEW m \in S PROVE First(m) \in [S -> V] /\ Upto(depth[m] + 1, First(m))
  <2>0. depth[m] + 1 \in Found BY <1>0, <1>1
  <2> HIDE DEF Upto
  <2>1. \E g \in [S -> V] : Upto(depth[m] + 1, g) BY <2>0
  <2> QED BY <2>1
<1>4. f \in [S -> V] BY <1>3
<1>5. ASSUME NEW m \in S PROVE f[m] = step[f][m]
  <2>0. Upto(depth[m] + 1, First(m)) BY <1>3, Zenon
  <2>1. First(m)[m] = step[First(m)][m]
    <3>1. depth[m] < depth[m] + 1 BY <1>0
    <3> HIDE DEF First
    <3> QED BY <2>0, <3>1
  <2>2. ASSUME NEW x \in S, depth[x] < depth[m] PROVE First(m)[x] = f[x]
    <3>1. depth[x] < depth[m] + 1 /\ depth[x] < depth[x] + 1 /\ depth[m] + 1 \in Nat /\ depth[x] + 1 \in Nat
      BY <1>0, <2>2
    <3>2. f[x] = First(x)[x] BY <2>2
    <3> HIDE DEF Upto, First, f
    <3>4. /\ First(m) \in [S -> V] /\ Upto(depth[m] + 1, First(m))
          /\ First(x) \in [S -> V] /\ Upto(depth[x] + 1, First(x)) BY <1>3, <2>2
    <3>3. First(m)[x] = First(x)[x] BY <1>2, <2>2, <3>1, <3>4
    <3> QED BY <3>2, <3>3
  <2>3. First(m) \in [S -> V] BY <1>3
  <2> HIDE DEF First, f
  <2>4. step[First(m)][m] = step[f][m] BY <1>0, <1>4, <2>2, <2>3, Zenon
  <2>5. f[m] = First(m)[m] BY DEF f
  <2> QED BY <2>1, <2>4, <2>5
<1> HIDE DEF f
<1>6. step[f] \in [S -> V] BY <1>0, <1>4
<1> QED BY <1>4, <1>5, <1>6 DEF Fixed
-------------------------------------------------------------------------------
(* The ways in which a part of a script is done.                            *)
Lefts == {"next", "break", "breakcontrolgroup", "return", "exit"}
Logs == Seq(DOMAIN Group \union {"joined"})
WaysOut(lefts) == [log: Logs, left: lefts]

LEMMA DoesIs ==
  /\ \A done, left : Does(done, left).log = done /\ Does(done, left).left = left
  /\ \A lefts : \A done \in Logs, left \in lefts : Does(done, left) \in WaysOut(lefts)
  /\ \A lefts : \A w \in WaysOut(lefts) :
       w.log \in Logs /\ w.left \in lefts /\ w = Does(w.log, w.left)
  /\ <<>> \in Logs
BY DEF Does, WaysOut, Logs

(* Sequences of what tasks log.                                             *)
LEMMA LogFacts ==
  /\ \A a, b \in Logs : a \o b \in Logs
  /\ \A a \in Logs : a \o <<>> = a /\ <<>> \o a = a
  /\ \A a, b, c \in Logs : (a \o b) \o c = a \o (b \o c)
BY DEF Logs

(* Parts in turn: one that is left otherwise, or each with each.            *)
LEMMA ThenHas ==
  ASSUME NEW A, NEW B
  PROVE  \A w : w \in Then(A, B) <=>
           \/ w \in A /\ w.left # "next"
           \/ \E a \in A, b \in B : a.left = "next" /\ w = Does(a.log \o b.log, b.left)
BY DEF Then

LEMMA ThenWays ==
  ASSUME NEW lefts, "next" \in lefts, NEW A, NEW B, A \subseteq WaysOut(lefts), B \subseteq WaysOut(lefts)
  PROVE  /\ Then(A, B) \subseteq WaysOut(lefts)
         /\ A # {} /\ B # {} => Then(A, B) # {}
         /\ Then(Nothing, B) = B
<1>1. \A w \in Then(A, B) : w \in WaysOut(lefts)
  <2> TAKE w \in Then(A, B)
  <2>1. CASE w \in A /\ w.left # "next" BY <2>1
  <2>2. CASE \E a \in A, b \in B : a.left = "next" /\ w = Does(a.log \o b.log, b.left)
    <3>1. PICK a \in A, b \in B : w = Does(a.log \o b.log, b.left) BY <2>2
    <3>2. a.log \o b.log \in Logs /\ b.left \in lefts BY DoesIs, LogFacts
    <3> QED BY <3>1, <3>2, DoesIs
  <2> QED BY <2>1, <2>2, ThenHas
<1>2. ASSUME NEW a \in A, NEW b \in B PROVE Then(A, B) # {}
  <2>1. CASE a.left = "next"
    <3>1. Does(a.log \o b.log, b.left) \in Then(A, B) BY <2>1, ThenHas
    <3> QED BY <3>1
  <2>2. CASE a.left # "next" BY <2>2, ThenHas
  <2> QED BY <2>1, <2>2
<1>3. Then(Nothing, B) = B
  <2>1. Does(<<>>, "next") \in Nothing /\ \A a \in Nothing : a = Does(<<>>, "next") BY DEF Nothing
  <2>2. \A b \in B : Does(<<>> \o b.log, b.left) = b
    <3> TAKE b \in B
    <3>1. b \in WaysOut(lefts) OBVIOUS
    <3>2. b.log \in Logs /\ b = Does(b.log, b.left) BY <3>1, DoesIs
    <3>3. <<>> \o b.log = b.log BY <3>2, LogFacts
    <3> QED BY <3>2, <3>3
  <2>3. Does(<<>>, "next").log = <<>> /\ Does(<<>>, "next").left = "next" BY DoesIs
  <2>4. ASSUME NEW w \in Then(Nothing, B) PROVE w \in B
    <3>1. \E a \in Nothing, b \in B : a.left = "next" /\ w = Does(a.log \o b.log, b.left)
      BY <2>1, <2>3, <2>4, ThenHas
    <3>2. PICK b \in B : w = Does(<<>> \o b.log, b.left) BY <2>1, <2>3, <3>1
    <3> QED BY <2>2, <3>2
  <2>5. ASSUME NEW b \in B PROVE b \in Then(Nothing, B)
    <3>1. b = Does(Does(<<>>, "next").log \o b.log, b.left) BY <2>2, <2>3
    <3> QED BY <2>1, <2>3, <3>1, ThenHas
  <2> QED BY <2>4, <2>5
<1> QED BY <1>1, <1>2, <1>3

(* What comes after something comes after what it ends with.                *)
LEMMA ThenTogether ==
  ASSUME NEW lefts, NEW A, NEW B, NEW C,
         A \subseteq WaysOut(lefts), B \subseteq WaysOut(lefts), C \subseteq WaysOut(lefts)
  PROVE  Then(A, Then(B, C)) \subseteq Then(Then(A, B), C)
<1> SUFFICES ASSUME NEW w \in Then(A, Then(B, C)) PROVE w \in Then(Then(A, B), C) OBVIOUS
<1>1. CASE w \in A /\ w.left # "next" BY <1>1, ThenHas
<1>2. CASE \E a \in A, d \in Then(B, C) : a.left = "next" /\ w = Does(a.log \o d.log, d.left)
  <2>1. PICK a \in A, d \in Then(B, C) : a.left = "next" /\ w = Does(a.log \o d.log, d.left) BY <1>2
  <2>2. CASE d \in B /\ d.left # "next"
    <3>1. w \in Then(A, B) BY <2>1, <2>2, ThenHas
    <3>2. w.left # "next" BY <2>1, <2>2, DoesIs
    <3> QED BY <3>1, <3>2, ThenHas
  <2>3. CASE \E b \in B, c \in C : b.left = "next" /\ d = Does(b.log \o c.log, c.left)
    <3>1. PICK b \in B, c \in C : b.left = "next" /\ d = Does(b.log \o c.log, c.left) BY <2>3
    <3>2. PICK e : e = Does(a.log \o b.log, b.left) OBVIOUS
    <3>3. e \in Then(A, B) /\ e.log = a.log \o b.log /\ e.left = "next" BY <2>1, <3>1, <3>2, ThenHas, DoesIs
    <3>4. a.log \in Logs /\ b.log \in Logs /\ c.log \in Logs BY DoesIs
    <3>5. d.log = b.log \o c.log /\ d.left = c.left BY <3>1, DoesIs
    <3>7. a.log \o (b.log \o c.log) = (a.log \o b.log) \o c.log BY <3>4, LogFacts
    <3>6. w = Does(e.log \o c.log, c.left) BY <2>1, <3>3, <3>5, <3>7
    <3> QED BY <3>3, <3>6, ThenHas
  <2> QED BY <2>1, <2>2, <2>3, ThenHas
<1> QED BY <1>1, <1>2, ThenHas

(* Parts of a script, one after the other.                                  *)
LEMMA RestUnfolds ==
  ASSUME NEW lefts, "next" \in lefts, NEW n \in Nat, NEW parts \in [1..n -> SUBSET WaysOut(lefts)]
  PROVE  \A i \in Nat :
           Rest(parts, i) = IF i \in 1..n THEN Then(parts[i], Rest(parts, i + 1)) ELSE Nothing
<1>0. PICK I : I = 1..n OBVIOUS
<1> DEFINE V == SUBSET WaysOut(lefts)
           Next1(f, k) == Then(parts[k], IF k = n THEN Nothing ELSE f[k + 1])
           step == [f \in [I -> V] |-> [k \in I |-> Next1(f, k)]]
           depth == [k \in I |-> n - k]
<1>1. depth \in [I -> Nat] /\ \A k \in I : k # n => k + 1 \in I /\ depth[k + 1] < depth[k]
  BY <1>0
<1>2. Nothing \in V BY DoesIs DEF Nothing
<1>3. \A f \in [I -> V] : \A k \in I : Next1(f, k) \in V
  <2> TAKE f \in [I -> V]
  <2> TAKE k \in I
  <2>1. parts[k] \in V BY <1>0
  <2>2. (IF k = n THEN Nothing ELSE f[k + 1]) \in V BY <1>1, <1>2
  <2> QED BY <2>1, <2>2, ThenWays
<1>4. \A f, g \in [I -> V] : \A k \in I :
        (\A x \in I : depth[x] < depth[k] => f[x] = g[x]) => Next1(f, k) = Next1(g, k)
  BY <1>1, Zenon
<1> HIDE DEF Next1, depth, V
<1>5. ByLower(I, V, depth, step)
  <2>1. step \in [[I -> V] -> [I -> V]] BY <1>3, Zenon
  <2>2. \A f, g \in [I -> V] : \A k \in I :
          (\A x \in I : depth[x] < depth[k] => f[x] = g[x]) => step[f][k] = step[g][k]
    BY <1>4, ZenonT(60)
  <2>3. [I -> V] # {}
    <3>1. [k \in I |-> Nothing] \in [I -> V] BY <1>2
    <3> QED BY <3>1
  <2> HIDE DEF step
  <2> QED BY <1>1, <2>1, <2>2, <2>3, Zenon DEF ByLower
<1>6. \E f \in [I -> V] : f = step[f]
  <2> HIDE DEF step
  <2> QED BY <1>5, Recursion DEF Fixed
<1> DEFINE Eq(f) == f = [k \in I |-> Next1(f, k)]
           F == CHOOSE f : Eq(f)
<1>7. Eq(F)
  <2>1. \E f : Eq(f) BY <1>6
  <2> HIDE DEF Eq
  <2> QED BY <2>1
<1>8. \A k \in I : F[k] = Next1(F, k)
  <2> HIDE DEF F
  <2> QED BY <1>7
<1>9. Len(parts) = n /\ DOMAIN parts = I BY <1>0, LenProperties, SMT
<1>10. \A i : Rest(parts, i) = IF i \in I THEN F[i] ELSE Nothing BY <1>9 DEF Rest, Next1
<1> HIDE DEF F
<1>11. ASSUME NEW i \in I PROVE F[i] = Then(parts[i], Rest(parts, i + 1))
  <2>1. i = n => i + 1 \notin I BY <1>0
  <2>2. Rest(parts, i + 1) = IF i = n THEN Nothing ELSE F[i + 1] BY <1>1, <1>10, <2>1
  <2> QED BY <1>8, <2>2 DEF Next1
<1> QED BY <1>0, <1>10, <1>11

(* They are ways as well; there are some if each part has some.             *)
LEMMA RestWays ==
  ASSUME NEW lefts, "next" \in lefts, NEW n \in Nat, NEW parts \in [1..n -> SUBSET WaysOut(lefts)]
  PROVE  \A i \in Nat : /\ Rest(parts, i) \subseteq WaysOut(lefts)
                        /\ (\A k \in 1..n : parts[k] # {}) => Rest(parts, i) # {}
<1>1. PICK I : I = 1..n OBVIOUS
<1> DEFINE depth == [k \in I |-> n - k]
           Good(i) == /\ Rest(parts, i) \subseteq WaysOut(lefts)
                      /\ (\A k \in 1..n : parts[k] # {}) => Rest(parts, i) # {}
           P == {k \in I : Good(k)}
<1>2. depth \in [I -> Nat] BY <1>1
<1>3. Nothing \subseteq WaysOut(lefts) /\ Nothing # {} BY DoesIs DEF Nothing
<1>4. \A i \in Nat : i \notin I => Good(i) BY <1>1, <1>3, RestUnfolds
<1>5. ASSUME NEW k \in I, \A x \in I : depth[x] < depth[k] => x \in P PROVE Good(k)
  <2>1. Good(k + 1)
    <3>1. CASE k + 1 \in I
      <4>1. depth[k + 1] < depth[k] BY <1>1, <3>1
      <4> QED BY <1>5, <3>1, <4>1
    <3>2. CASE k + 1 \notin I BY <1>1, <1>4, <3>2
    <3> QED BY <3>1, <3>2
  <2>2. Rest(parts, k) = Then(parts[k], Rest(parts, k + 1)) BY <1>1, RestUnfolds
  <2>3. parts[k] \subseteq WaysOut(lefts) /\ k \in 1..n BY <1>1
  <2> QED BY <2>1, <2>2, <2>3, ThenWays
<1>6. I \subseteq P
  <2>1. \A k \in I : (\A x \in I : depth[x] < depth[k] => x \in P) => k \in P BY <1>5
  <2> HIDE DEF P, depth
  <2> QED BY <1>2, <2>1, ByDepth, Zenon
<1> QED BY <1>4, <1>6

(* Parts that can be skipped.                                               *)
LEMMA SkipParts ==
  ASSUME NEW lefts, "next" \in lefts, NEW n \in Nat, NEW parts \in [1..n -> SUBSET WaysOut(lefts)],
         NEW k \in Nat, NEW m \in Nat, k <= m, m <= n + 1, 0 < k,
         \A i \in k..m - 1 : Nothing \subseteq parts[i]
  PROVE  Rest(parts, m) \subseteq Rest(parts, k)
<1>1. PICK I : I = k..m OBVIOUS
<1> DEFINE depth == [i \in I |-> m - i]
           P == {i \in I : Rest(parts, m) \subseteq Rest(parts, i)}
<1>2. depth \in [I -> Nat] BY <1>1
<1>3. ASSUME NEW i \in I, \A x \in I : depth[x] < depth[i] => x \in P PROVE i \in P
  <2>1. CASE i = m BY <1>3, <2>1
  <2>2. CASE i # m
    <3>1. i + 1 \in I /\ depth[i + 1] < depth[i] /\ i \in 1..n /\ i \in k..m - 1 BY <1>1, <2>2
    <3>2. Rest(parts, m) \subseteq Rest(parts, i + 1) BY <1>3, <3>1
    <3>3. Rest(parts, i) = Then(parts[i], Rest(parts, i + 1)) BY <3>1, RestUnfolds
    <3>4. Rest(parts, i + 1) \subseteq WaysOut(lefts) BY <3>1, RestWays
    <3>5. Then(Nothing, Rest(parts, i + 1)) = Rest(parts, i + 1)
      <4>1. Nothing \subseteq WaysOut(lefts) BY DoesIs DEF Nothing
      <4> QED BY <3>4, <4>1, ThenWays
    <3>6. Then(Nothing, Rest(parts, i + 1)) \subseteq Then(parts[i], Rest(parts, i + 1))
      <4>1. Nothing \subseteq parts[i] BY <3>1
      <4> QED BY <4>1, ThenHas
    <3> QED BY <3>2, <3>3, <3>5, <3>6
  <2> QED BY <2>1, <2>2
<1>4. I \subseteq P
  <2>1. \A i \in I : (\A x \in I : depth[x] < depth[i] => x \in P) => i \in P BY <1>3
  <2> HIDE DEF P, depth
  <2> QED BY <1>2, <2>1, ByDepth, Zenon
<1>5. k \in I BY <1>1
<1> QED BY <1>4, <1>5

(* What the definitions of tasks and scripts are.                           *)
LEMMA GroupFacts ==
  ASSUME NEW g \in DOMAIN Group
  PROVE  LET lists == Group[g].taskList IN
           /\ Len(lists) \in Nat /\ DOMAIN lists = 1..Len(lists)
           /\ \A l \in DOMAIN lists :
                /\ lists[l].repeat \in Nat
                /\ Len(lists[l].tasks) \in Nat /\ DOMAIN lists[l].tasks = 1..Len(lists[l].tasks)
                /\ \A i \in DOMAIN lists[l].tasks : lists[l].tasks[i] \in DOMAIN Group
<1> DEFINE ListType == [repeat: Nat, tasks: Seq(DOMAIN Group)]
<1>1. PICK lists : lists = Group[g].taskList OBVIOUS
<1>2. lists \in Seq(ListType) BY <1>1, ScriptAssumption
<1> HIDE DEF ListType
<1>3. Len(lists) \in Nat /\ DOMAIN lists = 1..Len(lists) /\ \A l \in DOMAIN lists : lists[l] \in ListType
  BY <1>2
<1>4. \A list \in ListType : list.repeat \in Nat /\ list.tasks \in Seq(DOMAIN Group) BY DEF ListType
<1>5. \A tasks \in Seq(DOMAIN Group) :
        /\ Len(tasks) \in Nat /\ DOMAIN tasks = 1..Len(tasks)
        /\ \A i \in DOMAIN tasks : tasks[i] \in DOMAIN Group
  OBVIOUS
<1> QED BY <1>1, <1>3, <1>4, <1>5

LEMMA ScriptFacts ==
  ASSUME NEW s \in DOMAIN Script
  PROVE  LET tasks == Script[s].tasks IN
           /\ Len(tasks) \in Nat /\ DOMAIN tasks = 1..Len(tasks)
           /\ \A i \in DOMAIN tasks : tasks[i] \in GroupsOf[s] /\ tasks[i] \in DOMAIN Group
<1>1. Script[s].tasks \in Seq(GroupsOf[s]) /\ GroupsOf[s] \subseteq DOMAIN Group BY ScriptAssumption
<1> QED BY <1>1

(* How a part is left, and what it has then done.                           *)
LEMMA LeavingWays ==
  ASSUME NEW lefts, NEW ways, ways \subseteq WaysOut(lefts), NEW ends
  PROVE  /\ Leaving(ways, ends) \subseteq WaysOut((lefts \ ends) \union {"next"})
         /\ ways # {} => Leaving(ways, ends) # {}
         /\ \A w \in ways : (IF w.left \in ends THEN Does(w.log, "next") ELSE w) \in Leaving(ways, ends)
         /\ \A v \in Leaving(ways, ends) : \E w \in ways : v.log = w.log
         /\ Nothing \subseteq ways => Nothing \subseteq Leaving(ways, ends)
<1>1. \A w \in ways : (IF w.left \in ends THEN Does(w.log, "next") ELSE w) \in WaysOut((lefts \ ends) \union {"next"})
  <2> TAKE w \in ways
  <2>1. w \in WaysOut(lefts) OBVIOUS
  <2>2. w.log \in Logs /\ w.left \in lefts /\ w = Does(w.log, w.left) BY <2>1, DoesIs
  <2>3. CASE w.left \in ends BY <2>2, <2>3, DoesIs
  <2>4. CASE w.left \notin ends
    <3>1. w.left \in (lefts \ ends) \union {"next"} BY <2>2, <2>4
    <3>2. Does(w.log, w.left) \in WaysOut((lefts \ ends) \union {"next"}) BY <2>2, <3>1, DoesIs
    <3> QED BY <2>2, <2>4, <3>2
  <2> QED BY <2>3, <2>4
<1>2. \A w \in ways : (IF w.left \in ends THEN Does(w.log, "next") ELSE w) \in Leaving(ways, ends)
  BY DEF Leaving
<1>3. \A v \in Leaving(ways, ends) : \E w \in ways : v = IF w.left \in ends THEN Does(w.log, "next") ELSE w
  BY DEF Leaving
<1>4. \A v \in Leaving(ways, ends) : \E w \in ways : v.log = w.log BY <1>3, DoesIs
<1>5. Nothing \subseteq ways => Nothing \subseteq Leaving(ways, ends)
  <2> SUFFICES ASSUME Does(<<>>, "next") \in ways PROVE Does(<<>>, "next") \in Leaving(ways, ends)
    BY DEF Nothing
  <2> QED BY <1>2, DoesIs
<1> QED BY <1>1, <1>2, <1>3, <1>4, <1>5

-------------------------------------------------------------------------------
(* The ways of tasks.                                                       *)
Typed(W) == W \in [DOMAIN Group -> SUBSET WaysOut(Lefts)]

(* What a task is made of.                                                  *)
Uses(g, h) ==
  \/ \E l \in DOMAIN Group[g].taskList : \E i \in DOMAIN Group[g].taskList[l].tasks :
       h = Group[g].taskList[l].tasks[i]
  \/ Group[g].type = "action" /\ \E i \in DOMAIN Script[Group[g].script].tasks :
       h = Script[Group[g].script].tasks[i]

(* The parts of a list, of a group and of a script have some ways each.     *)
LEMMA ListParts ==
  ASSUME NEW W, Typed(W), NEW g \in DOMAIN Group, NEW l \in DOMAIN Group[g].taskList
  PROVE  LET list == Group[g].taskList[l]
             filled == \A i \in DOMAIN list.tasks : W[list.tasks[i]] # {}
         IN  /\ TasksOf(list, W) \in [1..Len(list.tasks) -> SUBSET WaysOut(Lefts)]
             /\ Rounds(list, W) \in [1..list.repeat -> SUBSET WaysOut(Lefts)]
             /\ \A i \in DOMAIN list.tasks : TasksOf(list, W)[i] = W[list.tasks[i]]
             /\ \A n \in 1..list.repeat : Rounds(list, W)[n] = Rest(TasksOf(list, W), 1)
             /\ filled => \A i \in Nat : Rest(TasksOf(list, W), i) # {}
             /\ filled => \A i \in Nat : Rest(Rounds(list, W), i) # {}
<1>1. PICK list : list = Group[g].taskList[l] OBVIOUS
<1>2. /\ list.repeat \in Nat /\ Len(list.tasks) \in Nat /\ DOMAIN list.tasks = 1..Len(list.tasks)
      /\ \A i \in DOMAIN list.tasks : list.tasks[i] \in DOMAIN Group
  BY <1>1, GroupFacts
<1>3. \A h \in DOMAIN Group : W[h] \in SUBSET WaysOut(Lefts) BY DEF Typed
<1>4. PICK tasks : tasks = TasksOf(list, W) OBVIOUS
<1>5. /\ tasks \in [1..Len(list.tasks) -> SUBSET WaysOut(Lefts)]
      /\ \A i \in DOMAIN list.tasks : tasks[i] = W[list.tasks[i]]
  BY <1>2, <1>3, <1>4 DEF TasksOf
<1>6. "next" \in Lefts BY DEF Lefts
<1>7. /\ \A i \in Nat : Rest(tasks, i) \in SUBSET WaysOut(Lefts)
      /\ (\A i \in DOMAIN list.tasks : W[list.tasks[i]] # {}) => \A i \in Nat : Rest(tasks, i) # {}
  <2>1. (\A i \in DOMAIN list.tasks : W[list.tasks[i]] # {}) => \A i \in 1..Len(list.tasks) : tasks[i] # {}
    BY <1>2, <1>5
  <2>2. \A i \in Nat : /\ Rest(tasks, i) \subseteq WaysOut(Lefts)
                       /\ (\A k \in 1..Len(list.tasks) : tasks[k] # {}) => Rest(tasks, i) # {}
    <3>1. PICK n : n = Len(list.tasks) OBVIOUS
    <3>2. n \in Nat /\ tasks \in [1..n -> SUBSET WaysOut(Lefts)] BY <1>2, <1>5, <3>1
    <3>3. \A i \in Nat : /\ Rest(tasks, i) \subseteq WaysOut(Lefts)
                         /\ (\A k \in 1..n : tasks[k] # {}) => Rest(tasks, i) # {}
      BY <1>6, <3>2, RestWays
    <3> QED BY <3>1, <3>3
  <2> QED BY <2>1, <2>2
<1>8. PICK rounds : rounds = Rounds(list, W) OBVIOUS
<1>9. rounds = [n \in 1..list.repeat |-> Rest(tasks, 1)] BY <1>4, <1>8 DEF Rounds
<1>10. /\ rounds \in [1..list.repeat -> SUBSET WaysOut(Lefts)]
       /\ \A n \in 1..list.repeat : rounds[n] = Rest(tasks, 1)
  BY <1>7, <1>9
<1>11. (\A i \in DOMAIN list.tasks : W[list.tasks[i]] # {}) => \A i \in Nat : Rest(rounds, i) # {}
  <2>1. (\A i \in DOMAIN list.tasks : W[list.tasks[i]] # {}) => \A n \in 1..list.repeat : rounds[n] # {}
    BY <1>7, <1>10
  <2> QED BY <1>2, <1>6, <1>10, <2>1, RestWays
<1> QED BY <1>1, <1>4, <1>5, <1>7, <1>8, <1>10, <1>11

LEMMA GroupParts ==
  ASSUME NEW W, Typed(W), NEW g \in DOMAIN Group
  PROVE  LET lists == Group[g].taskList
             filled == \A h \in DOMAIN Group : Uses(g, h) => W[h] # {}
         IN  /\ ListsOf(g, W) \in [1..Len(lists) -> SUBSET WaysOut(Lefts)]
             /\ \A l \in DOMAIN lists : ListsOf(g, W)[l] = Rest(Rounds(lists[l], W), 1)
             /\ filled => \A i \in Nat : Rest(ListsOf(g, W), i) # {}
             /\ OfGroup(g, W) \subseteq WaysOut(Lefts \ {"break"})
             /\ filled => OfGroup(g, W) # {}
<1>1. PICK lists : lists = Group[g].taskList OBVIOUS
<1>2. /\ Len(lists) \in Nat /\ DOMAIN lists = 1..Len(lists)
      /\ \A l \in DOMAIN lists : lists[l].repeat \in Nat
      /\ \A l \in DOMAIN lists : \A i \in DOMAIN lists[l].tasks :
           lists[l].tasks[i] \in DOMAIN Group /\ Uses(g, lists[l].tasks[i])
  BY <1>1, GroupFacts DEF Uses
<1> DEFINE filled == \A h \in DOMAIN Group : Uses(g, h) => W[h] # {}
<1>3. "next" \in Lefts BY DEF Lefts
<1>4. ASSUME NEW l \in DOMAIN lists
      PROVE  /\ Rest(Rounds(lists[l], W), 1) \in SUBSET WaysOut(Lefts)
             /\ filled => Rest(Rounds(lists[l], W), 1) # {}
  <2>1. Rounds(lists[l], W) \in [1..lists[l].repeat -> SUBSET WaysOut(Lefts)]
        /\ ((\A i \in DOMAIN lists[l].tasks : W[lists[l].tasks[i]] # {}) => Rest(Rounds(lists[l], W), 1) # {})
    <3>1. PICK list : list = Group[g].taskList[l] OBVIOUS
    <3>2. l \in DOMAIN Group[g].taskList /\ lists[l] = list BY <1>1, <1>4, <3>1
    <3>3. /\ Rounds(list, W) \in [1..list.repeat -> SUBSET WaysOut(Lefts)]
          /\ (\A i \in DOMAIN list.tasks : W[list.tasks[i]] # {}) => \A i \in Nat : Rest(Rounds(list, W), i) # {}
      <4>1. l \in DOMAIN Group[g].taskList BY <3>2
      <4>2. LET one == Group[g].taskList[l] IN
              /\ Rounds(one, W) \in [1..one.repeat -> SUBSET WaysOut(Lefts)]
              /\ (\A i \in DOMAIN one.tasks : W[one.tasks[i]] # {}) => \A i \in Nat : Rest(Rounds(one, W), i) # {}
        BY <4>1, ListParts, Zenon
      <4> QED BY <3>1, <4>2, Zenon
    <3> QED BY <3>2, <3>3
  <2>2. Rest(Rounds(lists[l], W), 1) \subseteq WaysOut(Lefts) BY <1>2, <1>3, <2>1, RestWays
  <2> QED BY <1>2, <2>1, <2>2
<1>5. PICK parts : parts = ListsOf(g, W) OBVIOUS
<1>6. /\ parts \in [1..Len(lists) -> SUBSET WaysOut(Lefts)]
      /\ \A l \in DOMAIN lists : parts[l] = Rest(Rounds(lists[l], W), 1)
  BY <1>1, <1>2, <1>4, <1>5 DEF ListsOf
<1>7. filled => \A l \in 1..Len(lists) : parts[l] # {} BY <1>2, <1>4, <1>6
<1> HIDE DEF filled
<1>8. \A i \in Nat : Rest(parts, i) \subseteq WaysOut(Lefts) /\ (filled => Rest(parts, i) # {})
  <2>1. PICK n : n = Len(lists) OBVIOUS
  <2>2. n \in Nat /\ parts \in [1..n -> SUBSET WaysOut(Lefts)] BY <1>2, <1>6, <2>1
  <2>3. \A i \in Nat : /\ Rest(parts, i) \subseteq WaysOut(Lefts)
                       /\ (\A k \in 1..n : parts[k] # {}) => Rest(parts, i) # {}
    BY <1>3, <2>2, RestWays
  <2> QED BY <1>7, <2>1, <2>3
<1>9. OfGroup(g, W) = Leaving(Rest(parts, 1), {"break"}) BY <1>5 DEF OfGroup
<1>10. OfGroup(g, W) \subseteq WaysOut((Lefts \ {"break"}) \union {"next"}) /\ (filled => OfGroup(g, W) # {})
  BY <1>8, <1>9, LeavingWays
<1>11. (Lefts \ {"break"}) \union {"next"} = Lefts \ {"break"} BY DEF Lefts
<1> QED BY <1>1, <1>5, <1>6, <1>8, <1>10, <1>11 DEF filled

LEMMA ScriptParts ==
  ASSUME NEW W, NEW lefts \in SUBSET Lefts, "next" \in lefts, NEW s \in DOMAIN Script,
         \A i \in DOMAIN Script[s].tasks : W[Script[s].tasks[i]] \subseteq WaysOut(lefts)
  PROVE  LET parts == PartsOf(s, W)
             filled == \A i \in DOMAIN Script[s].tasks : W[Script[s].tasks[i]] # {}
         IN  /\ parts \in [1..Len(Script[s].tasks) -> SUBSET WaysOut(lefts \ {"breakcontrolgroup"})]
             /\ \A i \in DOMAIN Script[s].tasks :
                  parts[i] = Leaving(W[Script[s].tasks[i]], {"breakcontrolgroup"})
             /\ filled => \A i \in Nat : Rest(parts, i) # {}
             /\ OfScript(s, W) \subseteq WaysOut(Lefts)
             /\ filled => OfScript(s, W) # {}
<1>1. PICK parts, tasks : tasks = Script[s].tasks /\ parts = PartsOf(s, W) OBVIOUS
<1>2. Len(tasks) \in Nat /\ DOMAIN tasks = 1..Len(tasks) BY <1>1, ScriptFacts
<1>3. /\ DOMAIN parts = 1..Len(tasks) /\ parts = [i \in 1..Len(tasks) |-> parts[i]]
      /\ \A i \in DOMAIN tasks : parts[i] = Leaving(W[tasks[i]], {"breakcontrolgroup"})
  BY <1>1, <1>2 DEF PartsOf
<1>4. (lefts \ {"breakcontrolgroup"}) \union {"next"} = lefts \ {"breakcontrolgroup"} OBVIOUS
<1>5. \A i \in DOMAIN tasks : parts[i] \subseteq WaysOut(lefts \ {"breakcontrolgroup"})
                              /\ (W[tasks[i]] # {} => parts[i] # {})
  <2> TAKE i \in DOMAIN tasks
  <2>1. W[tasks[i]] \subseteq WaysOut(lefts) BY <1>1
  <2>2. Leaving(W[tasks[i]], {"breakcontrolgroup"}) \subseteq WaysOut((lefts \ {"breakcontrolgroup"}) \union {"next"})
        /\ (W[tasks[i]] # {} => Leaving(W[tasks[i]], {"breakcontrolgroup"}) # {})
    BY <2>1, LeavingWays
  <2> QED BY <1>3, <1>4, <2>2
<1>6. parts \in [1..Len(tasks) -> SUBSET WaysOut(lefts \ {"breakcontrolgroup"})]
  <2>1. \A i \in 1..Len(tasks) : parts[i] \in SUBSET WaysOut(lefts \ {"breakcontrolgroup"}) BY <1>2, <1>5
  <2> QED BY <1>3, <2>1
<1>7. "next" \in lefts \ {"breakcontrolgroup"} OBVIOUS
<1> DEFINE filled == \A i \in DOMAIN tasks : W[tasks[i]] # {}
<1>8. filled => \A i \in 1..Len(tasks) : parts[i] # {} BY <1>2, <1>5
<1> HIDE DEF filled
<1>9. \A i \in Nat : Rest(parts, i) \subseteq WaysOut(lefts \ {"breakcontrolgroup"}) /\ (filled => Rest(parts, i) # {})
  BY <1>2, <1>6, <1>7, <1>8, RestWays
<1>10. OfScript(s, W) = Leaving(Rest(parts, 1), {"return"}) BY <1>1 DEF OfScript
<1>11. /\ OfScript(s, W) \subseteq WaysOut(((lefts \ {"breakcontrolgroup"}) \ {"return"}) \union {"next"})
       /\ filled => OfScript(s, W) # {}
  BY <1>9, <1>10, LeavingWays
<1>12. WaysOut(((lefts \ {"breakcontrolgroup"}) \ {"return"}) \union {"next"}) \subseteq WaysOut(Lefts)
  BY DEF WaysOut
<1> QED BY <1>1, <1>3, <1>6, <1>9, <1>11, <1>12 DEF filled

(* The ways of a task by its type.                                          *)
LEMMA TaskCases ==
  ASSUME NEW W, NEW g, Plain, g \in DOMAIN Group
  PROVE  LET task == Group[g] IN
           /\ task.type = "step" =>
                OfTask(g, W) = {Does(<<g>>, "next")} \union {Does(<<>>, "exit") : f \in {TRUE} \intersect {task.fails}}
           /\ task.type = "task" => OfTask(g, W) = OfGroup(g, W)
           /\ task.type = "IF" => OfTask(g, W) = UNION {OfCheck(g, outcome, W) : outcome \in task.check}
           /\ task.type = "action" => OfTask(g, W) = OfScript(task.script, W)
           /\ task.type = "retry" => OfTask(g, W) = {Does(<<>>, "return")}
           /\ task.type = "wait" => OfTask(g, W) = Nothing
           /\ task.type = "parallel" => OfTask(g, W) = {Does(<<"joined">>, "next")}
           /\ task.type \in {"lockscreen", "unlockscreen"} => OfTask(g, W) = {Does(<<g>>, "next")}
           /\ task.type \in {"breakcheck", "reload"} => OfTask(g, W) = {Does(<<>>, "exit")}
           /\ task.type \in {"break", "breakcontrolgroup", "return", "exit"} =>
                OfTask(g, W) = {Does(<<>>, task.type)}
           /\ task.type \in {"step", "task", "IF", "action", "retry", "wait", "parallel",
                             "lockscreen", "unlockscreen", "break", "breakcheck",
                             "breakcontrolgroup", "return", "exit", "reload"}
<1>1. PICK type : type = Group[g].type OBVIOUS
<1>2. type \in {"step", "task", "IF", "action", "retry", "wait", "parallel",
                "lockscreen", "unlockscreen", "break", "breakcheck",
                "breakcontrolgroup", "return", "exit", "reload"}
  BY <1>1 DEF Plain
<1> DEFINE step == {Does(<<g>>, "next")} \union {Does(<<>>, "exit") : f \in {TRUE} \intersect {Group[g].fails}}
           check == UNION {OfCheck(g, outcome, W) : outcome \in Group[g].check}
<1>3. OfTask(g, W) =
        CASE type = "step"     -> step
          [] type \in {"lockscreen", "unlockscreen"} -> {Does(<<g>>, "next")}
          [] type = "task"     -> OfGroup(g, W)
          [] type = "IF"       -> check
          [] type = "action"   -> OfScript(Group[g].script, W)
          [] type = "retry"    -> {Does(<<>>, "return")}
          [] type = "wait"     -> Nothing
          [] type = "parallel" -> {Does(<<"joined">>, "next")}
          [] type \in {"breakcheck", "reload"} -> {Does(<<>>, "exit")}
          [] OTHER             -> {Does(<<>>, type)}
  BY <1>1, Zenon DEF OfTask
<1> HIDE DEF step, check
<1>4. /\ type = "step" => OfTask(g, W) = step
      /\ type = "task" => OfTask(g, W) = OfGroup(g, W)
      /\ type = "IF" => OfTask(g, W) = check
      /\ type = "action" => OfTask(g, W) = OfScript(Group[g].script, W)
      /\ type = "retry" => OfTask(g, W) = {Does(<<>>, "return")}
      /\ type = "wait" => OfTask(g, W) = Nothing
      /\ type = "parallel" => OfTask(g, W) = {Does(<<"joined">>, "next")}
  BY <1>3
<1>5. type \in {"lockscreen", "unlockscreen"} => OfTask(g, W) = {Does(<<g>>, "next")}
  BY <1>3
<1>6. type \in {"breakcheck", "reload"} => OfTask(g, W) = {Does(<<>>, "exit")}
  BY <1>3
<1>7. type \in {"break", "breakcontrolgroup", "return", "exit"} => OfTask(g, W) = {Does(<<>>, type)}
  BY <1>3
<1> QED BY <1>1, <1>2, <1>4, <1>5, <1>6, <1>7, Zenon DEF step, check

LEMMA CheckCases ==
  ASSUME NEW W, NEW g, Plain, g \in DOMAIN Group, Group[g].type = "IF", NEW outcome \in Group[g].check
  PROVE  /\ outcome \in {"true", "false", "throws"}
         /\ outcome = "true" => OfCheck(g, outcome, W) = OfGroup(g, W)
         /\ outcome = "false" => OfCheck(g, outcome, W) = Nothing
         /\ outcome = "throws" => OfCheck(g, outcome, W) = {Does(<<>>, "exit")}
<1>1. outcome \in {"true", "false", "throws"} BY DEF Plain
<1>2. /\ outcome = "true" => OfCheck(g, outcome, W) = OfGroup(g, W)
      /\ outcome = "false" => OfCheck(g, outcome, W) = Nothing
      /\ outcome = "throws" => OfCheck(g, outcome, W) = {Does(<<>>, "exit")}
  BY DEF OfCheck
<1> QED BY <1>1, <1>2

LEMMA OneWay ==
  /\ \A lefts : "next" \in lefts => Nothing \subseteq WaysOut(lefts)
  /\ Nothing # {}
  /\ \A lefts : \A left \in lefts : {Does(<<>>, left)} \subseteq WaysOut(lefts)
BY DoesIs DEF Nothing

(* A task has some ways if those that it consists of have some.             *)
LEMMA TaskWays ==
  ASSUME NEW W, Typed(W), Plain, NEW g \in DOMAIN Group
  PROVE  LET filled == \A h \in DOMAIN Group : Uses(g, h) => W[h] # {} IN
           /\ OfTask(g, W) \subseteq WaysOut(Lefts)
           /\ Group[g].type \in {"task", "IF"} => OfTask(g, W) \subseteq WaysOut(Lefts \ {"break"})
           /\ filled => OfTask(g, W) # {}
<1> DEFINE filled == \A h \in DOMAIN Group : Uses(g, h) => W[h] # {}
           Good(ways) == ways \subseteq WaysOut(Lefts) /\ (filled => ways # {})
<1>1. WaysOut(Lefts \ {"break"}) \subseteq WaysOut(Lefts) BY DEF WaysOut
<1>2. OfGroup(g, W) \subseteq WaysOut(Lefts \ {"break"}) /\ Good(OfGroup(g, W))
  BY <1>1, GroupParts, Zenon
<1>3. Group[g].type = "action" => Good(OfScript(Group[g].script, W))
  <2> SUFFICES ASSUME Group[g].type = "action" PROVE Good(OfScript(Group[g].script, W)) OBVIOUS
  <2>1. PICK s : s = Group[g].script OBVIOUS
  <2>2. s \in DOMAIN Script BY <2>1, ScriptAssumption
  <2>3. \A i \in DOMAIN Script[s].tasks :
          W[Script[s].tasks[i]] \subseteq WaysOut(Lefts) /\ (filled => W[Script[s].tasks[i]] # {})
    BY <2>1, <2>2, ScriptFacts DEF Typed, Uses
  <2>4. Lefts \in SUBSET Lefts /\ "next" \in Lefts BY DEF Lefts
  <2> HIDE DEF filled
  <2>5. /\ OfScript(s, W) \subseteq WaysOut(Lefts)
        /\ (\A i \in DOMAIN Script[s].tasks : W[Script[s].tasks[i]] # {}) => OfScript(s, W) # {}
    BY <2>2, <2>3, <2>4, ScriptParts, Zenon
  <2> QED BY <2>1, <2>3, <2>5
<1>4. Group[g].type = "step" =>
        Good({Does(<<g>>, "next")} \union {Does(<<>>, "exit") : f \in {TRUE} \intersect {Group[g].fails}})
  <2>1. <<g>> \in Logs /\ "next" \in Lefts /\ "exit" \in Lefts BY DEF Logs, Lefts
  <2> QED BY <2>1, DoesIs
<1>5. {Does(<<"joined">>, "next")} \subseteq WaysOut(Lefts) /\ {Does(<<g>>, "next")} \subseteq WaysOut(Lefts)
  <2>1. <<"joined">> \in Logs /\ <<g>> \in Logs /\ "next" \in Lefts BY DEF Logs, Lefts
  <2> QED BY <2>1, DoesIs
<1>6. /\ {Does(<<>>, "return")} \subseteq WaysOut(Lefts)
      /\ \A type \in {"break", "breakcontrolgroup", "return", "exit"} : {Does(<<>>, type)} \subseteq WaysOut(Lefts)
  BY OneWay DEF Lefts
<1>7. Nothing \subseteq WaysOut(Lefts \ {"break"}) /\ {Does(<<>>, "exit")} \subseteq WaysOut(Lefts \ {"break"})
  BY OneWay DEF Lefts
<1>8. ASSUME Group[g].type = "IF"
      PROVE  LET ways == UNION {OfCheck(g, outcome, W) : outcome \in Group[g].check} IN
               ways \subseteq WaysOut(Lefts \ {"break"}) /\ Good(ways)
  <2>1. ASSUME NEW outcome \in Group[g].check
        PROVE  OfCheck(g, outcome, W) \subseteq WaysOut(Lefts \ {"break"}) /\ (filled => OfCheck(g, outcome, W) # {})
    <3>1. /\ outcome \in {"true", "false", "throws"}
          /\ outcome = "true" => OfCheck(g, outcome, W) = OfGroup(g, W)
          /\ outcome = "false" => OfCheck(g, outcome, W) = Nothing
          /\ outcome = "throws" => OfCheck(g, outcome, W) = {Does(<<>>, "exit")}
      BY <1>8, CheckCases
    <3> QED BY <1>2, <1>7, <3>1, OneWay
  <2>2. Group[g].check # {} BY <1>8 DEF Plain
  <2> HIDE DEF filled
  <2> DEFINE ways == UNION {OfCheck(g, outcome, W) : outcome \in Group[g].check}
  <2>3. ways \subseteq WaysOut(Lefts \ {"break"}) BY <2>1
  <2>4. filled => ways # {} BY <2>1, <2>2
  <2> HIDE DEF ways
  <2>5. ways \subseteq WaysOut(Lefts \ {"break"}) /\ Good(ways) BY <1>1, <2>3, <2>4
  <2> QED BY <2>5 DEF ways
<1>9. Nothing \subseteq WaysOut(Lefts) /\ Nothing # {} BY <1>1, <1>7, OneWay
<1> HIDE DEF filled
<1>10. Good(OfTask(g, W))
  <2>1. Group[g].type = "step" => Good(OfTask(g, W)) BY <1>4, TaskCases, Zenon
  <2>2. Group[g].type = "task" => Good(OfTask(g, W)) BY <1>2, TaskCases, Zenon
  <2>3. Group[g].type = "IF" => Good(OfTask(g, W)) BY <1>8, TaskCases, Zenon
  <2>4. Group[g].type = "action" => Good(OfTask(g, W)) BY <1>3, TaskCases, Zenon
  <2>5. Group[g].type = "retry" => Good(OfTask(g, W)) BY <1>6, TaskCases
  <2>6. Group[g].type = "wait" => Good(OfTask(g, W)) BY <1>9, TaskCases, Zenon
  <2>7. Group[g].type = "parallel" => Good(OfTask(g, W)) BY <1>5, TaskCases
  <2>8. Group[g].type \in {"break", "breakcontrolgroup", "return", "exit"} => Good(OfTask(g, W))
    <3>1. PICK type : type = Group[g].type OBVIOUS
    <3> SUFFICES ASSUME type \in {"break", "breakcontrolgroup", "return", "exit"} PROVE Good(OfTask(g, W))
      BY <3>1
    <3>2. OfTask(g, W) = {Does(<<>>, type)} BY <3>1, TaskCases
    <3>3. {Does(<<>>, type)} # {} OBVIOUS
    <3> QED BY <1>6, <3>2, <3>3
  <2>9. Group[g].type \in {"lockscreen", "unlockscreen"} => Good(OfTask(g, W)) BY <1>5, TaskCases
  <2>10. Group[g].type \in {"breakcheck", "reload"} => Good(OfTask(g, W))
    <3>1. PICK left : left = "exit" OBVIOUS
    <3>2. {Does(<<>>, left)} \subseteq WaysOut(Lefts) /\ {Does(<<>>, left)} # {} BY <1>6, <3>1
    <3>3. Good({Does(<<>>, left)}) BY <3>2
    <3>4. Group[g].type \in {"breakcheck", "reload"} => OfTask(g, W) = {Does(<<>>, left)} BY <3>1, TaskCases
    <3> QED BY <3>3, <3>4
  <2>11. Group[g].type \in {"step", "task", "IF", "action", "retry", "wait", "parallel",
                            "lockscreen", "unlockscreen", "break", "breakcheck",
                            "breakcontrolgroup", "return", "exit", "reload"} BY TaskCases
  <2> QED BY <2>1, <2>2, <2>3, <2>4, <2>5, <2>6, <2>7, <2>8, <2>9, <2>10, <2>11
<1>11. Group[g].type \in {"task", "IF"} => OfTask(g, W) \subseteq WaysOut(Lefts \ {"break"})
  <2>1. Group[g].type = "task" => OfTask(g, W) \subseteq WaysOut(Lefts \ {"break"}) BY <1>2, TaskCases, Zenon
  <2>2. Group[g].type = "IF" => OfTask(g, W) \subseteq WaysOut(Lefts \ {"break"}) BY <1>8, TaskCases, Zenon
  <2> QED BY <2>1, <2>2
<1> QED BY <1>10, <1>11 DEF filled

(* The ways of a task depend on those of what it is made of.                *)
LEMMA TaskAgrees ==
  ASSUME NEW V, NEW W, NEW g \in DOMAIN Group, \A h \in DOMAIN Group : Uses(g, h) => V[h] = W[h]
  PROVE  OfTask(g, V) = OfTask(g, W)
<1>1. \A l \in DOMAIN Group[g].taskList :
        TasksOf(Group[g].taskList[l], V) = TasksOf(Group[g].taskList[l], W)
  <2> TAKE l \in DOMAIN Group[g].taskList
  <2>1. PICK list : list = Group[g].taskList[l] OBVIOUS
  <2>2. \A i \in DOMAIN list.tasks : V[list.tasks[i]] = W[list.tasks[i]] BY <2>1, GroupFacts DEF Uses
  <2>3. TasksOf(list, V) = TasksOf(list, W) BY <2>2 DEF TasksOf
  <2> QED BY <2>1, <2>3
<1>2. \A l \in DOMAIN Group[g].taskList :
        Rounds(Group[g].taskList[l], V) = Rounds(Group[g].taskList[l], W)
  BY <1>1 DEF Rounds
<1>3. ListsOf(g, V) = ListsOf(g, W) BY <1>2 DEF ListsOf
<1>4. OfGroup(g, V) = OfGroup(g, W) BY <1>3 DEF OfGroup
<1>5. Group[g].type = "action" => OfScript(Group[g].script, V) = OfScript(Group[g].script, W)
  <2> SUFFICES ASSUME Group[g].type = "action" PROVE OfScript(Group[g].script, V) = OfScript(Group[g].script, W)
    OBVIOUS
  <2>1. PICK s : s = Group[g].script OBVIOUS
  <2>2. s \in DOMAIN Script BY <2>1, ScriptAssumption
  <2>3. \A i \in DOMAIN Script[s].tasks : V[Script[s].tasks[i]] = W[Script[s].tasks[i]]
    BY <2>1, <2>2, ScriptFacts DEF Uses
  <2>4. PartsOf(s, V) = PartsOf(s, W) BY <2>3 DEF PartsOf
  <2>5. OfScript(s, V) = OfScript(s, W) BY <2>4 DEF OfScript
  <2> QED BY <2>1, <2>5
<1>6. \A outcome : OfCheck(g, outcome, V) = OfCheck(g, outcome, W) BY <1>4 DEF OfCheck
<1>7. UNION {OfCheck(g, outcome, V) : outcome \in Group[g].check}
        = UNION {OfCheck(g, outcome, W) : outcome \in Group[g].check}
  BY <1>6
<1> DEFINE Of(group, check, script) ==
      CASE Group[g].type = "step"     -> {Does(<<g>>, "next")} \union {Does(<<>>, "exit") : f \in {TRUE} \intersect {Group[g].fails}}
        [] Group[g].type \in {"lockscreen", "unlockscreen"} -> {Does(<<g>>, "next")}
        [] Group[g].type = "task"     -> group
        [] Group[g].type = "IF"       -> check
        [] Group[g].type = "action"   -> script
        [] Group[g].type = "retry"    -> {Does(<<>>, "return")}
        [] Group[g].type = "wait"     -> Nothing
        [] Group[g].type = "parallel" -> {Does(<<"joined">>, "next")}
        [] Group[g].type \in {"breakcheck", "reload"} -> {Does(<<>>, "exit")}
        [] OTHER                      -> {Does(<<>>, Group[g].type)}
<1>8. \A group, check, one, two :
        (Group[g].type = "action" => one = two) => Of(group, check, one) = Of(group, check, two)
  <2> TAKE group, check, one, two
  <2>1. CASE Group[g].type = "action" BY <2>1, Zenon
  <2>2. CASE Group[g].type # "action" BY <2>2
  <2> QED BY <2>1, <2>2
<1>9. /\ OfTask(g, V) = Of(OfGroup(g, V), UNION {OfCheck(g, outcome, V) : outcome \in Group[g].check},
                           OfScript(Group[g].script, V))
      /\ OfTask(g, W) = Of(OfGroup(g, W), UNION {OfCheck(g, outcome, W) : outcome \in Group[g].check},
                           OfScript(Group[g].script, W))
  BY Zenon DEF OfTask
<1> HIDE DEF Of
<1>10. PICK group, check, one, two :
         /\ group = OfGroup(g, V) /\ check = UNION {OfCheck(g, outcome, V) : outcome \in Group[g].check}
         /\ one = OfScript(Group[g].script, V) /\ two = OfScript(Group[g].script, W)
  OBVIOUS
<1>11. OfTask(g, V) = Of(group, check, one) BY <1>9, <1>10
<1>12. OfTask(g, W) = Of(group, check, two) BY <1>4, <1>7, <1>9, <1>10
<1>13. Of(group, check, one) = Of(group, check, two) BY <1>5, <1>8, <1>10
<1> QED BY <1>11, <1>12, <1>13

-------------------------------------------------------------------------------
(* Ways is what its equations say, if tasks are finite.                     *)
Meant(W) == Typed(W) /\ \A g \in DOMAIN Group : W[g] = OfTask(g, W) /\ W[g] # {}

(* Of finite tasks the ways are those that their definition gives.          *)
LEMMA WaysMeant ==
  ASSUME NEW depth, Plain, Finite(depth)
  PROVE  Meant(Ways)
<1> DEFINE D == DOMAIN Group
           V == SUBSET WaysOut(Lefts)
           step == [f \in [D -> V] |-> [g \in D |-> OfTask(g, f)]]
<1>1. depth \in [D -> Nat] /\ \A g, h \in D : Uses(g, h) => depth[h] < depth[g] BY DEF Finite, Uses
<1>2. \A f \in [D -> V] : \A g \in D : OfTask(g, f) \in V BY TaskWays DEF Typed
<1>3. \A f, h \in [D -> V] : \A g \in D :
        (\A x \in D : depth[x] < depth[g] => f[x] = h[x]) => OfTask(g, f) = OfTask(g, h)
  BY <1>1, TaskAgrees
<1>4. ByLower(D, V, depth, step)
  <2> HIDE DEF D, V
  <2>1. step \in [[D -> V] -> [D -> V]] BY <1>2, Zenon
  <2>2. \A f, h \in [D -> V] : \A g \in D :
          (\A x \in D : depth[x] < depth[g] => f[x] = h[x]) => step[f][g] = step[h][g]
    BY <1>3, ZenonT(60)
  <2>3. [D -> V] # {}
    <3>1. [g \in D |-> {}] \in [D -> V] BY DEF V
    <3> QED BY <3>1
  <2> HIDE DEF step
  <2> QED BY <1>1, <2>1, <2>2, <2>3, Zenon DEF ByLower
<1>5. \E f \in [D -> V] : f = step[f]
  <2> HIDE DEF step, D, V
  <2> QED BY <1>4, Recursion DEF Fixed
<1> DEFINE Eq(f) == f = [g \in D |-> OfTask(g, f)]
           F == CHOOSE f : Eq(f)
<1>6. Eq(F)
  <2>1. \E f : Eq(f) BY <1>5
  <2> HIDE DEF Eq
  <2> QED BY <2>1
<1>7. Ways = F BY DEF Ways
<1> HIDE DEF F
<1>8. DOMAIN Ways = D /\ \A g \in D : Ways[g] = OfTask(g, Ways) BY <1>6, <1>7
<1>9. PICK f \in [D -> V] : f = step[f] BY <1>5
<1>10. \A g \in D : f[g] = OfTask(g, f) BY <1>9
<1>11. D \subseteq {g \in D : Ways[g] = f[g]}
  <2>1. \A g \in D : (\A x \in D : depth[x] < depth[g] => Ways[x] = f[x]) => Ways[g] = f[g]
    <3> TAKE g \in D
    <3> HAVE \A x \in D : depth[x] < depth[g] => Ways[x] = f[x]
    <3>1. \A h \in D : Uses(g, h) => Ways[h] = f[h] BY <1>1
    <3>2. OfTask(g, Ways) = OfTask(g, f) BY <3>1, TaskAgrees
    <3> QED BY <1>8, <1>10, <3>2
  <2> DEFINE P == {g \in D : Ways[g] = f[g]}
  <2>2. \A g \in D : (\A x \in D : depth[x] < depth[g] => x \in P) => g \in P BY <2>1
  <2> HIDE DEF P, D
  <2>3. D \subseteq P BY <1>1, <2>2, ByDepth, Zenon
  <2> QED BY <2>3 DEF P
<1>12. Typed(Ways)
  <2>1. Ways = [g \in D |-> OfTask(g, Ways)] BY <1>6, <1>7
  <2>2. \A g \in D : Ways[g] \in V BY <1>11
  <2>3. Ways = [g \in D |-> Ways[g]] BY <1>8, <2>1
  <2> QED BY <2>2, <2>3 DEF Typed
<1>13. D \subseteq {g \in D : Ways[g] # {}}
  <2>1. \A g \in D : (\A x \in D : depth[x] < depth[g] => Ways[x] # {}) => Ways[g] # {}
    <3> TAKE g \in D
    <3> HAVE \A x \in D : depth[x] < depth[g] => Ways[x] # {}
    <3>1. \A h \in D : Uses(g, h) => Ways[h] # {} BY <1>1
    <3>2. OfTask(g, Ways) # {} BY <1>12, <3>1, TaskWays
    <3> QED BY <1>8, <3>2
  <2> DEFINE P == {g \in D : Ways[g] # {}}
  <2>2. \A g \in D : (\A x \in D : depth[x] < depth[g] => x \in P) => g \in P BY <2>1
  <2> HIDE DEF P, D
  <2>3. D \subseteq P BY <1>1, <2>2, ByDepth, Zenon
  <2> QED BY <2>3 DEF P
<1> QED BY <1>8, <1>12, <1>13 DEF Meant

LEMMA ThenMore ==
  ASSUME NEW A, NEW B, NEW C, NEW D, A \subseteq C, B \subseteq D
  PROVE  Then(A, B) \subseteq Then(C, D)
BY DEF Then

(* What is left of a task list, of a call.                                  *)
OfList(g, l, at, count) ==
  LET list == Group[g].taskList[l] IN
  IF count < list.repeat
    THEN Then(Rest(TasksOf(list, Ways), at), Rest(Rounds(list, Ways), count + 2))
    ELSE Nothing

RestOfGroup(g, l, at, count) ==
  IF l \in DOMAIN Group[g].taskList
    THEN Then(OfList(g, l, at, count), Rest(ListsOf(g, Ways), l + 1)) ELSE Nothing

Left(call, script, count) ==
  CASE call.do = "execute"  -> Rest(PartsOf(script, Ways), 1)
    [] call.do = "followOn" -> Rest(PartsOf(script, Ways), call.at)
    [] call.do = "tasks"    -> RestOfGroup(call.of, call.list, call.at, count)
    [] OTHER                -> Nothing

(* Ways out, of which there are some.                                       *)
SomeWays(ways) == ways \subseteq WaysOut(Lefts) /\ ways # {}

(* What is left of a list when one of its tasks is done.                    *)
LEMMA OneListIs ==
  ASSUME Meant(Ways), NEW g \in DOMAIN Group, NEW l \in DOMAIN Group[g].taskList,
         NEW at \in Nat \ {0}, NEW count \in Nat
  PROVE  LET list == Group[g].taskList[l] IN
           /\ OfList(g, l, at, count) \subseteq WaysOut(Lefts) /\ OfList(g, l, at, count) # {}
           /\ count < list.repeat => OfList(g, l, at, count) =
                Then(Rest(TasksOf(list, Ways), at), Rest(Rounds(list, Ways), count + 2))
           /\ count < list.repeat /\ at \in DOMAIN list.tasks =>
                /\ Rest(TasksOf(list, Ways), at) = Then(Ways[list.tasks[at]], Rest(TasksOf(list, Ways), at + 1))
                /\ Rest(TasksOf(list, Ways), at + 1) \subseteq WaysOut(Lefts)
                /\ Rest(Rounds(list, Ways), count + 2) \subseteq WaysOut(Lefts)
           /\ count < list.repeat /\ at > Len(list.tasks) => OfList(g, l, at, count) = OfList(g, l, 1, count + 1)
           /\ OfList(g, l, 1, 0) = ListsOf(g, Ways)[l]
<1>1. Typed(Ways) /\ \A h \in DOMAIN Group : Ways[h] # {} BY DEF Meant
<1>2. PICK list, n, rep : list = Group[g].taskList[l] /\ n = Len(list.tasks) /\ rep = list.repeat OBVIOUS
<1>3. /\ rep \in Nat /\ n \in Nat /\ DOMAIN list.tasks = 1..n
      /\ \A i \in DOMAIN list.tasks : list.tasks[i] \in DOMAIN Group
  BY <1>2, GroupFacts
<1>4. PICK tasks, rounds : tasks = TasksOf(list, Ways) /\ rounds = Rounds(list, Ways) OBVIOUS
<1>5. /\ tasks \in [1..n -> SUBSET WaysOut(Lefts)]
      /\ rounds \in [1..rep -> SUBSET WaysOut(Lefts)]
      /\ \A i \in DOMAIN list.tasks : tasks[i] = Ways[list.tasks[i]]
      /\ \A k \in 1..rep : rounds[k] = Rest(tasks, 1)
      /\ (\A i \in DOMAIN list.tasks : Ways[list.tasks[i]] # {}) =>
           (\A i \in Nat : Rest(tasks, i) # {}) /\ (\A i \in Nat : Rest(rounds, i) # {})
  <2>1. LET one == Group[g].taskList[l] IN
          /\ TasksOf(one, Ways) \in [1..Len(one.tasks) -> SUBSET WaysOut(Lefts)]
          /\ Rounds(one, Ways) \in [1..one.repeat -> SUBSET WaysOut(Lefts)]
          /\ \A i \in DOMAIN one.tasks : TasksOf(one, Ways)[i] = Ways[one.tasks[i]]
          /\ \A k \in 1..one.repeat : Rounds(one, Ways)[k] = Rest(TasksOf(one, Ways), 1)
          /\ (\A i \in DOMAIN one.tasks : Ways[one.tasks[i]] # {}) => \A i \in Nat : Rest(TasksOf(one, Ways), i) # {}
          /\ (\A i \in DOMAIN one.tasks : Ways[one.tasks[i]] # {}) => \A i \in Nat : Rest(Rounds(one, Ways), i) # {}
    BY <1>1, ListParts, Zenon
  <2> QED BY <1>2, <1>4, <2>1
<1>6. \A i \in Nat : Rest(tasks, i) # {} /\ Rest(rounds, i) # {} BY <1>1, <1>3, <1>5
<1>7. "next" \in Lefts BY DEF Lefts
<1>8. /\ \A i \in Nat : Rest(tasks, i) \subseteq WaysOut(Lefts)
      /\ \A i \in Nat : Rest(rounds, i) \subseteq WaysOut(Lefts)
  BY <1>3, <1>5, <1>7, RestWays
<1>9. /\ \A i \in Nat : Rest(tasks, i) = IF i \in 1..n THEN Then(tasks[i], Rest(tasks, i + 1)) ELSE Nothing
      /\ \A i \in Nat : Rest(rounds, i) = IF i \in 1..rep THEN Then(rounds[i], Rest(rounds, i + 1)) ELSE Nothing
  <2>0. tasks \in [1..n -> SUBSET WaysOut(Lefts)] /\ rounds \in [1..rep -> SUBSET WaysOut(Lefts)] BY <1>5
  <2>1. \A i \in Nat : Rest(tasks, i) = IF i \in 1..n THEN Then(tasks[i], Rest(tasks, i + 1)) ELSE Nothing
    BY <1>3, <1>7, <2>0, RestUnfolds
  <2>2. \A i \in Nat : Rest(rounds, i) = IF i \in 1..rep THEN Then(rounds[i], Rest(rounds, i + 1)) ELSE Nothing
    BY <1>3, <1>7, <2>0, RestUnfolds
  <2> QED BY <2>1, <2>2
<1>10. Nothing \subseteq WaysOut(Lefts) /\ Nothing # {} BY <1>7, OneWay
<1>11. \A a, c : OfList(g, l, a, c) = IF c < rep THEN Then(Rest(tasks, a), Rest(rounds, c + 2)) ELSE Nothing
  BY <1>2, <1>4 DEF OfList
<1>12. OfList(g, l, at, count) \subseteq WaysOut(Lefts) /\ OfList(g, l, at, count) # {}
  <2>1. CASE count < rep
    <3>1. count + 2 \in Nat OBVIOUS
    <3> QED BY <1>6, <1>7, <1>8, <1>11, <2>1, <3>1, ThenWays
  <2>2. CASE ~(count < rep) BY <1>10, <1>11, <2>2
  <2> QED BY <2>1, <2>2
<1>13. ASSUME count < rep, at \in 1..n
       PROVE  /\ Rest(tasks, at) = Then(Ways[list.tasks[at]], Rest(tasks, at + 1))
              /\ Rest(tasks, at + 1) \subseteq WaysOut(Lefts)
              /\ Rest(rounds, count + 2) \subseteq WaysOut(Lefts)
  <2>1. at + 1 \in Nat /\ count + 2 \in Nat OBVIOUS
  <2> QED BY <1>3, <1>5, <1>8, <1>9, <1>13, <2>1
<1>14. ASSUME count < rep, at > n PROVE OfList(g, l, at, count) = OfList(g, l, 1, count + 1)
  <2>0. count + 2 \in Nat /\ count + 3 \in Nat /\ (count + 2) + 1 = count + 3 /\ (count + 1) + 2 = count + 3 OBVIOUS
  <2>1. Rest(tasks, at) = Nothing BY <1>3, <1>9, <1>14
  <2>2. OfList(g, l, at, count) = Rest(rounds, count + 2)
    BY <1>7, <1>8, <1>10, <1>11, <1>14, <2>0, <2>1, ThenWays
  <2>3. CASE count + 1 < rep
    <3>1. count + 2 \in 1..rep BY <1>3, <2>3
    <3>2. Rest(rounds, count + 2) = Then(Rest(tasks, 1), Rest(rounds, count + 3))
      BY <1>5, <1>9, <2>0, <3>1
    <3>3. OfList(g, l, 1, count + 1) = Then(Rest(tasks, 1), Rest(rounds, count + 3)) BY <1>11, <2>0, <2>3
    <3> QED BY <2>2, <3>2, <3>3
  <2>4. CASE ~(count + 1 < rep)
    <3>1. count + 2 \notin 1..rep BY <1>3, <2>4
    <3> QED BY <1>9, <1>11, <2>0, <2>2, <2>4, <3>1
  <2> QED BY <2>3, <2>4
<1>15. OfList(g, l, 1, 0) = Rest(rounds, 1)
  <2>1. 0 + 2 = 2 /\ 1 + 1 = 2 OBVIOUS
  <2>2. CASE 0 < rep
    <3>1. 1 \in 1..rep BY <1>3, <2>2
    <3> QED BY <1>5, <1>9, <1>11, <2>1, <2>2, <3>1
  <2>3. CASE ~(0 < rep)
    <3>1. 1 \notin 1..rep BY <1>3, <2>3
    <3> QED BY <1>9, <1>11, <2>3, <3>1
  <2> QED BY <2>2, <2>3
<1>16. ListsOf(g, Ways)[l] = Rest(rounds, 1) BY <1>2, <1>4 DEF ListsOf
<1> QED BY <1>2, <1>3, <1>4, <1>11, <1>12, <1>13, <1>14, <1>15, <1>16

(* Of a group: the ways are those of its lists from the first.              *)
LEMMA GroupRest ==
  ASSUME Meant(Ways), NEW g \in DOMAIN Group
  PROVE  LET lists == Group[g].taskList
             rest(l) == Rest(ListsOf(g, Ways), l)
         IN  /\ \A l \in Nat : SomeWays(rest(l))
             /\ \A l \in Nat \ {0} : RestOfGroup(g, l, 1, 0) = rest(l)
             /\ \A l \in Nat \ {0} : l > Len(lists) => \A at, count : RestOfGroup(g, l, at, count) = Nothing
             /\ OfGroup(g, Ways) = Leaving(rest(1), {"break"})
             /\ Group[g].type = "task" => OfGroup(g, Ways) \subseteq Ways[g]
<1>1. Typed(Ways) /\ (\A h \in DOMAIN Group : Ways[h] # {}) /\ Ways[g] = OfTask(g, Ways) BY DEF Meant
<1>2. PICK lists, n, parts : lists = Group[g].taskList /\ n = Len(lists) /\ parts = ListsOf(g, Ways) OBVIOUS
<1>3. n \in Nat /\ DOMAIN lists = 1..n BY <1>2, GroupFacts
<1>4. parts \in [1..n -> SUBSET WaysOut(Lefts)] /\ \A i \in Nat : Rest(parts, i) # {}
  <2>1. /\ parts \in [1..n -> SUBSET WaysOut(Lefts)]
        /\ (\A h \in DOMAIN Group : Uses(g, h) => Ways[h] # {}) => \A i \in Nat : Rest(parts, i) # {}
    BY <1>1, <1>2, GroupParts, Zenon
  <2> QED BY <1>1, <2>1
<1>5. "next" \in Lefts BY DEF Lefts
<1>6. \A l \in Nat : SomeWays(Rest(parts, l)) BY <1>3, <1>4, <1>5, RestWays DEF SomeWays
<1>7. \A l \in Nat : Rest(parts, l) = IF l \in 1..n THEN Then(parts[l], Rest(parts, l + 1)) ELSE Nothing
  BY <1>3, <1>4, <1>5, RestUnfolds
<1>8. ASSUME NEW l \in Nat \ {0} PROVE RestOfGroup(g, l, 1, 0) = Rest(parts, l)
  <2>1. CASE l \in 1..n
    <3>1. l \in DOMAIN Group[g].taskList BY <1>2, <1>3, <2>1
    <3>2. OfList(g, l, 1, 0) = parts[l]
      <4>1. 1 \in Nat \ {0} /\ 0 \in Nat OBVIOUS
      <4> QED BY <1>2, <3>1, <4>1, OneListIs
    <3>3. RestOfGroup(g, l, 1, 0) = Then(OfList(g, l, 1, 0), Rest(parts, l + 1)) BY <1>2, <3>1 DEF RestOfGroup
    <3> QED BY <1>7, <2>1, <3>2, <3>3
  <2>2. CASE l \notin 1..n BY <1>2, <1>3, <1>7, <2>2 DEF RestOfGroup
  <2> QED BY <2>1, <2>2
<1>9. ASSUME NEW l \in Nat \ {0}, l > n, NEW at, NEW count PROVE RestOfGroup(g, l, at, count) = Nothing
  BY <1>2, <1>3, <1>9 DEF RestOfGroup
<1>10. OfGroup(g, Ways) = Leaving(Rest(parts, 1), {"break"}) BY <1>2 DEF OfGroup
<1>11. Group[g].type = "task" => OfGroup(g, Ways) \subseteq Ways[g] BY <1>1 DEF OfTask
<1> QED BY <1>2, <1>6, <1>8, <1>9, <1>10, <1>11

(* Of a script: its parts.                                                  *)
LEMMA ScriptRest ==
  ASSUME Plain, Meant(Ways), NEW s \in DOMAIN Script
  PROVE  LET tasks == Script[s].tasks
             rest(k) == Rest(PartsOf(s, Ways), k)
         IN  /\ \A k \in Nat : SomeWays(rest(k))
             /\ \A k \in Nat : rest(k) \subseteq WaysOut({"next", "return", "exit"})
             /\ \A k \in Nat : k > Len(tasks) => rest(k) = Nothing
             /\ \A k \in DOMAIN tasks : rest(k) =
                  Then(Leaving(Ways[tasks[k]], {"breakcontrolgroup"}), rest(k + 1))
             /\ \A k \in Nat \ {0}, m \in Nat :
                  /\ k <= m /\ m <= Len(tasks) + 1
                  /\ \A i \in k..m - 1 : Nothing \subseteq Ways[tasks[i]]
                  => rest(m) \subseteq rest(k)
             /\ OfScript(s, Ways) = Leaving(rest(1), {"return"})
<1>1. PICK tasks, n, parts : tasks = Script[s].tasks /\ n = Len(tasks) /\ parts = PartsOf(s, Ways) OBVIOUS
<1>2. n \in Nat /\ DOMAIN tasks = 1..n /\ \A i \in DOMAIN tasks : tasks[i] \in DOMAIN Group
  BY <1>1, ScriptFacts
<1> DEFINE lefts == Lefts \ {"break"}
           out == {"next", "return", "exit"}
<1>3. lefts \in SUBSET Lefts /\ "next" \in lefts /\ lefts \ {"breakcontrolgroup"} = out BY DEF Lefts
<1>4. \A i \in DOMAIN tasks : Ways[tasks[i]] \subseteq WaysOut(lefts) /\ Ways[tasks[i]] # {}
  <2> TAKE i \in DOMAIN tasks
  <2>1. PICK g \in DOMAIN Group : g = tasks[i] BY <1>2
  <2>2. Group[g].type \in {"task", "IF"} BY <1>1, <2>1 DEF Plain
  <2>3. Typed(Ways) /\ Ways[g] = OfTask(g, Ways) /\ Ways[g] # {} BY DEF Meant
  <2>4. OfTask(g, Ways) \subseteq WaysOut(Lefts \ {"break"}) BY <2>2, <2>3, TaskWays
  <2> QED BY <2>1, <2>3, <2>4
<1> HIDE DEF lefts, out
<1>5. /\ parts \in [1..n -> SUBSET WaysOut(out)]
      /\ \A i \in Nat : Rest(parts, i) # {}
  <2>1. /\ parts \in [1..n -> SUBSET WaysOut(lefts \ {"breakcontrolgroup"})]
        /\ (\A i \in DOMAIN tasks : Ways[tasks[i]] # {}) => \A i \in Nat : Rest(parts, i) # {}
    BY <1>1, <1>3, <1>4, ScriptParts, Zenon
  <2> QED BY <1>3, <1>4, <2>1
<1>6. "next" \in out /\ out \subseteq Lefts BY DEF out, Lefts
<1>7. \A k \in Nat : Rest(parts, k) \subseteq WaysOut(out) BY <1>2, <1>5, <1>6, RestWays
<1>8. WaysOut(out) \subseteq WaysOut(Lefts) BY <1>6 DEF WaysOut
<1>9. \A k \in Nat : SomeWays(Rest(parts, k)) BY <1>5, <1>7, <1>8 DEF SomeWays
<1>10. \A k \in Nat : Rest(parts, k) = IF k \in 1..n THEN Then(parts[k], Rest(parts, k + 1)) ELSE Nothing
  BY <1>2, <1>5, <1>6, RestUnfolds
<1>11. \A k \in Nat : k > n => Rest(parts, k) = Nothing BY <1>2, <1>10
<1>12. \A i \in DOMAIN tasks : parts[i] = Leaving(Ways[tasks[i]], {"breakcontrolgroup"}) BY <1>1 DEF PartsOf
<1>13. \A k \in DOMAIN tasks : Rest(parts, k) =
         Then(Leaving(Ways[tasks[k]], {"breakcontrolgroup"}), Rest(parts, k + 1))
  BY <1>2, <1>10, <1>12
<1>14. ASSUME NEW k \in Nat \ {0}, NEW m \in Nat, k <= m, m <= n + 1,
              \A i \in k..m - 1 : Nothing \subseteq Ways[tasks[i]]
       PROVE  Rest(parts, m) \subseteq Rest(parts, k)
  <2>1. \A i \in k..m - 1 : Nothing \subseteq parts[i]
    <3> TAKE i \in k..m - 1
    <3>1. i \in DOMAIN tasks BY <1>2, <1>14
    <3>2. Ways[tasks[i]] \subseteq WaysOut(lefts) /\ Nothing \subseteq Ways[tasks[i]] BY <1>4, <1>14, <3>1
    <3>3. Nothing \subseteq Leaving(Ways[tasks[i]], {"breakcontrolgroup"}) BY <3>2, LeavingWays
    <3> QED BY <1>12, <3>1, <3>3
  <2>2. k \in Nat /\ 0 < k OBVIOUS
  <2> QED BY <1>2, <1>5, <1>6, <1>14, <2>1, <2>2, SkipParts
<1>15. OfScript(s, Ways) = Leaving(Rest(parts, 1), {"return"}) BY <1>1 DEF OfScript
<1> QED BY <1>1, <1>7, <1>9, <1>11, <1>13, <1>14, <1>15 DEF out

(* At a task: it is done, and then what comes after it.                     *)
LEMMA TaskRest ==
  ASSUME Meant(Ways), NEW g \in DOMAIN Group, NEW l \in DOMAIN Group[g].taskList,
         NEW at \in DOMAIN Group[g].taskList[l].tasks, NEW count \in Nat,
         count < Group[g].taskList[l].repeat
  PROVE  Then(Ways[Group[g].taskList[l].tasks[at]], RestOfGroup(g, l, at + 1, count))
           \subseteq RestOfGroup(g, l, at, count)
<1>1. PICK list : list = Group[g].taskList[l] OBVIOUS
<1>2. PICK one, later, rounds, lists :
        /\ one = Ways[list.tasks[at]] /\ later = Rest(TasksOf(list, Ways), at + 1)
        /\ rounds = Rest(Rounds(list, Ways), count + 2) /\ lists = Rest(ListsOf(g, Ways), l + 1)
  OBVIOUS
<1>3. at \in Nat \ {0} /\ at + 1 \in Nat \ {0} /\ l \in Nat /\ l + 1 \in Nat /\ list.tasks[at] \in DOMAIN Group
  BY <1>1, GroupFacts
<1>4. /\ OfList(g, l, at, count) = Then(Rest(TasksOf(list, Ways), at), rounds)
      /\ OfList(g, l, at + 1, count) = Then(later, rounds)
      /\ Rest(TasksOf(list, Ways), at) = Then(one, later)
      /\ later \subseteq WaysOut(Lefts) /\ rounds \subseteq WaysOut(Lefts)
  BY <1>1, <1>2, <1>3, OneListIs
<1>5. one \subseteq WaysOut(Lefts) BY <1>2, <1>3 DEF Meant, Typed
<1>6. lists \subseteq WaysOut(Lefts) BY <1>2, <1>3, GroupRest DEF SomeWays
<1>7. /\ RestOfGroup(g, l, at, count) = Then(Then(Then(one, later), rounds), lists)
      /\ RestOfGroup(g, l, at + 1, count) = Then(Then(later, rounds), lists)
  BY <1>2, <1>4 DEF RestOfGroup
<1>8. "next" \in Lefts BY DEF Lefts
<1>9. Then(later, rounds) \subseteq WaysOut(Lefts) BY <1>4, <1>8, ThenWays
<1>10. Then(one, Then(Then(later, rounds), lists)) \subseteq Then(Then(one, Then(later, rounds)), lists)
  BY <1>5, <1>6, <1>9, ThenTogether
<1>11. Then(one, Then(later, rounds)) \subseteq Then(Then(one, later), rounds) BY <1>4, <1>5, ThenTogether
<1>12. Then(Then(one, Then(later, rounds)), lists) \subseteq Then(Then(Then(one, later), rounds), lists)
  BY <1>11, ThenMore
<1> QED BY <1>1, <1>2, <1>7, <1>10, <1>12

(* The loops around the tasks.                                              *)
LEMMA ListRest ==
  ASSUME Meant(Ways), NEW g \in DOMAIN Group, NEW l \in Nat \ {0},
         NEW at \in Nat \ {0}, NEW count \in Nat
  PROVE  LET lists == Group[g].taskList IN
           /\ SomeWays(RestOfGroup(g, l, at, count))
           /\ l \in DOMAIN lists /\ count < lists[l].repeat /\ at > Len(lists[l].tasks) =>
                RestOfGroup(g, l, at, count) = RestOfGroup(g, l, 1, count + 1)
           /\ l \in DOMAIN lists /\ lists[l].repeat <= count =>
                RestOfGroup(g, l, at, count) = RestOfGroup(g, l + 1, 1, 0)
<1>1. PICK lists, rest : lists = Group[g].taskList /\ rest = Rest(ListsOf(g, Ways), l + 1) OBVIOUS
<1>2. SomeWays(rest) /\ "next" \in Lefts BY <1>1, GroupRest DEF Lefts
<1>3. SomeWays(Nothing) BY <1>2, OneWay DEF SomeWays
<1>4. l \in DOMAIN lists => SomeWays(OfList(g, l, at, count)) BY <1>1, OneListIs DEF SomeWays
<1>5. \A a, c : RestOfGroup(g, l, a, c) = IF l \in DOMAIN lists THEN Then(OfList(g, l, a, c), rest) ELSE Nothing
  BY <1>1 DEF RestOfGroup
<1>6. SomeWays(RestOfGroup(g, l, at, count))
  <2>1. CASE l \in DOMAIN lists BY <1>2, <1>4, <1>5, <2>1, ThenWays DEF SomeWays
  <2>2. CASE l \notin DOMAIN lists BY <1>3, <1>5, <2>2
  <2> QED BY <2>1, <2>2
<1>7. ASSUME l \in DOMAIN lists, count < lists[l].repeat, at > Len(lists[l].tasks)
      PROVE  RestOfGroup(g, l, at, count) = RestOfGroup(g, l, 1, count + 1)
  <2>1. OfList(g, l, at, count) = OfList(g, l, 1, count + 1) BY <1>1, <1>7, OneListIs
  <2> QED BY <1>5, <1>7, <2>1
<1>8. ASSUME l \in DOMAIN lists, lists[l].repeat <= count
      PROVE  RestOfGroup(g, l, at, count) = RestOfGroup(g, l + 1, 1, 0)
  <2>1. lists[l].repeat \in Nat BY <1>1, <1>8, GroupFacts
  <2>2. OfList(g, l, at, count) = Nothing BY <1>1, <1>8, <2>1 DEF OfList
  <2>3. Then(Nothing, rest) = rest BY <1>2, <1>3, ThenWays DEF SomeWays
  <2>4. RestOfGroup(g, l + 1, 1, 0) = rest BY <1>1, GroupRest
  <2> QED BY <1>5, <1>8, <2>2, <2>3, <2>4
<1> QED BY <1>1, <1>6, <1>7, <1>8

(* A group can always be done in some way, from wherever it goes on.         *)
LEMMA SomeRest ==
  ASSUME Meant(Ways), NEW g \in DOMAIN Group, NEW l \in Nat \ {0},
         NEW at \in Nat \ {0}, NEW count \in Nat
  PROVE  SomeWays(RestOfGroup(g, l, at, count))
BY ListRest

LEMMA LeftCases ==
  ASSUME NEW call, NEW script, NEW count
  PROVE  /\ call.do = "execute" => Left(call, script, count) = Rest(PartsOf(script, Ways), 1)
         /\ call.do = "followOn" => Left(call, script, count) = Rest(PartsOf(script, Ways), call.at)
         /\ call.do = "tasks" => Left(call, script, count) = RestOfGroup(call.of, call.list, call.at, count)
         /\ call.do \notin {"execute", "followOn", "tasks"} => Left(call, script, count) = Nothing
BY DEF Left

(* Something is left for every call that fits.                              *)
LEMMA LeftWays ==
  ASSUME Plain, Meant(Ways), NEW call \in CallType, NEW script, NEW count \in Nat,
         Fits(call, script), call.do \in {"execute", "followOn", "tasks"} => script \in DOMAIN Script
  PROVE  SomeWays(Left(call, script, count))
<1>1. CASE call.do = "execute"
  <2>1. SomeWays(Rest(PartsOf(script, Ways), 1)) BY <1>1, ScriptRest
  <2> QED BY <1>1, <2>1, LeftCases
<1>2. CASE call.do = "followOn"
  <2>1. call.at \in Nat BY DEF CallType
  <2>2. SomeWays(Rest(PartsOf(script, Ways), call.at)) BY <1>2, <2>1, ScriptRest
  <2> QED BY <1>2, <2>2, LeftCases
<1>3. CASE call.do = "tasks"
  <2>1. call.list \in Nat \ {0} /\ call.at \in Nat \ {0} /\ call.of \in GroupsOf[script]
    BY <1>3 DEF CallType, Fits
  <2>2. call.of \in DOMAIN Group BY <1>3, <2>1, ScriptAssumption
  <2>3. SomeWays(RestOfGroup(call.of, call.list, call.at, count)) BY <2>1, <2>2, ListRest
  <2> QED BY <1>3, <2>3, LeftCases
<1>4. CASE call.do \notin {"execute", "followOn", "tasks"}
  <2>1. SomeWays(Nothing) BY OneWay DEF SomeWays, Lefts
  <2> QED BY <1>4, <2>1, LeftCases
<1> QED BY <1>1, <1>2, <1>3, <1>4

(* The ways of tasks by their types, for the actions.                       *)
LEMMA TaskHas ==
  ASSUME Plain, Meant(Ways), NEW g \in DOMAIN Group
  PROVE  LET task == Group[g] IN
           /\ SomeWays(Ways[g])
           /\ task.type = "step" => /\ Does(<<g>>, "next") \in Ways[g]
                                    /\ task.fails => Does(<<>>, "exit") \in Ways[g]
           /\ task.type = "task" => OfGroup(g, Ways) \subseteq Ways[g]
           /\ task.type = "IF" =>
                /\ "true" \in task.check => OfGroup(g, Ways) \subseteq Ways[g]
                /\ "false" \in task.check => Nothing \subseteq Ways[g]
                /\ "throws" \in task.check => Does(<<>>, "exit") \in Ways[g]
           /\ task.type = "action" => OfScript(task.script, Ways) = Ways[g]
           /\ task.type = "retry" => Does(<<>>, "return") \in Ways[g]
           /\ task.type = "wait" => Ways[g] = Nothing
           /\ task.type = "parallel" => Does(<<"joined">>, "next") \in Ways[g]
           /\ task.type \in {"lockscreen", "unlockscreen"} => Does(<<g>>, "next") \in Ways[g]
           /\ task.type \in {"breakcheck", "reload"} => Does(<<>>, "exit") \in Ways[g]
           /\ task.type \in {"break", "breakcontrolgroup", "return", "exit"} => Does(<<>>, task.type) \in Ways[g]
<1>1. Typed(Ways) /\ Ways[g] = OfTask(g, Ways) /\ Ways[g] # {} BY DEF Meant
<1>2. SomeWays(Ways[g]) BY <1>1 DEF SomeWays, Typed
<1>3. ASSUME Group[g].type = "step"
      PROVE  Does(<<g>>, "next") \in Ways[g] /\ (Group[g].fails => Does(<<>>, "exit") \in Ways[g])
  <2>1. Ways[g] = {Does(<<g>>, "next")} \union {Does(<<>>, "exit") : f \in {TRUE} \intersect {Group[g].fails}}
    BY <1>1, <1>3, TaskCases, Zenon
  <2>2. Group[g].fails \in BOOLEAN BY <1>3 DEF Plain
  <2>3. ASSUME Group[g].fails PROVE Does(<<>>, "exit") \in Ways[g]
    <3>1. Group[g].fails = TRUE BY <2>2, <2>3
    <3> QED BY <2>1, <3>1
  <2> QED BY <2>1, <2>3
<1>4. ASSUME Group[g].type = "IF"
      PROVE  /\ "true" \in Group[g].check => OfGroup(g, Ways) \subseteq Ways[g]
             /\ "false" \in Group[g].check => Nothing \subseteq Ways[g]
             /\ "throws" \in Group[g].check => Does(<<>>, "exit") \in Ways[g]
  <2>1. Ways[g] = UNION {OfCheck(g, outcome, Ways) : outcome \in Group[g].check}
    BY <1>1, <1>4, TaskCases, Zenon
  <2>2. \A outcome \in Group[g].check : OfCheck(g, outcome, Ways) \subseteq Ways[g] BY <2>1
  <2>3. /\ "true" \in Group[g].check => OfCheck(g, "true", Ways) = OfGroup(g, Ways)
        /\ "false" \in Group[g].check => OfCheck(g, "false", Ways) = Nothing
        /\ "throws" \in Group[g].check => OfCheck(g, "throws", Ways) = {Does(<<>>, "exit")}
    BY <1>4, CheckCases
  <2> QED BY <2>2, <2>3
<1>5. Group[g].type = "task" => OfGroup(g, Ways) = Ways[g] BY <1>1, TaskCases, Zenon
<1>6. Group[g].type = "action" => OfScript(Group[g].script, Ways) = Ways[g] BY <1>1, TaskCases, Zenon
<1>7. Group[g].type = "retry" => {Does(<<>>, "return")} = Ways[g] BY <1>1, TaskCases, Zenon
<1>8. Group[g].type = "wait" => Ways[g] = Nothing BY <1>1, TaskCases, Zenon
<1>9. Group[g].type = "parallel" => {Does(<<"joined">>, "next")} = Ways[g] BY <1>1, TaskCases, Zenon
<1>10. Group[g].type \in {"break", "breakcontrolgroup", "return", "exit"} => {Does(<<>>, Group[g].type)} = Ways[g]
  BY <1>1, TaskCases, Zenon
<1>11. Group[g].type \in {"lockscreen", "unlockscreen"} => {Does(<<g>>, "next")} = Ways[g]
  BY <1>1, TaskCases, Zenon
<1>12. Group[g].type \in {"breakcheck", "reload"} => {Does(<<>>, "exit")} = Ways[g] BY <1>1, TaskCases, Zenon
<1> QED BY <1>2, <1>3, <1>4, <1>5, <1>6, <1>7, <1>8, <1>9, <1>10, <1>11, <1>12

(* What runs of a script can have done, in the end and before it.           *)
Whole(head) == {w.log : w \in OfScript(head, Ways)}
Begun(head) == {done \in Logs : \E later \in Logs : done \o later \in Whole(head)}

(* The frame that what is left goes on with, and what it then does.         *)
Catches(flag, left) ==
  \/ left \in {"next", "break"} /\ flag # "DoublePOP"
  \/ left = "breakcontrolgroup" /\ flag = "controlGroup"
  \/ left = "return" /\ flag = "action"
Goal(stack, i, left) == Max({1} \union {k \in 1..i : Catches(stack[k].flag, left)})
FrameWays(frame) == Left(frame.call, frame.script, 0)

(* At each height of a stack, what may have been done when it is left so:   *)
(* whatever the frames then do, in the end it is a whole script.            *)
Certificate(head, stack, ok) ==
  /\ ok \in [0..Len(stack) -> [Lefts -> SUBSET Begun(head)]]
  /\ \A left \in Lefts : ok[0][left] \subseteq Whole(head)
  /\ \A i \in 1..Len(stack), left \in Lefts : \A done \in ok[i][left] :
       \A w \in FrameWays(stack[Goal(stack, i, left)]) :
         done \o w.log \in ok[Goal(stack, i, left) - 1][w.left]

Accepts(head, stack, done, rest) ==
  \E ok : Certificate(head, stack, ok) /\ \A w \in rest : done \o w.log \in ok[Len(stack)][w.left]

(* The frame that a way of leaving goes to.                                 *)
LEMMA GoalFacts ==
  ASSUME NEW stack, NEW i \in Nat \ {0}, NEW left
  PROVE  LET j == Goal(stack, i, left) IN
           /\ j \in 1..i /\ (j = 1 \/ Catches(stack[j].flag, left))
           /\ \A k \in 1..i : Catches(stack[k].flag, left) => k <= j
<1> DEFINE S == {k \in 1..i : Catches(stack[k].flag, left)}
<1>1. {1} \union S \in SUBSET Nat /\ \A s \in {1} \union S : s <= i OBVIOUS
<1>2. Max({1} \union S) \in {1} \union S /\ \A s \in {1} \union S : Max({1} \union S) >= s
  BY <1>1, Greatest
<1>3. PICK j : j = Max({1} \union S) OBVIOUS
<1>4. j = Goal(stack, i, left) BY <1>3 DEF Goal
<1>5. j \in {1} \union S /\ \A s \in {1} \union S : j >= s BY <1>2, <1>3
<1>6. j \in 1..i /\ (j = 1 \/ Catches(stack[j].flag, left))
      /\ \A k \in 1..i : Catches(stack[k].flag, left) => k <= j
  BY <1>5
<1> QED BY <1>4, <1>6

(* It is the highest that catches, or the first.                            *)
LEMMA GoalIs ==
  ASSUME NEW stack, NEW i \in Nat \ {0}, NEW left, NEW j \in 1..i,
         j = 1 \/ Catches(stack[j].flag, left),
         \A k \in 1..i : Catches(stack[k].flag, left) => k <= j
  PROVE  Goal(stack, i, left) = j
<1>1. PICK m : m = Goal(stack, i, left) OBVIOUS
<1>2. m \in 1..i /\ (m = 1 \/ Catches(stack[m].flag, left))
      /\ \A k \in 1..i : Catches(stack[k].flag, left) => k <= m
  BY <1>1, GoalFacts
<1>3. j <= m /\ m <= j BY <1>2
<1> QED BY <1>1, <1>2, <1>3

LEMMA GoalSame ==
  ASSUME NEW stack, NEW other, NEW i \in Nat \ {0}, NEW left, \A k \in 1..i : stack[k] = other[k]
  PROVE  Goal(stack, i, left) = Goal(other, i, left) /\ Goal(stack, i, left) \in 1..i
<1>1. PICK m : m = Goal(stack, i, left) OBVIOUS
<1>2. m \in 1..i /\ (m = 1 \/ Catches(stack[m].flag, left))
      /\ \A k \in 1..i : Catches(stack[k].flag, left) => k <= m
  BY <1>1, GoalFacts
<1>3. Goal(other, i, left) = m BY <1>2, GoalIs
<1> QED BY <1>1, <1>2, <1>3

LEMMA GoalAbove ==
  ASSUME NEW stack \in Seq(FrameType), NEW frame \in FrameType, stack # <<>>, NEW left
  PROVE  LET other == Append(stack, frame)
             n == Len(stack)
         IN  /\ Catches(frame.flag, left) => Goal(other, n + 1, left) = n + 1
             /\ ~Catches(frame.flag, left) => Goal(other, n + 1, left) = Goal(stack, n, left)
<1>1. PICK other, n : other = Append(stack, frame) /\ n = Len(stack) OBVIOUS
<1>2. n \in Nat \ {0} /\ n + 1 \in Nat \ {0} /\ other[n + 1] = frame /\ \A k \in 1..n : other[k] = stack[k]
  BY <1>1, AppendFacts
<1>3. ASSUME Catches(frame.flag, left) PROVE Goal(other, n + 1, left) = n + 1
  <2>1. n + 1 \in 1..n + 1 /\ \A k \in 1..n + 1 : k <= n + 1 BY <1>2
  <2> QED BY <1>2, <1>3, <2>1, GoalIs
<1>4. ASSUME ~Catches(frame.flag, left) PROVE Goal(other, n + 1, left) = Goal(stack, n, left)
  <2>1. PICK m : m = Goal(stack, n, left) OBVIOUS
  <2>2. m \in 1..n /\ (m = 1 \/ Catches(stack[m].flag, left))
        /\ \A k \in 1..n : Catches(stack[k].flag, left) => k <= m
    BY <1>2, <2>1, GoalFacts
  <2>3. m \in 1..n + 1 /\ (m = 1 \/ Catches(other[m].flag, left)) BY <1>2, <2>2
  <2>4. \A k \in 1..n + 1 : Catches(other[k].flag, left) => k <= m
    <3> TAKE k \in 1..n + 1
    <3>1. CASE k = n + 1 BY <1>2, <1>4, <3>1
    <3>2. CASE k # n + 1
      <4>1. k \in 1..n BY <1>2, <3>2
      <4> QED BY <1>2, <2>2, <4>1
    <3> QED BY <3>1, <3>2
  <2>5. Goal(other, n + 1, left) = m BY <1>2, <2>3, <2>4, GoalIs
  <2> QED BY <2>1, <2>5
<1> QED BY <1>1, <1>3, <1>4

(* What a stack accepts is the beginning of the script.                     *)
LEMMA CertificateFacts ==
  ASSUME NEW head, NEW stack \in Seq(FrameType), NEW ok, Certificate(head, stack, ok)
  PROVE  /\ ok \in [0..Len(stack) -> [Lefts -> SUBSET Begun(head)]]
         /\ \A i \in 0..Len(stack), left \in Lefts : ok[i][left] \subseteq Begun(head)
         /\ \A left \in Lefts : ok[0][left] \subseteq Whole(head)
         /\ \A i \in 1..Len(stack), left \in Lefts : \A done \in ok[i][left] :
              \A w \in FrameWays(stack[Goal(stack, i, left)]) :
                done \o w.log \in ok[Goal(stack, i, left) - 1][w.left]
BY DEF Certificate

(* What is done before something that has begun has begun.                  *)
LEMMA BegunFacts ==
  ASSUME NEW head
  PROVE  /\ Begun(head) \subseteq Logs
         /\ \A a, b \in Logs : a \o b \in Begun(head) => a \in Begun(head)
<1>1. ASSUME NEW a \in Logs, NEW b \in Logs, a \o b \in Begun(head) PROVE a \in Begun(head)
  <2>1. PICK c \in Logs : (a \o b) \o c \in Whole(head) BY <1>1 DEF Begun
  <2>2. b \o c \in Logs /\ (a \o b) \o c = a \o (b \o c) BY LogFacts
  <2>3. a \o (b \o c) \in Whole(head) BY <2>1, <2>2
  <2> QED BY <2>2, <2>3 DEF Begun
<1>2. Begun(head) \subseteq Logs BY DEF Begun
<1> QED BY <1>1, <1>2

LEMMA AcceptsBegun ==
  ASSUME Meant(Ways), NEW head, NEW stack \in Seq(FrameType), NEW done \in Logs, NEW rest,
         SomeWays(rest), Accepts(head, stack, done, rest)
  PROVE  done \in Begun(head)
<1>1. PICK ok : Certificate(head, stack, ok) /\ \A w \in rest : done \o w.log \in ok[Len(stack)][w.left]
  BY DEF Accepts
<1>2. PICK w \in rest : w.log \in Logs /\ w.left \in Lefts BY DoesIs DEF SomeWays
<1>3. Len(stack) \in 0..Len(stack) OBVIOUS
<1>4. done \o w.log \in Begun(head) BY <1>1, <1>2, <1>3, CertificateFacts
<1> QED BY <1>2, <1>4, BegunFacts

LEMMA AcceptsEnd ==
  ASSUME NEW head, NEW done \in Logs, Accepts(head, <<>>, done, Nothing)
  PROVE  done \in Whole(head)
<1>1. PICK ok : Certificate(head, <<>>, ok) /\ \A w \in Nothing : done \o w.log \in ok[Len(<<>>)][w.left]
  BY DEF Accepts
<1>2. Does(<<>>, "next") \in Nothing BY DEF Nothing
<1>3. done \o <<>> \in ok[Len(<<>>)]["next"]
  <2>1. PICK w : w = Does(<<>>, "next") OBVIOUS
  <2>2. w.log = <<>> /\ w.left = "next" BY <2>1, DoesIs
  <2>3. done \o w.log \in ok[Len(<<>>)][w.left] BY <1>1, <1>2, <2>1
  <2> QED BY <2>2, <2>3
<1>4. done \o <<>> = done /\ Len(<<>>) = 0 /\ "next" \in Lefts BY LogFacts DEF Lefts
<1>5. done \in ok[0]["next"] BY <1>3, <1>4
<1>6. <<>> \in Seq(FrameType) OBVIOUS
<1>7. ok[0]["next"] \subseteq Whole(head) BY <1>1, <1>4, <1>6, CertificateFacts
<1> QED BY <1>5, <1>7

LEMMA AcceptsLess ==
  ASSUME NEW head, NEW stack, NEW done, NEW rest, NEW less,
         Accepts(head, stack, done, rest), less \subseteq rest
  PROVE  Accepts(head, stack, done, less)
BY DEF Accepts

(* A part of what is left is done.                                          *)
LEMMA AcceptsStep ==
  ASSUME NEW head, NEW stack, NEW done \in Logs, NEW more \in Logs, NEW rest, NEW less,
         Accepts(head, stack, done, rest), less \subseteq WaysOut(Lefts),
         \A w \in less : Does(more \o w.log, w.left) \in rest
  PROVE  Accepts(head, stack, done \o more, less)
<1>1. PICK ok : Certificate(head, stack, ok) /\ \A w \in rest : done \o w.log \in ok[Len(stack)][w.left]
  BY DEF Accepts
<1>2. ASSUME NEW w \in less PROVE (done \o more) \o w.log \in ok[Len(stack)][w.left]
  <2>1. w.log \in Logs BY <1>2, DoesIs
  <2>2. (done \o more) \o w.log = done \o (more \o w.log) BY <2>1, LogFacts
  <2>3. Does(more \o w.log, w.left) \in rest BY <1>2
  <2>4. done \o (more \o w.log) \in ok[Len(stack)][w.left] BY <1>1, <2>3, DoesIs
  <2> QED BY <2>2, <2>4
<1> QED BY <1>1, <1>2 DEF Accepts

(* The stack of a run that starts: all that its script does ends the run.   *)
LEMMA AcceptsStart ==
  ASSUME NEW head, NEW frame \in FrameType, FrameWays(frame) = Nothing, NEW rest,
         rest \subseteq WaysOut(Lefts), \A w \in rest : w.log \in Whole(head), Whole(head) \subseteq Logs
  PROVE  Accepts(head, <<frame>>, <<>>, rest)
<1> DEFINE ok == [i \in 0..1 |-> [left \in Lefts |-> Whole(head)]]
<1>1. Whole(head) \subseteq Begun(head)
  <2> SUFFICES ASSUME NEW done \in Whole(head) PROVE done \in Begun(head) OBVIOUS
  <2>1. done \in Logs /\ <<>> \in Logs /\ done \o <<>> = done BY DoesIs, LogFacts
  <2> QED BY <2>1 DEF Begun
<1>2. Len(<<frame>>) = 1 /\ <<frame>>[1] = frame /\ <<frame>> \in Seq(FrameType) OBVIOUS
<1>3. Certificate(head, <<frame>>, ok)
  <2>1. ok \in [0..1 -> [Lefts -> SUBSET Begun(head)]] BY <1>1
  <2>2. \A i \in 0..1, left \in Lefts : ok[i][left] = Whole(head) OBVIOUS
  <2> HIDE DEF ok
  <2>3. ASSUME NEW i \in 1..1, NEW left \in Lefts, NEW done \in ok[i][left],
               NEW w \in FrameWays(<<frame>>[Goal(<<frame>>, i, left)])
        PROVE  done \o w.log \in ok[Goal(<<frame>>, i, left) - 1][w.left]
    <3>1. i = 1 /\ i \in Nat \ {0} /\ i \in 0..1 OBVIOUS
    <3>2. Goal(<<frame>>, i, left) \in 1..i BY <3>1, GoalFacts
    <3>3. Goal(<<frame>>, i, left) = 1 BY <3>1, <3>2
    <3>4. w \in Nothing BY <1>2, <2>3, <3>3
    <3>5. w.log = <<>> /\ w.left = "next" BY <3>4, DoesIs DEF Nothing
    <3>6. done \in Whole(head) BY <2>2, <3>1
    <3>7. done \o w.log = done BY <3>5, <3>6, LogFacts
    <3>8. ok[0]["next"] = Whole(head) BY <2>2 DEF Lefts
    <3> QED BY <3>3, <3>5, <3>6, <3>7, <3>8
  <2>4. \A left \in Lefts : ok[0][left] \subseteq Whole(head) BY <2>2
  <2> QED BY <1>2, <2>1, <2>3, <2>4 DEF Certificate
<1>4. ASSUME NEW w \in rest PROVE <<>> \o w.log \in ok[Len(<<frame>>)][w.left]
  <2>1. w.log \in Logs /\ w.left \in Lefts BY <1>4, DoesIs
  <2>2. <<>> \o w.log = w.log BY <2>1, LogFacts
  <2>3. ok[1][w.left] = Whole(head) BY <2>1
  <2> HIDE DEF ok
  <2> QED BY <1>2, <1>4, <2>2, <2>3
<1> HIDE DEF ok
<1> QED BY <1>3, <1>4 DEF Accepts

(* A stack is unwound to the frame that catches what is left.               *)
LEMMA AcceptsUnwind ==
  ASSUME NEW head, NEW stack \in Seq(FrameType), stack # <<>>, NEW done \in Logs, NEW left \in Lefts,
         NEW rest, Accepts(head, stack, done, rest), Does(<<>>, left) \in rest
  PROVE  LET j == Goal(stack, Len(stack), left) IN
           Accepts(head, SubSeq(stack, 1, j - 1), done, FrameWays(stack[j]))
<1>1. PICK ok : Certificate(head, stack, ok) /\ \A w \in rest : done \o w.log \in ok[Len(stack)][w.left]
  BY DEF Accepts
<1>2. PICK n, j : n = Len(stack) /\ j = Goal(stack, n, left) OBVIOUS
<1>3. n \in Nat \ {0} /\ n \in 1..n BY <1>2
<1>4. j \in 1..n BY <1>2, <1>3, GoalFacts
<1>5. PICK other : other = SubSeq(stack, 1, j - 1) OBVIOUS
<1>6. other \in Seq(FrameType) /\ Len(other) = j - 1 /\ \A k \in 1..j - 1 : other[k] = stack[k]
  BY <1>2, <1>4, <1>5
<1>7. /\ ok \in [0..n -> [Lefts -> SUBSET Begun(head)]]
      /\ \A one \in Lefts : ok[0][one] \subseteq Whole(head)
      /\ \A i \in 1..n, one \in Lefts : \A so \in ok[i][one] :
           \A w \in FrameWays(stack[Goal(stack, i, one)]) :
             so \o w.log \in ok[Goal(stack, i, one) - 1][w.left]
  BY <1>1, <1>2, CertificateFacts
<1>8. PICK low : low = [i \in 0..j - 1 |-> ok[i]] OBVIOUS
<1>9. low \in [0..j - 1 -> [Lefts -> SUBSET Begun(head)]] /\ \A i \in 0..j - 1 : low[i] = ok[i]
  BY <1>3, <1>4, <1>7, <1>8
<1>10. Certificate(head, other, low)
  <2>1. ASSUME NEW i \in 1..j - 1, NEW one \in Lefts, NEW so \in low[i][one],
               NEW w \in FrameWays(other[Goal(other, i, one)])
        PROVE  so \o w.log \in low[Goal(other, i, one) - 1][w.left]
    <3>0. i \in Nat \ {0} /\ j \in Nat /\ \A k \in 1..i : k \in 1..j - 1 BY <1>3, <1>4
    <3>1. i \in Nat \ {0} /\ \A k \in 1..i : stack[k] = other[k] BY <1>6, <3>0
    <3>2. PICK m : m = Goal(stack, i, one) OBVIOUS
    <3>3. m = Goal(other, i, one) /\ m \in 1..i BY <3>1, <3>2, GoalSame
    <3>4. i \in 1..n /\ i \in 0..j - 1 /\ m - 1 \in 0..j - 1 BY <1>3, <1>4, <3>1, <3>3
    <3>5. stack[m] = other[m] BY <3>1, <3>3
    <3>6. so \in ok[i][one] /\ w \in FrameWays(stack[m]) BY <1>9, <2>1, <3>3, <3>4, <3>5
    <3>7. so \o w.log \in ok[m - 1][w.left] BY <1>7, <3>2, <3>4, <3>6
    <3> QED BY <1>9, <3>3, <3>4, <3>7
  <2>2. 0 \in 0..j - 1 BY <1>3, <1>4
  <2>3. \A one \in Lefts : low[0][one] \subseteq Whole(head) BY <1>7, <1>9, <2>2
  <2> QED BY <1>6, <1>9, <2>1, <2>3 DEF Certificate
<1>11. done \in ok[n][left]
  <2>1. PICK w : w = Does(<<>>, left) OBVIOUS
  <2>2. w \in rest /\ w.log = <<>> /\ w.left = left BY <2>1, DoesIs
  <2>3. done \o w.log \in ok[n][w.left] BY <1>1, <1>2, <2>2
  <2>4. done \o <<>> = done BY LogFacts
  <2> QED BY <2>2, <2>3, <2>4
<1>12. ASSUME NEW w \in FrameWays(stack[j]) PROVE done \o w.log \in low[Len(other)][w.left]
  <2>1. done \o w.log \in ok[j - 1][w.left] BY <1>2, <1>3, <1>7, <1>11, <1>12
  <2>2. j - 1 \in 0..j - 1 BY <1>3, <1>4
  <2> QED BY <1>6, <1>9, <2>1, <2>2
<1>13. Accepts(head, other, done, FrameWays(stack[j])) BY <1>10, <1>12 DEF Accepts
<1> QED BY <1>2, <1>5, <1>13

(* A frame is pushed: what it does comes after what it catches.             *)
LEMMA AcceptsPush ==
  ASSUME NEW head, NEW stack \in Seq(FrameType), stack # <<>>, NEW frame \in FrameType,
         SomeWays(FrameWays(frame)), NEW done \in Logs, NEW rest, NEW first,
         Accepts(head, stack, done, rest), first \subseteq WaysOut(Lefts),
         \A w \in first : IF Catches(frame.flag, w.left)
                            THEN \A v \in FrameWays(frame) : Does(w.log \o v.log, v.left) \in rest
                            ELSE w \in rest
  PROVE  Accepts(head, Append(stack, frame), done, first)
<1>1. PICK ok : Certificate(head, stack, ok) /\ \A w \in rest : done \o w.log \in ok[Len(stack)][w.left]
  BY DEF Accepts
<1>2. PICK n, other, after : n = Len(stack) /\ other = Append(stack, frame) /\ after = FrameWays(frame) OBVIOUS
<1>3. /\ n \in Nat \ {0} /\ other \in Seq(FrameType) /\ Len(other) = n + 1
      /\ other[n + 1] = frame /\ \A k \in 1..n : other[k] = stack[k]
  BY <1>2, AppendFacts
<1>4. /\ ok \in [0..n -> [Lefts -> SUBSET Begun(head)]]
      /\ \A one \in Lefts : ok[0][one] \subseteq Whole(head)
      /\ \A i \in 1..n, one \in Lefts : \A so \in ok[i][one] :
           \A w \in FrameWays(stack[Goal(stack, i, one)]) :
             so \o w.log \in ok[Goal(stack, i, one) - 1][w.left]
  BY <1>1, <1>2, CertificateFacts
<1>5. PICK caught : caught = {so \in Begun(head) : \A v \in after : so \o v.log \in ok[n][v.left]} OBVIOUS
<1>6. PICK top : top = [left \in Lefts |-> IF Catches(frame.flag, left) THEN caught ELSE ok[n][left]] OBVIOUS
<1>7. n \in 0..n /\ ok[n] \in [Lefts -> SUBSET Begun(head)] BY <1>3, <1>4
<1>8. top \in [Lefts -> SUBSET Begun(head)] BY <1>5, <1>6, <1>7
<1>9. PICK high : high = [i \in 0..n + 1 |-> IF i = n + 1 THEN top ELSE ok[i]] OBVIOUS
<1>10. high \in [0..n + 1 -> [Lefts -> SUBSET Begun(head)]]
       /\ high[n + 1] = top /\ \A i \in 0..n : high[i] = ok[i]
  <2>1. \A i \in 0..n + 1 : i # n + 1 => i \in 0..n BY <1>3
  <2>2. n + 1 \in 0..n + 1 /\ \A i \in 0..n : i # n + 1 /\ i \in 0..n + 1 BY <1>3
  <2> QED BY <1>4, <1>8, <1>9, <2>1, <2>2
<1>11. ASSUME NEW i \in 1..n + 1, NEW one \in Lefts, NEW so \in high[i][one],
              NEW w \in FrameWays(other[Goal(other, i, one)])
       PROVE  so \o w.log \in high[Goal(other, i, one) - 1][w.left]
  <2>1. CASE i \in 1..n
    <3>1. i \in Nat \ {0} /\ \A k \in 1..i : stack[k] = other[k] BY <1>3, <2>1
    <3>2. PICK m : m = Goal(stack, i, one) OBVIOUS
    <3>3. m = Goal(other, i, one) /\ m \in 1..i BY <3>1, <3>2, GoalSame
    <3>4. i \in 0..n /\ m - 1 \in 0..n BY <1>3, <2>1, <3>3
    <3>5. stack[m] = other[m] BY <3>1, <3>3
    <3>6. so \in ok[i][one] /\ w \in FrameWays(stack[m]) BY <1>10, <1>11, <3>3, <3>4, <3>5
    <3>7. so \o w.log \in ok[m - 1][w.left] BY <1>4, <2>1, <3>2, <3>6
    <3> QED BY <1>10, <3>3, <3>4, <3>7
  <2>2. CASE i = n + 1 /\ Catches(frame.flag, one)
    <3>1. Goal(other, i, one) = n + 1 BY <1>2, <2>2, GoalAbove
    <3>2. w \in after BY <1>2, <1>3, <1>11, <3>1
    <3>3. so \in caught BY <1>6, <1>10, <1>11, <2>2
    <3>4. so \o w.log \in ok[n][w.left] BY <1>5, <3>2, <3>3
    <3>5. (n + 1) - 1 = n BY <1>3
    <3>6. high[n] = ok[n] BY <1>7, <1>10
    <3> QED BY <3>1, <3>4, <3>5, <3>6
  <2>3. CASE i = n + 1 /\ ~Catches(frame.flag, one)
    <3>1. PICK m : m = Goal(stack, n, one) OBVIOUS
    <3>2. Goal(other, i, one) = m BY <1>2, <2>3, <3>1, GoalAbove
    <3>3. m \in 1..n BY <1>3, <3>1, GoalFacts
    <3>4. so \in ok[n][one] BY <1>6, <1>10, <1>11, <2>3
    <3>5. w \in FrameWays(stack[m]) BY <1>3, <1>11, <3>2, <3>3
    <3>6. n \in 1..n /\ m - 1 \in 0..n BY <1>3, <3>3
    <3>7. so \o w.log \in ok[m - 1][w.left] BY <1>4, <3>1, <3>4, <3>5, <3>6
    <3> QED BY <1>10, <3>2, <3>6, <3>7
  <2> QED BY <1>3, <2>1, <2>2, <2>3
<1>12. Certificate(head, other, high)
  <2>1. 0 \in 0..n BY <1>3
  <2>2. \A one \in Lefts : high[0][one] \subseteq Whole(head) BY <1>4, <1>10, <2>1
  <2> QED BY <1>3, <1>10, <1>11, <2>2 DEF Certificate
<1>13. ASSUME NEW w \in first PROVE done \o w.log \in high[Len(other)][w.left]
  <2>1. w.log \in Logs /\ w.left \in Lefts BY <1>13, DoesIs
  <2>2. high[Len(other)][w.left] = IF Catches(frame.flag, w.left) THEN caught ELSE ok[n][w.left]
    BY <1>3, <1>6, <1>10, <2>1
  <2>3. CASE Catches(frame.flag, w.left)
    <3>1. ASSUME NEW v \in after
          PROVE  v.log \in Logs /\ v.left \in Lefts /\ (done \o w.log) \o v.log \in ok[n][v.left]
      <4>1. v.log \in Logs /\ v.left \in Lefts BY <1>2, <3>1, DoesIs DEF SomeWays
      <4>2. Does(w.log \o v.log, v.left) \in rest BY <1>2, <1>13, <2>3, <3>1
      <4>3. done \o (w.log \o v.log) \in ok[n][v.left] BY <1>1, <1>2, <4>2, DoesIs
      <4>4. (done \o w.log) \o v.log = done \o (w.log \o v.log) BY <2>1, <4>1, LogFacts
      <4> QED BY <4>1, <4>3, <4>4
    <3>2. PICK v \in after : TRUE BY <1>2 DEF SomeWays
    <3>3. (done \o w.log) \o v.log \in Begun(head) /\ v.log \in Logs BY <1>7, <3>1
    <3>4. done \o w.log \in Logs BY <2>1, LogFacts
    <3>5. done \o w.log \in Begun(head) BY <3>3, <3>4, BegunFacts
    <3>6. done \o w.log \in caught BY <1>5, <3>1, <3>5
    <3> QED BY <2>2, <2>3, <3>6
  <2>4. CASE ~Catches(frame.flag, w.left)
    <3>1. w \in rest BY <1>13, <2>4
    <3> QED BY <1>1, <1>2, <2>2, <2>4, <3>1
  <2> QED BY <2>3, <2>4
<1>14. Accepts(head, other, done, first) BY <1>12, <1>13 DEF Accepts
<1> QED BY <1>2, <1>14

(* A task that is done with a frame for what comes after it.                *)
LEMMA AcceptsThen ==
  ASSUME NEW head, NEW stack \in Seq(FrameType), stack # <<>>, NEW frame \in FrameType,
         SomeWays(FrameWays(frame)), NEW done \in Logs, NEW rest, NEW first, NEW one,
         Accepts(head, stack, done, rest), first \subseteq WaysOut(Lefts),
         Then(one, FrameWays(frame)) \subseteq rest,
         \A w \in first : IF Catches(frame.flag, w.left) THEN Does(w.log, "next") \in one
                            ELSE w \in one /\ w.left # "next"
  PROVE  Accepts(head, Append(stack, frame), done, first)
<1>1. ASSUME NEW w \in first, Catches(frame.flag, w.left), NEW v \in FrameWays(frame)
      PROVE  Does(w.log \o v.log, v.left) \in rest
  <2>1. PICK a : a = Does(w.log, "next") OBVIOUS
  <2>2. a \in one /\ a.log = w.log /\ a.left = "next" BY <1>1, <2>1, DoesIs
  <2>3. Does(a.log \o v.log, v.left) \in Then(one, FrameWays(frame)) BY <1>1, <2>2, ThenHas
  <2> QED BY <2>2, <2>3
<1>2. ASSUME NEW w \in first, ~Catches(frame.flag, w.left) PROVE w \in rest
  <2>1. w \in Then(one, FrameWays(frame)) BY <1>2, ThenHas
  <2> QED BY <2>1
<1>3. \A w \in first : IF Catches(frame.flag, w.left)
                         THEN \A v \in FrameWays(frame) : Does(w.log \o v.log, v.left) \in rest
                         ELSE w \in rest
  BY <1>1, <1>2
<1> HIDE DEF FrameWays
<1> QED BY <1>3, AcceptsPush

(* A list that does not repeat is not within its tasks.                     *)
Starts(call, count) ==
  /\ call.do = "tasks" /\ call.list \in DOMAIN Group[call.of].taskList
  /\ Group[call.of].taskList[call.list].repeat <= count
  => call.at = 1

(* A frame goes back to another script than those above it are in, up to    *)
(* the next of its kind, but for one that has yet to be executed: that is   *)
(* only under the call for its parameters.                                  *)
ScriptAt(stack, script, k) == IF k \in DOMAIN stack THEN stack[k].script ELSE script

Executes(stack, call) ==
  \A i \in DOMAIN stack :
    /\ stack[i].call.do = "execute" => i = Len(stack) /\ call.do = "params"
    /\ Starts(stack[i].call, 0)

Apart(stack, script) ==
  \A i \in DOMAIN stack : stack[i].flag = "action" /\ stack[i].call.do # "execute" =>
    \A k \in i + 1..Len(stack) + 1 :
      (\A m \in i + 1..k - 1 : stack[m].flag # "action") => ScriptAt(stack, script, k) # stack[i].script

(* What a run has done, and that it goes on with a call, is in its script.  *)
Follows(run, done, call) ==
  /\ Starts(call, run.taskListRepeatCount) /\ Executes(run.stack, call) /\ Apart(run.stack, run.script)
  /\ Accepts(run.scriptHead, run.stack, done, Left(call, run.script, run.taskListRepeatCount))

Settled(run, done, call) ==
  /\ call.do # "ends" => run.taskListRepeatCount = 0
  /\ Follows(run, done, call)

LEMMA SameFollows ==
  ASSUME NEW run, NEW other, NEW done, NEW call,
         other.stack = run.stack, other.script = run.script, other.scriptHead = run.scriptHead,
         other.taskListRepeatCount = run.taskListRepeatCount
  PROVE  /\ Follows(run, done, call) => Follows(other, done, call)
         /\ Settled(run, done, call) => Settled(other, done, call)
BY DEF Follows, Settled

(* Where the ways out of a task lead: the frames that are unwound to.       *)
LEMMA GoalOf ==
  ASSUME NEW run \in RunType, Stacked(run), run.stack # <<>>
  PROVE  LET to(left) == UnwindTo(run, Goal(run.stack, Len(run.stack), left)) IN
           /\ PopAndCall(run) = to("next") /\ PopAndCall(run) = to("break")
           /\ PopToAndCall(run, "controlGroup") = to("breakcontrolgroup")
           /\ PopToAndCall(run, "action") = to("return")
           /\ ExitAction(run) = to("exit") /\ PopToAndCall(run, "check") = to("exit")
<1>1. PICK stack, n : stack = run.stack /\ n = Len(run.stack) OBVIOUS
<1>2. stack \in Seq(FrameType) /\ DOMAIN stack = 1..n BY <1>1, RunFields
<1>3. \A i \in 1..n : stack[i].flag \in {"", "action", "actionHead", "controlGroup", "taskGroup", "DoublePOP"}
  <2> TAKE i \in 1..n
  <2>1. i \in DOMAIN stack BY <1>2
  <2>2. stack[i] \in FrameType BY <1>2, <2>1, ElementOfFrames
  <2> QED BY <2>2 DEF FrameType
<1>4. \A left : Goal(stack, n, left) = Max({1} \union {k \in 1..n : Catches(stack[k].flag, left)}) BY DEF Goal
<1>5. ASSUME NEW left \in {"next", "break"} PROVE PopAndCall(run) = UnwindTo(run, Goal(stack, n, left))
  <2>1. {k \in 1..n : Catches(stack[k].flag, left)} = {i \in DOMAIN stack : stack[i].flag # "DoublePOP"}
    BY <1>2, <1>5 DEF Catches
  <2> QED BY <1>1, <1>4, <2>1 DEF PopAndCall
<1>6. PopToAndCall(run, "controlGroup") = UnwindTo(run, Goal(stack, n, "breakcontrolgroup"))
  <2>1. {k \in 1..n : Catches(stack[k].flag, "breakcontrolgroup")} = {i \in DOMAIN stack : stack[i].flag \in {"controlGroup"}}
    BY <1>2 DEF Catches
  <2> QED BY <1>1, <1>4, <2>1 DEF PopToAndCall, Highest
<1>7. PopToAndCall(run, "action") = UnwindTo(run, Goal(stack, n, "return"))
  <2>1. {k \in 1..n : Catches(stack[k].flag, "return")} = {i \in DOMAIN stack : stack[i].flag \in {"action"}}
    BY <1>2 DEF Catches
  <2> QED BY <1>1, <1>4, <2>1 DEF PopToAndCall, Highest
<1>8. ExitAction(run) = UnwindTo(run, Goal(stack, n, "exit"))
  <2>1. {k \in 1..n : Catches(stack[k].flag, "exit")} = {i \in DOMAIN stack : stack[i].flag \in {"none has it"}}
    BY <1>2, <1>3 DEF Catches
  <2> QED BY <1>1, <1>4, <2>1 DEF ExitAction, PopToAndCall, Highest
<1>9. PopToAndCall(run, "check") = UnwindTo(run, Goal(stack, n, "exit"))
  <2>1. {k \in 1..n : Catches(stack[k].flag, "exit")} = {i \in DOMAIN stack : stack[i].flag \in {"check"}}
    BY <1>2, <1>3 DEF Catches
  <2> QED BY <1>1, <1>4, <2>1 DEF PopToAndCall, Highest
<1> QED BY <1>1, <1>5, <1>6, <1>7, <1>8, <1>9

(* Unwinding to a frame.                                                    *)
LEMMA UnwindFields ==
  ASSUME NEW run \in RunType, run.stack # <<>>, NEW j \in DOMAIN run.stack
  PROVE  LET made == UnwindTo(run, j) IN
           /\ made.run.stack = SubSeq(run.stack, 1, j - 1) /\ made.run.script = run.stack[j].script
           /\ made.run.scriptHead = run.scriptHead
           /\ made.run.taskListRepeatCount = run.taskListRepeatCount
           /\ made.calls[Len(made.calls)] = run.stack[j].call
<1>1. PICK stack, calls, made :
        /\ stack = run.stack /\ calls = CallsDownTo(stack, j)
        /\ made = [run EXCEPT !.stack = SubSeq(@, 1, j - 1), !.script = run.stack[j].script]
  OBVIOUS
<1>2. stack \in Seq(FrameType) BY <1>1, RunFields
<1>3. UnwindTo(run, j) = [run |-> made, calls |-> calls] BY <1>1 DEF UnwindTo, Made
<1>4. calls[Len(calls)] = stack[j].call BY <1>1, <1>2, CallsDown
<1>5. /\ made.stack = SubSeq(stack, 1, j - 1) /\ made.script = stack[j].script
      /\ made.scriptHead = run.scriptHead /\ made.taskListRepeatCount = run.taskListRepeatCount
  BY <1>1 DEF RunType
<1>6. PICK whole : whole = UnwindTo(run, j) OBVIOUS
<1>7. whole.run = made /\ whole.calls = calls BY <1>3, <1>6
<1>8. /\ whole.run.stack = SubSeq(stack, 1, j - 1) /\ whole.run.script = stack[j].script
      /\ whole.run.scriptHead = run.scriptHead /\ whole.run.taskListRepeatCount = run.taskListRepeatCount
      /\ whole.calls[Len(whole.calls)] = stack[j].call
  BY <1>4, <1>5, <1>7
<1> QED BY <1>1, <1>6, <1>8

(* A run that is unwound for what it can be left with follows its script.   *)
LEMMA UnwindFollows ==
  ASSUME NEW run \in RunType, Stacked(run), run.stack # <<>>, NEW done \in Logs, NEW call, NEW left \in Lefts,
         Follows(run, done, call), Does(<<>>, left) \in Left(call, run.script, run.taskListRepeatCount),
         run.taskListRepeatCount = 0 \/ left = "exit"
  PROVE  LET made == UnwindTo(run, Goal(run.stack, Len(run.stack), left)) IN
           Settled(made.run, done, made.calls[Len(made.calls)])
<1>1. PICK stack, n, j, made :
        stack = run.stack /\ n = Len(stack) /\ j = Goal(stack, n, left) /\ made = UnwindTo(run, j)
  OBVIOUS
<1>2. stack \in Seq(FrameType) /\ n \in Nat \ {0} /\ DOMAIN stack = 1..n BY <1>1, RunFields
<1>3. j \in 1..n /\ (j = 1 \/ Catches(stack[j].flag, left)) BY <1>1, <1>2, GoalFacts
<1>4. /\ made.run.stack = SubSeq(stack, 1, j - 1) /\ made.run.script = stack[j].script
      /\ made.run.scriptHead = run.scriptHead
      /\ made.run.taskListRepeatCount = run.taskListRepeatCount
      /\ made.calls[Len(made.calls)] = stack[j].call
  BY <1>1, <1>2, <1>3, UnwindFields
<1>5. PICK other, last : other = SubSeq(stack, 1, j - 1) /\ last = stack[j].call OBVIOUS
<1>6. other \in Seq(FrameType) /\ Len(other) = j - 1 /\ DOMAIN other = 1..j - 1
      /\ \A k \in 1..j - 1 : other[k] = stack[k]
  BY <1>2, <1>3, <1>5
<1>7. Executes(stack, call) /\ Apart(stack, run.script) BY <1>1 DEF Follows
<1>8. Executes(other, last)
  <2> SUFFICES ASSUME NEW i \in DOMAIN other PROVE other[i].call.do # "execute" /\ Starts(other[i].call, 0)
    BY DEF Executes
  <2>1. i \in DOMAIN stack /\ other[i] = stack[i] /\ i # n BY <1>2, <1>3, <1>6
  <2> QED BY <1>1, <1>7, <2>1 DEF Executes
<1>9. Apart(other, stack[j].script)
  <2> SUFFICES ASSUME NEW i \in DOMAIN other, other[i].flag = "action", other[i].call.do # "execute",
                      NEW k \in i + 1..Len(other) + 1, \A m \in i + 1..k - 1 : other[m].flag # "action"
               PROVE  ScriptAt(other, stack[j].script, k) # other[i].script
    BY DEF Apart
  <2>1. i \in DOMAIN stack /\ other[i] = stack[i] /\ k \in i + 1..Len(stack) + 1 /\ k \in 1..j
    BY <1>1, <1>2, <1>3, <1>6
  <2>2. \A m \in i + 1..k - 1 : stack[m].flag # "action"
    <3> TAKE m \in i + 1..k - 1
    <3>1. m \in 1..j - 1 BY <1>2, <1>3, <1>6, <2>1
    <3> QED BY <1>6, <3>1
  <2>3. ScriptAt(stack, run.script, k) # stack[i].script BY <1>7, <2>1, <2>2 DEF Apart
  <2>4. ScriptAt(stack, run.script, k) = stack[k].script
    <3>1. k \in DOMAIN stack BY <1>2, <1>3, <2>1
    <3> QED BY <3>1 DEF ScriptAt
  <2>5. ScriptAt(other, stack[j].script, k) = stack[k].script
    <3>1. CASE k \in DOMAIN other BY <1>6, <3>1 DEF ScriptAt
    <3>2. CASE k \notin DOMAIN other
      <4>1. k = j BY <1>2, <1>3, <1>6, <2>1, <3>2
      <4> QED BY <3>2, <4>1 DEF ScriptAt
    <3> QED BY <3>1, <3>2
  <2> QED BY <2>1, <2>3, <2>4, <2>5
<1>10. Accepts(run.scriptHead, other, done, FrameWays(stack[j]))
  <2>1. Accepts(run.scriptHead, stack, done, Left(call, run.script, run.taskListRepeatCount))
    BY <1>1 DEF Follows
  <2> QED BY <1>1, <1>2, <1>5, <2>1, AcceptsUnwind
<1>11. last.do # "ends" => run.taskListRepeatCount = 0
  <2>1. CASE left = "exit"
    <3>1. j = 1 BY <1>3, <2>1 DEF Catches
    <3>2. last.do = "ends" BY <1>1, <1>2, <1>3, <1>5, <3>1 DEF Stacked, FrameFits
    <3> QED BY <3>2
  <2> QED BY <2>1
<1>12. FrameWays(stack[j]) = Left(last, stack[j].script, 0) BY <1>5 DEF FrameWays
<1>13. Left(last, stack[j].script, run.taskListRepeatCount) = Left(last, stack[j].script, 0)
  <2>1. CASE last.do = "ends" BY <2>1, LeftCases
  <2>2. CASE last.do # "ends" BY <1>11, <2>2
  <2> QED BY <2>1, <2>2
<1>15. Starts(last, run.taskListRepeatCount)
  <2>1. CASE last.do = "ends" BY <2>1 DEF Starts
  <2>2. CASE last.do # "ends"
    <3>1. Starts(last, 0) BY <1>2, <1>3, <1>5, <1>7 DEF Executes
    <3> QED BY <1>11, <2>2, <3>1
  <2> QED BY <2>1, <2>2
<1>14. Settled(made.run, done, made.calls[Len(made.calls)])
  BY <1>4, <1>5, <1>8, <1>9, <1>10, <1>11, <1>12, <1>13, <1>15 DEF Settled, Follows
<1> QED BY <1>1, <1>14

Flags == {"", "action", "actionHead", "controlGroup", "taskGroup", "DoublePOP"}
FrameOf(run, call, flag) == [script |-> run.script, call |-> call, flag |-> flag]

(* What a push does to a run, whatever is pushed.                           *)
IsPushed(run, script, call, flag, pushed, frame) ==
  /\ frame \in FrameType /\ FrameWays(frame) = Left(call, run.script, 0)
  /\ frame.script = run.script /\ frame.call = call /\ frame.flag = flag
  /\ pushed.stack = Append(run.stack, frame)
  /\ pushed.script = IF script = None THEN run.script ELSE script
  /\ pushed.scriptHead = run.scriptHead
  /\ pushed.taskListRepeatCount = run.taskListRepeatCount

LEMMA PushFields ==
  ASSUME NEW run \in RunType, NEW script, NEW call \in CallType, NEW flag \in Flags
  PROVE  IsPushed(run, script, call, flag, Push(run, script, call, flag), FrameOf(run, call, flag))
<1>1. PICK frame, pushed : frame = FrameOf(run, call, flag) /\ pushed = Push(run, script, call, flag) OBVIOUS
<1>2. frame = [script |-> run.script, call |-> call, flag |-> flag] BY <1>1 DEF FrameOf
<1>3. run.script \in DOMAIN Script \union {None} BY RunFields
<1>4. frame \in FrameType /\ frame.script = run.script /\ frame.call = call /\ frame.flag = flag
  <2>1. [script |-> run.script, call |-> call, flag |-> flag] \in FrameType BY <1>3 DEF FrameType, Flags
  <2>2. frame \in FrameType BY <1>2, <2>1
  <2>3. frame.script = run.script /\ frame.call = call /\ frame.flag = flag BY <1>1 DEF FrameOf
  <2> QED BY <2>2, <2>3
<1>5. FrameWays(frame) = Left(call, run.script, 0) BY <1>4 DEF FrameWays
<1>6. Push(run, script, call, flag) =
        [run EXCEPT !.stack = Append(@, frame), !.script = IF script = None THEN @ ELSE script]
  BY <1>1, <1>2 DEF Push
<1>8. /\ pushed.stack = Append(run.stack, frame)
      /\ pushed.script = IF script = None THEN run.script ELSE script
      /\ pushed.scriptHead = run.scriptHead /\ pushed.taskListRepeatCount = run.taskListRepeatCount
  <2> HIDE DEF Push
  <2> QED BY <1>1, <1>6 DEF RunType
<1> QED BY <1>1, <1>4, <1>5, <1>8 DEF IsPushed

LEMMA ApartPush ==
  ASSUME NEW stack \in Seq(FrameType), NEW frame \in FrameType, NEW script,
         Apart(stack, frame.script),
         frame.flag = "action" /\ frame.call.do # "execute" => script # frame.script,
         frame.flag # "action" => script = frame.script \/ stack = <<>>
  PROVE  Apart(Append(stack, frame), script)
<1>1. PICK other, n : other = Append(stack, frame) /\ n = Len(stack) OBVIOUS
<1>2. /\ n \in Nat /\ Len(other) = n + 1 /\ other[n + 1] = frame
      /\ \A k \in 1..n : other[k] = stack[k]
      /\ DOMAIN stack = 1..n /\ DOMAIN other = 1..n + 1
      /\ n = 0 <=> stack = <<>>
  BY <1>1, AppendFacts
<1> SUFFICES ASSUME NEW i \in DOMAIN other, other[i].flag = "action", other[i].call.do # "execute",
                    NEW k \in i + 1..n + 2, \A m \in i + 1..k - 1 : other[m].flag # "action"
             PROVE  ScriptAt(other, script, k) # other[i].script
  <2>1. (n + 1) + 1 = n + 2 BY <1>2
  <2> QED BY <1>1, <1>2, <2>1 DEF Apart
<1>3. i \in 1..n + 1 /\ k \in 1..n + 2 BY <1>2
<1>4. CASE i = n + 1
  <2>1. k = n + 2 BY <1>2, <1>4
  <2>2. k \notin DOMAIN other BY <1>2, <2>1
  <2>3. ScriptAt(other, script, k) = script BY <2>2 DEF ScriptAt
  <2> QED BY <1>2, <1>4, <2>3
<1>5. CASE i \in 1..n /\ k \in i + 1..n + 1
  <2>1. \A m \in i + 1..k - 1 : stack[m].flag # "action"
    <3> TAKE m \in i + 1..k - 1
    <3>1. m \in 1..n BY <1>2, <1>5
    <3> QED BY <1>2, <3>1
  <2>2. i \in DOMAIN stack /\ other[i] = stack[i] BY <1>2, <1>5
  <2>3. ScriptAt(stack, frame.script, k) # stack[i].script BY <1>1, <1>5, <2>1, <2>2 DEF Apart
  <2>4. ScriptAt(other, script, k) = ScriptAt(stack, frame.script, k)
    <3>1. CASE k \in 1..n
      <4>1. k \in DOMAIN other /\ k \in DOMAIN stack /\ other[k] = stack[k] BY <1>2, <3>1
      <4> QED BY <4>1 DEF ScriptAt
    <3>2. CASE k = n + 1
      <4>1. k \in DOMAIN other /\ k \notin DOMAIN stack /\ other[k] = frame BY <1>2, <3>2
      <4> QED BY <4>1 DEF ScriptAt
    <3> QED BY <1>2, <1>5, <3>1, <3>2
  <2> QED BY <2>2, <2>3, <2>4
<1>6. CASE i \in 1..n /\ k = n + 2
  <2>1. \A m \in i + 1..n + 1 : m \in i + 1..k - 1 BY <1>2, <1>6
  <2>2. \A m \in i + 1..(n + 1) - 1 : stack[m].flag # "action"
    <3> TAKE m \in i + 1..(n + 1) - 1
    <3>1. m \in 1..n /\ m \in i + 1..n + 1 BY <1>2, <1>6
    <3> QED BY <1>2, <2>1, <3>1
  <2>3. n + 1 \in i + 1..n + 1 BY <1>2, <1>6
  <2>4. frame.flag # "action" BY <1>2, <2>1, <2>3
  <2>5. script = frame.script BY <1>2, <1>6, <2>4
  <2>6. i \in DOMAIN stack /\ other[i] = stack[i] BY <1>2, <1>6
  <2>7. ScriptAt(stack, frame.script, n + 1) # stack[i].script BY <1>1, <2>2, <2>3, <2>6 DEF Apart
  <2>8. n + 1 \notin DOMAIN stack /\ k \notin DOMAIN other BY <1>2, <1>6
  <2>9. ScriptAt(stack, frame.script, n + 1) = frame.script /\ ScriptAt(other, script, k) = script
    BY <2>8 DEF ScriptAt
  <2> QED BY <2>5, <2>6, <2>7, <2>9
<1> QED BY <1>2, <1>3, <1>4, <1>5, <1>6

(* A push keeps scripts apart, and what executes on top.                    *)
LEMMA ExecutesPush ==
  ASSUME NEW stack \in Seq(FrameType), NEW frame \in FrameType, NEW call, NEW next, Executes(stack, call),
         call.do # "params", frame.call.do = "execute" => next.do = "params", Starts(frame.call, 0)
  PROVE  Executes(Append(stack, frame), next)
<1>1. PICK other, n : other = Append(stack, frame) /\ n = Len(stack) OBVIOUS
<1>2. /\ n \in Nat /\ Len(other) = n + 1 /\ other[n + 1] = frame
      /\ \A k \in 1..n : other[k] = stack[k]
      /\ DOMAIN stack = 1..n /\ DOMAIN other = 1..n + 1
  BY <1>1, AppendFacts
<1>3. \A i \in 1..n : stack[i].call.do # "execute" /\ Starts(stack[i].call, 0) BY <1>2 DEF Executes
<1>4. ASSUME NEW i \in 1..n + 1, other[i].call.do = "execute" PROVE i = n + 1 /\ next.do = "params"
  <2>1. i = n + 1 BY <1>2, <1>3, <1>4
  <2> QED BY <1>2, <1>4, <2>1
<1>6. \A i \in 1..n + 1 : Starts(other[i].call, 0)
  <2> TAKE i \in 1..n + 1
  <2>1. i = n + 1 \/ i \in 1..n BY <1>2
  <2> QED BY <1>2, <1>3, <2>1
<1>5. Executes(other, next) BY <1>2, <1>4, <1>6 DEF Executes
<1> QED BY <1>1, <1>5

(* A task that is executed, and a frame for what comes after it.            *)
LEMMA PushFollows ==
  ASSUME Plain, Meant(Ways), NEW run \in RunType, run.stack # <<>>, NEW done \in Logs, NEW call, NEW script,
         NEW callFunction, NEW callBack \in CallType,
         NEW flag \in {"action", "actionHead", "controlGroup", "taskGroup"}, NEW one,
         Follows(run, done, call), run.taskListRepeatCount = 0, call.do # "params",
         callBack.do = "execute" => callFunction.do = "params", Starts(callBack, 0), Starts(callFunction, 0),
         flag = "action" /\ callBack.do # "execute" => script \notin {None, run.script},
         flag # "action" \/ callBack.do = "execute" => script = None,
         SomeWays(Left(callBack, run.script, 0)),
         Then(one, Left(callBack, run.script, 0)) \subseteq Left(call, run.script, 0),
         LET next == IF script = None THEN run.script ELSE script IN
           /\ SomeWays(Left(callFunction, next, 0))
           /\ \A w \in Left(callFunction, next, 0) :
                IF Catches(flag, w.left) THEN Does(w.log, "next") \in one ELSE w \in one /\ w.left # "next"
  PROVE  LET pushed == Push(run, script, callBack, flag) IN Settled(pushed, done, callFunction)
<1>1. PICK pushed, frame, next :
        /\ pushed = Push(run, script, callBack, flag) /\ frame = FrameOf(run, callBack, flag)
        /\ next = IF script = None THEN run.script ELSE script
  OBVIOUS
<1>2. /\ frame \in FrameType /\ FrameWays(frame) = Left(callBack, run.script, 0)
      /\ frame.script = run.script /\ frame.call = callBack /\ frame.flag = flag
      /\ pushed.stack = Append(run.stack, frame) /\ pushed.script = next
      /\ pushed.scriptHead = run.scriptHead
      /\ pushed.taskListRepeatCount = 0
  <2>1. flag \in Flags BY DEF Flags
  <2>2. IsPushed(run, script, callBack, flag, pushed, frame) BY <1>1, <2>1, PushFields
  <2> QED BY <1>1, <2>2 DEF IsPushed
<1>3. run.stack \in Seq(FrameType) BY RunFields
<1>4. /\ Executes(run.stack, call) /\ Apart(run.stack, run.script)
      /\ Accepts(run.scriptHead, run.stack, done, Left(call, run.script, 0))
  BY DEF Follows
<1>5. Executes(pushed.stack, callFunction) BY <1>2, <1>3, <1>4, ExecutesPush
<1>6. Apart(pushed.stack, pushed.script)
  <2>1. frame.flag = "action" /\ frame.call.do # "execute" => next # frame.script BY <1>1, <1>2
  <2>2. frame.flag # "action" => next = frame.script BY <1>1, <1>2
  <2> QED BY <1>2, <1>3, <1>4, <2>1, <2>2, ApartPush
<1>7. Accepts(run.scriptHead, pushed.stack, done, Left(callFunction, next, 0))
  <2>1. Left(callFunction, next, 0) \subseteq WaysOut(Lefts) BY <1>1 DEF SomeWays
  <2>2. \A w \in Left(callFunction, next, 0) :
          IF Catches(frame.flag, w.left) THEN Does(w.log, "next") \in one ELSE w \in one /\ w.left # "next"
    BY <1>1, <1>2
  <2>3. Then(one, FrameWays(frame)) \subseteq Left(call, run.script, 0) /\ SomeWays(FrameWays(frame)) BY <1>2
  <2>4. PICK first, rest : first = Left(callFunction, next, 0) /\ rest = Left(call, run.script, 0) OBVIOUS
  <2>5. Accepts(run.scriptHead, Append(run.stack, frame), done, first)
    BY <1>2, <1>3, <1>4, <2>1, <2>2, <2>3, <2>4, AcceptsThen
  <2> QED BY <1>2, <2>4, <2>5
<1>8. Settled(pushed, done, callFunction) BY <1>2, <1>5, <1>6, <1>7 DEF Settled, Follows
<1> QED BY <1>1, <1>8

LEMMA NothingFacts ==
  /\ SomeWays(Nothing) /\ Does(<<>>, "next") \in Nothing
  /\ \A w \in Nothing : w.left = "next" /\ w.log = <<>> /\ Does(w.log, "next") \in Nothing
  /\ \A ways : ways \subseteq WaysOut(Lefts) => Then(Nothing, ways) = ways
<1>1. SomeWays(Nothing) BY OneWay DEF SomeWays, Lefts
<1>2. \A w \in Nothing : w = Does(<<>>, "next") BY DEF Nothing
<1>3. Does(<<>>, "next") \in Nothing BY DEF Nothing
<1>4. "next" \in Lefts BY DEF Lefts
<1>5. ASSUME NEW ways, ways \subseteq WaysOut(Lefts) PROVE Then(Nothing, ways) = ways
  BY <1>1, <1>4, <1>5, ThenWays DEF SomeWays
<1> QED BY <1>1, <1>2, <1>3, <1>5, DoesIs

(* A script is entered: its parameters come first, and the screen is        *)
(* unlocked whatever it does.                                               *)
LEMMA EnteredFollows ==
  ASSUME Plain, Meant(Ways), NEW run, NEW script \in DOMAIN Script, NEW callBack, NEW outer,
         NEW inner \in {"action", "actionHead"}, NEW done \in Logs,
         NEW pushed, pushed = Push(run, script, callBack, outer),
         pushed \in RunType, Stacked(pushed), pushed.stack # <<>>, pushed.script = script,
         pushed.taskListRepeatCount = 0, Follows(pushed, done, Call("execute"))
  PROVE  LET made == Entered(run, script, callBack, outer, inner) IN Settled(made.run, done, Call("params"))
<1>1. PICK lock, under, made :
        /\ lock = (Script[script].lockScreen /\ locked = "no")
        /\ under = IF lock THEN Push(pushed, None, Call("unlock"), "DoublePOP") ELSE pushed
        /\ made = PushAndCall(under, Call("params"), Call("execute"), inner)
  OBVIOUS
<1>2. Entered(run, script, callBack, outer, inner) = made BY <1>1 DEF Entered
<1>3. PICK rest : rest = Rest(PartsOf(script, Ways), 1) OBVIOUS
<1>4. SomeWays(rest) BY <1>3, ScriptRest
<1>5. /\ Call("execute") \in CallType /\ Call("execute").do = "execute"
      /\ Call("params") \in CallType /\ Call("params").do = "params"
      /\ Call("unlock") \in CallType /\ Call("unlock").do = "unlock"
  BY CallKinds
<1>6. \A count : Left(Call("execute"), script, count) = rest BY <1>3, <1>5, LeftCases
<1>7. /\ under \in RunType /\ under.stack # <<>> /\ under.script = script
      /\ under.taskListRepeatCount = 0 /\ Follows(under, done, Call("execute"))
  <2>1. CASE lock
    <3>1. PushFits(pushed, Call("unlock"), "DoublePOP") BY CallKinds DEF PushFits
    <3>2. under = Push(pushed, None, Call("unlock"), "DoublePOP") BY <1>1, <2>1
    <3>3. under \in RunType /\ under.stack # <<>> /\ under.script = script
      BY <3>1, <3>2, PushProceeds
    <3>4. PICK frame : frame = FrameOf(pushed, Call("unlock"), "DoublePOP") OBVIOUS
    <3>5. "DoublePOP" \in Flags BY DEF Flags
    <3>6. IsPushed(pushed, None, Call("unlock"), "DoublePOP", under, frame)
      BY <1>5, <3>2, <3>4, <3>5, PushFields
    <3>7. /\ frame \in FrameType /\ FrameWays(frame) = Left(Call("unlock"), script, 0)
          /\ frame.script = script /\ frame.call = Call("unlock") /\ frame.flag = "DoublePOP"
          /\ under.stack = Append(pushed.stack, frame)
          /\ under.scriptHead = pushed.scriptHead /\ under.taskListRepeatCount = 0
      BY <3>6 DEF IsPushed
    <3>12. FrameWays(frame) = Nothing BY <1>5, <3>7, LeftCases
    <3>13. pushed.stack \in Seq(FrameType) BY RunFields
    <3>14. /\ Executes(pushed.stack, Call("execute")) /\ Apart(pushed.stack, script)
           /\ Accepts(pushed.scriptHead, pushed.stack, done, rest)
      BY <1>6 DEF Follows
    <3>15. Executes(under.stack, Call("execute"))
      BY <1>5, <3>7, <3>13, <3>14, ExecutesPush DEF Starts
    <3>16. Apart(under.stack, script) BY <3>7, <3>13, <3>14, ApartPush
    <3>17. \A w \in rest : ~Catches(frame.flag, w.left) BY <3>7 DEF Catches
    <3>18. rest \subseteq WaysOut(Lefts) /\ SomeWays(FrameWays(frame)) BY <1>4, <3>12, NothingFacts DEF SomeWays
    <3>19. Accepts(pushed.scriptHead, under.stack, done, rest)
      BY <3>7, <3>13, <3>14, <3>17, <3>18, AcceptsPush
    <3>20. Follows(under, done, Call("execute"))
      BY <1>5, <1>6, <3>3, <3>7, <3>15, <3>16, <3>19 DEF Follows, Starts
    <3> QED BY <3>3, <3>7, <3>20
  <2>2. CASE ~lock BY <1>1, <2>2
  <2> QED BY <2>1, <2>2
<1>8. PICK top : top = Push(under, None, Call("execute"), inner) OBVIOUS
<1>9. Settled(top, done, Call("params"))
  <2>1. inner \in {"action", "actionHead", "controlGroup", "taskGroup"} OBVIOUS
  <2>2. Left(Call("params"), script, 0) = Nothing BY <1>5, LeftCases
  <2>3. Then(Nothing, rest) = rest BY <1>4, NothingFacts DEF SomeWays
  <2>4. \A w \in Nothing : IF Catches(inner, w.left) THEN Does(w.log, "next") \in Nothing
                             ELSE w \in Nothing /\ w.left # "next"
    BY NothingFacts DEF Catches
  <2>5. SomeWays(Left(Call("execute"), under.script, 0)) BY <1>4, <1>6, <1>7
  <2>6. Then(Nothing, Left(Call("execute"), under.script, 0)) \subseteq Left(Call("execute"), under.script, 0)
    BY <1>6, <1>7, <2>3
  <2>7. LET next == IF None = None THEN under.script ELSE None IN
          /\ SomeWays(Left(Call("params"), next, 0))
          /\ \A w \in Left(Call("params"), next, 0) :
               IF Catches(inner, w.left) THEN Does(w.log, "next") \in Nothing ELSE w \in Nothing /\ w.left # "next"
    BY <1>7, <2>2, <2>4, NothingFacts
  <2>8. /\ Call("execute").do # "params"
        /\ Call("execute").do = "execute" => Call("params").do = "params"
        /\ ~(inner = "action" /\ Call("execute").do # "execute")
    BY <1>5
  <2>10. Starts(Call("params"), 0) /\ Starts(Call("execute"), 0) BY <1>5 DEF Starts
  <2>9. LET pushed2 == Push(under, None, Call("execute"), inner) IN Settled(pushed2, done, Call("params"))
    BY <1>5, <1>7, <2>1, <2>5, <2>6, <2>7, <2>8, <2>10, PushFollows
  <2> QED BY <1>8, <2>9
<1>10. made.run = top BY <1>1, <1>8 DEF PushAndCall, Made
<1> QED BY <1>2, <1>9, <1>10

(* How a way ends where some of them do.                                    *)
LEMMA LeavingEnds ==
  ASSUME NEW ways, ways \subseteq WaysOut(Lefts), NEW ends, NEW w \in ways
  PROVE  /\ w.log \in Logs /\ w.left \in Lefts
         /\ w.left \in ends \union {"next"} => Does(w.log, "next") \in Leaving(ways, ends)
         /\ w.left \notin ends => w \in Leaving(ways, ends)
<1>1. w.log \in Logs /\ w.left \in Lefts /\ w = Does(w.log, w.left) BY DoesIs
<1>2. (IF w.left \in ends THEN Does(w.log, "next") ELSE w) \in Leaving(ways, ends) BY LeavingWays
<1>3. CASE w.left \in ends BY <1>1, <1>2, <1>3
<1>4. CASE w.left \notin ends
  <2>1. w \in Leaving(ways, ends) BY <1>2, <1>4
  <2>2. w.left = "next" => w = Does(w.log, "next") BY <1>1
  <2> QED BY <1>1, <1>4, <2>1, <2>2
<1> QED BY <1>3, <1>4

LEMMA LeavingLogs ==
  ASSUME NEW ways, ways \subseteq WaysOut(Lefts), NEW ends
  PROVE  \A v \in Leaving(ways, ends) : v.log \in Logs
<1> SUFFICES ASSUME NEW v \in Leaving(ways, ends) PROVE v.log \in Logs OBVIOUS
<1>1. PICK w \in ways : v = IF w.left \in ends THEN Does(w.log, "next") ELSE w BY DEF Leaving
<1>2. w.log \in Logs BY DoesIs
<1> QED BY <1>1, <1>2, DoesIs

(* The user starts a script, or a parallel task a branch.                   *)
LEMMA StartFollows ==
  ASSUME Plain, Meant(Ways), NEW script \in DOMAIN Script, NEW parent \in Runs \union {None}
  PROVE  LET made == Entered(NewRun(script, parent), script, Call("ends"), "", "action") IN
           Settled(made.run, <<>>, Call("params"))
<1>1. PICK run, pushed, frame :
        /\ run = NewRun(script, parent) /\ pushed = Push(run, script, Call("ends"), "")
        /\ frame = FrameOf(run, Call("ends"), "")
  OBVIOUS
<1>2. run \in RunType /\ Stacked(run) /\ run.stack = <<>> /\ PushFits(run, Call("ends"), "")
  BY <1>1, NewRunFacts
<1>3. run.taskListRepeatCount = 0 /\ run.scriptHead = script /\ run.script = None BY <1>1 DEF NewRun
<1>4. script # None /\ script \in DOMAIN Script \union {None} BY ScriptAssumption
<1>5. /\ Call("ends") \in CallType /\ Call("ends").do = "ends"
      /\ Call("execute") \in CallType /\ Call("execute").do = "execute"
  BY CallKinds
<1>6. pushed \in RunType /\ Stacked(pushed) /\ pushed.stack # <<>> /\ pushed.script = script
  <2>1. LET made == Push(run, script, Call("ends"), "") IN
           /\ made \in RunType /\ Stacked(made) /\ made.stack # <<>>
           /\ made.script = IF script = None THEN run.script ELSE script
           /\ made.live = run.live /\ made.parent = run.parent
           /\ made.parallelCount = run.parallelCount
           /\ Locking(run.stack) \/ Call("ends").do = "unlock" => Locking(made.stack)
    BY <1>2, <1>4, PushProceeds, Zenon
  <2> QED BY <1>1, <1>4, <2>1
<1>7. IsPushed(run, script, Call("ends"), "", pushed, frame)
  <2>1. "" \in Flags BY DEF Flags
  <2> QED BY <1>1, <1>2, <1>5, <2>1, PushFields
<1>8. /\ frame \in FrameType /\ FrameWays(frame) = Left(Call("ends"), None, 0)
      /\ frame.call = Call("ends") /\ frame.flag = ""
      /\ pushed.stack = Append(<<>>, frame) /\ pushed.scriptHead = script
      /\ pushed.taskListRepeatCount = 0
  BY <1>2, <1>3, <1>7 DEF IsPushed
<1>9. pushed.stack = <<frame>> /\ DOMAIN <<frame>> = {1} /\ <<frame>>[1] = frame
  <2>1. Append(<<>>, frame) = <<frame>> OBVIOUS
  <2>2. DOMAIN <<frame>> = {1} /\ <<frame>>[1] = frame OBVIOUS
  <2> QED BY <1>8, <2>1, <2>2
<1>10. PICK rest : rest = Rest(PartsOf(script, Ways), 1) OBVIOUS
<1>11. SomeWays(rest) /\ OfScript(script, Ways) = Leaving(rest, {"return"}) BY <1>10, ScriptRest
<1>12. rest \subseteq WaysOut(Lefts) BY <1>11 DEF SomeWays
<1>13. \A w \in rest : w.log \in Whole(script)
  <2> TAKE w \in rest
  <2>1. w.left \in {"return"} \union {"next"} => Does(w.log, "next") \in Leaving(rest, {"return"})
    BY <1>12, LeavingEnds
  <2>2. w.left \notin {"return"} => w \in Leaving(rest, {"return"}) BY <1>12, LeavingEnds
  <2>3. \E v \in OfScript(script, Ways) : v.log = w.log BY <1>11, <2>1, <2>2, DoesIs
  <2> QED BY <2>3 DEF Whole
<1>14. Whole(script) \subseteq Logs
  <2>1. \A v \in OfScript(script, Ways) : v.log \in Logs BY <1>11, <1>12, LeavingLogs
  <2> QED BY <2>1 DEF Whole
<1>15. FrameWays(frame) = Nothing BY <1>5, <1>8, LeftCases
<1>16. Accepts(script, <<frame>>, <<>>, rest)
  BY <1>8, <1>12, <1>13, <1>14, <1>15, AcceptsStart
<1>17. Executes(<<frame>>, Call("execute")) BY <1>5, <1>8, <1>9 DEF Executes, Starts
<1>18. Apart(<<frame>>, script) BY <1>8, <1>9 DEF Apart
<1>19. \A count : Left(Call("execute"), script, count) = rest BY <1>5, <1>10, LeftCases
<1>23. Starts(Call("execute"), pushed.taskListRepeatCount) BY <1>5 DEF Starts
<1>20. Follows(pushed, <<>>, Call("execute")) BY <1>23, <1>6, <1>8, <1>9, <1>16, <1>17, <1>18, <1>19 DEF Follows
<1>21. <<>> \in Logs /\ "action" \in {"action", "actionHead"} BY DoesIs
<1>22. LET made == Entered(run, script, Call("ends"), "", "action") IN Settled(made.run, <<>>, Call("params"))
  BY <1>1, <1>6, <1>8, <1>20, <1>21, EnteredFollows
<1> QED BY <1>1, <1>22

(* A task that calls a script.                                              *)
LEMMA ActionFollows ==
  ASSUME Plain, Meant(Ways), NEW run \in RunType, Stacked(run), run.stack # <<>>,
         run.taskListRepeatCount = 0, NEW done \in Logs, NEW call, call.do = "tasks", Follows(run, done, call),
         NEW name \in DOMAIN Group, Group[name].type = "action",
         NEW script \in DOMAIN Script, script = Group[name].script, script # run.script,
         NEW after, after.do = "tasks", PushFits(run, after, "action"), Starts(after, 0),
         SomeWays(Left(after, run.script, 0)),
         Then(Ways[name], Left(after, run.script, 0)) \subseteq Left(call, run.script, 0)
  PROVE  LET made == Entered(run, script, after, "action", "actionHead") IN
           Settled(made.run, done, Call("params"))
<1>1. PICK pushed : pushed = Push(run, script, after, "action") OBVIOUS
<1>2. script # None /\ script \in DOMAIN Script \union {None} BY ScriptAssumption
<1>3. pushed \in RunType /\ Stacked(pushed) /\ pushed.stack # <<>> /\ pushed.script = script
  BY <1>1, <1>2, PushProceeds
<1>4. Call("execute") \in CallType /\ Call("execute").do = "execute" BY CallKinds
<1>5. PICK rest : rest = Rest(PartsOf(script, Ways), 1) OBVIOUS
<1>6. /\ SomeWays(rest) /\ rest \subseteq WaysOut({"next", "return", "exit"})
      /\ OfScript(script, Ways) = Leaving(rest, {"return"})
  BY <1>5, ScriptRest
<1>7. OfScript(script, Ways) = Ways[name] BY TaskHas
<1>8. Left(Call("execute"), script, 0) = rest BY <1>4, <1>5, LeftCases
<1>9. ASSUME NEW w \in rest
      PROVE  IF Catches("action", w.left) THEN Does(w.log, "next") \in Ways[name]
             ELSE w \in Ways[name] /\ w.left # "next"
  <2>1. w.left \in {"next", "return", "exit"} BY <1>6, <1>9, DoesIs
  <2>2. rest \subseteq WaysOut(Lefts) BY <1>6 DEF SomeWays
  <2>3. w.left \in {"return"} \union {"next"} => Does(w.log, "next") \in Leaving(rest, {"return"})
    BY <1>9, <2>2, LeavingEnds
  <2>4. w.left \notin {"return"} => w \in Leaving(rest, {"return"}) BY <1>9, <2>2, LeavingEnds
  <2>5. Catches("action", w.left) <=> w.left \in {"next", "return"} BY <2>1 DEF Catches
  <2> QED BY <1>6, <1>7, <2>1, <2>3, <2>4, <2>5
<1>10. Settled(pushed, done, Call("execute"))
  <2>1. "action" \in {"action", "actionHead", "controlGroup", "taskGroup"} OBVIOUS
  <2>2. LET next == IF script = None THEN run.script ELSE script IN
          /\ SomeWays(Left(Call("execute"), next, 0))
          /\ \A w \in Left(Call("execute"), next, 0) :
               IF Catches("action", w.left) THEN Does(w.log, "next") \in Ways[name]
               ELSE w \in Ways[name] /\ w.left # "next"
    BY <1>2, <1>6, <1>8, <1>9
  <2>3. script \notin {None, run.script} /\ after \in CallType BY <1>2 DEF PushFits
  <2>5. Starts(Call("execute"), 0) BY <1>4 DEF Starts
  <2>4. LET pushed2 == Push(run, script, after, "action") IN Settled(pushed2, done, Call("execute"))
    BY <1>4, <2>1, <2>2, <2>3, <2>5, PushFollows
  <2> QED BY <1>1, <2>4
<1>11. Follows(pushed, done, Call("execute")) /\ pushed.taskListRepeatCount = 0
  BY <1>4, <1>10 DEF Settled
<1> QED BY <1>1, <1>3, <1>11, EnteredFollows

(* The ways of a group whose frame is on the stack.                         *)
LEMMA GroupEnds ==
  ASSUME Meant(Ways), NEW g \in DOMAIN Group, NEW count
  PROVE  LET call == Tasks(g, 1, 1) IN
           /\ \A script : SomeWays(Left(call, script, 0))
           /\ \A script : \A w \in Left(call, script, 0) :
                /\ w.left \in {"next", "break"} => Does(w.log, "next") \in OfGroup(g, Ways)
                /\ w.left # "break" => w \in OfGroup(g, Ways)
<1>1. PICK call, rest : call = Tasks(g, 1, 1) /\ rest = Rest(ListsOf(g, Ways), 1) OBVIOUS
<1>2. call.do = "tasks" /\ call.of = g /\ call.list = 1 /\ call.at = 1 BY <1>1, CallKinds
<1>3. 1 \in Nat \ {0} OBVIOUS
<1>4. SomeWays(rest) /\ RestOfGroup(g, 1, 1, 0) = rest /\ OfGroup(g, Ways) = Leaving(rest, {"break"})
  BY <1>1, <1>3, GroupRest
<1>5. \A script : Left(call, script, 0) = rest BY <1>2, <1>4, LeftCases
<1>6. rest \subseteq WaysOut(Lefts) BY <1>4 DEF SomeWays
<1>7. ASSUME NEW w \in rest
      PROVE  /\ w.left \in {"next", "break"} => Does(w.log, "next") \in OfGroup(g, Ways)
             /\ w.left # "break" => w \in OfGroup(g, Ways)
  <2>1. w.left \in {"break"} \union {"next"} => Does(w.log, "next") \in Leaving(rest, {"break"})
    BY <1>6, <1>7, LeavingEnds
  <2>2. w.left \notin {"break"} => w \in Leaving(rest, {"break"}) BY <1>6, <1>7, LeavingEnds
  <2> QED BY <1>4, <2>1, <2>2
<1> QED BY <1>1, <1>4, <1>5, <1>7

(* A task with task lists of its own.                                       *)
LEMMA GroupFollows ==
  ASSUME Plain, Meant(Ways), NEW run \in RunType, run.stack # <<>>,
         run.taskListRepeatCount = 0, NEW done \in Logs, NEW call, call.do = "tasks", Follows(run, done, call),
         NEW name \in DOMAIN Group, OfGroup(name, Ways) \subseteq Ways[name],
         NEW after \in CallType, after.do = "tasks", Starts(after, 0),
         SomeWays(Left(after, run.script, 0)),
         Then(Ways[name], Left(after, run.script, 0)) \subseteq Left(call, run.script, 0)
  PROVE  LET made == PushAndCall(run, Tasks(name, 1, 1), after, "taskGroup") IN
           Settled(made.run, done, Tasks(name, 1, 1))
<1>1. PICK first, pushed : first = Tasks(name, 1, 1) /\ pushed = Push(run, None, after, "taskGroup") OBVIOUS
<1>2. /\ SomeWays(Left(first, run.script, 0))
      /\ \A w \in Left(first, run.script, 0) :
           /\ w.left \in {"next", "break"} => Does(w.log, "next") \in OfGroup(name, Ways)
           /\ w.left # "break" => w \in OfGroup(name, Ways)
  BY <1>1, GroupEnds
<1>3. \A w \in Left(first, run.script, 0) :
        IF Catches("taskGroup", w.left) THEN Does(w.log, "next") \in Ways[name]
        ELSE w \in Ways[name] /\ w.left # "next"
  <2> TAKE w \in Left(first, run.script, 0)
  <2>1. Catches("taskGroup", w.left) <=> w.left \in {"next", "break"} BY DEF Catches
  <2> QED BY <1>2, <2>1
<1>4. Settled(pushed, done, first)
  <2>1. "taskGroup" \in {"action", "actionHead", "controlGroup", "taskGroup"} OBVIOUS
  <2>2. LET next == IF None = None THEN run.script ELSE None IN
          /\ SomeWays(Left(first, next, 0))
          /\ \A w \in Left(first, next, 0) :
               IF Catches("taskGroup", w.left) THEN Does(w.log, "next") \in Ways[name]
               ELSE w \in Ways[name] /\ w.left # "next"
    BY <1>2, <1>3
  <2>4. Starts(first, 0) BY <1>1 DEF Starts, Tasks
  <2>3. LET pushed2 == Push(run, None, after, "taskGroup") IN Settled(pushed2, done, first)
    BY <2>1, <2>2, <2>4, PushFollows
  <2> QED BY <1>1, <2>3
<1> QED BY <1>1, <1>4 DEF PushAndCall, Made

(* The tasks of a script, from one on.                                      *)
LEMMA FollowOnFollows ==
  ASSUME Plain, Meant(Ways), NEW run \in RunType, Stacked(run), run.stack # <<>>,
         run.taskListRepeatCount = 0, NEW done \in Logs, NEW call, call.do # "params", Follows(run, done, call),
         NEW k \in Nat \ {0}, Left(call, run.script, 0) = Rest(PartsOf(run.script, Ways), k),
         NEW f, f \in FollowOnActions(run, k)
  PROVE  /\ f.thrown => Does(<<>>, "exit") \in Left(call, run.script, 0)
         /\ ~f.thrown => Settled(f.made.run, done, f.made.calls[Len(f.made.calls)])
<1> DEFINE tasks == Script[run.script].tasks
           Outcome(i, o) == o \in Group[tasks[i]].check
           ComesTo(n) == \A i \in k..n - 1 : Group[tasks[i]].type = "IF" /\ Outcome(i, "false")
           Reached == {n \in k..Len(tasks) : ComesTo(n)}
           Execute(n) == PushAndCall(run, Tasks(tasks[n], 1, 1), FollowOn(n + 1), "controlGroup")
           rest(n) == Rest(PartsOf(run.script, Ways), n)
<1>1. run.script \in DOMAIN Script BY DEF Stacked
<1>2. Len(tasks) \in Nat /\ DOMAIN tasks = 1..Len(tasks) /\ \A i \in DOMAIN tasks : tasks[i] \in DOMAIN Group
  BY <1>1, ScriptFacts
<1>3. \A i \in DOMAIN tasks : Group[tasks[i]].type \in {"task", "IF"} BY <1>1 DEF Plain
<1>4. /\ \A n \in Nat : SomeWays(rest(n))
      /\ \A n \in Nat : n > Len(tasks) => rest(n) = Nothing
      /\ \A n \in DOMAIN tasks : rest(n) = Then(Leaving(Ways[tasks[n]], {"breakcontrolgroup"}), rest(n + 1))
      /\ \A n \in Nat : /\ k <= n /\ n <= Len(tasks) + 1
                        /\ \A i \in k..n - 1 : Nothing \subseteq Ways[tasks[i]]
                        => rest(n) \subseteq rest(k)
  BY <1>1, ScriptRest
<1>5. ASSUME NEW n \in k..Len(tasks) + 1, ComesTo(n) PROVE n \in Nat /\ rest(n) \subseteq rest(k)
  <2>1. n \in Nat /\ k <= n /\ n <= Len(tasks) + 1 BY <1>2
  <2>2. \A i \in k..n - 1 : Nothing \subseteq Ways[tasks[i]]
    <3> TAKE i \in k..n - 1
    <3>1. i \in DOMAIN tasks BY <1>2, <2>1
    <3>2. Group[tasks[i]].type = "IF" /\ "false" \in Group[tasks[i]].check BY <1>5
    <3>3. tasks[i] \in DOMAIN Group BY <1>2, <3>1
    <3> QED BY <3>2, <3>3, TaskHas
  <2> QED BY <1>4, <2>1, <2>2
<1>6. \A n \in Reached : n \in DOMAIN tasks /\ n \in k..Len(tasks) + 1 /\ n \in Nat BY <1>2
<1>7. ASSUME NEW n \in Reached
      PROVE  /\ n \in DOMAIN tasks /\ n \in Nat /\ n + 1 \in Nat /\ tasks[n] \in DOMAIN Group
             /\ Then(Leaving(Ways[tasks[n]], {"breakcontrolgroup"}), rest(n + 1)) \subseteq Left(call, run.script, 0)
             /\ Ways[tasks[n]] \subseteq WaysOut(Lefts)
  <2>1. n \in DOMAIN tasks /\ n \in k..Len(tasks) + 1 /\ n \in Nat /\ n + 1 \in Nat /\ ComesTo(n)
    BY <1>6, <1>7, SMTT(40)
  <2>2. rest(n) \subseteq rest(k) BY <1>5, <2>1
  <2>3. rest(n) = Then(Leaving(Ways[tasks[n]], {"breakcontrolgroup"}), rest(n + 1)) BY <1>4, <2>1
  <2>4. tasks[n] \in DOMAIN Group BY <1>2, <2>1
  <2>5. Ways[tasks[n]] \subseteq WaysOut(Lefts) BY <2>4, TaskHas DEF SomeWays
  <2> QED BY <2>1, <2>2, <2>3, <2>4, <2>5
<1>8. ASSUME NEW n \in Reached, Group[tasks[n]].type = "task" \/ Outcome(n, "true")
      PROVE  Settled(Execute(n).run, done, Tasks(tasks[n], 1, 1))
  <2>1. PICK name, one, after, first, pushed :
          /\ name = tasks[n] /\ one = Leaving(Ways[name], {"breakcontrolgroup"}) /\ after = FollowOn(n + 1)
          /\ first = Tasks(name, 1, 1) /\ pushed = Push(run, None, after, "controlGroup")
    OBVIOUS
  <2>2. /\ name \in DOMAIN Group /\ n + 1 \in Nat /\ Ways[name] \subseteq WaysOut(Lefts)
        /\ Then(one, rest(n + 1)) \subseteq Left(call, run.script, 0)
    BY <1>7, <2>1
  <2>3. OfGroup(name, Ways) \subseteq Ways[name]
    <3>1. Group[name].type \in {"task", "IF"} BY <1>3, <1>7, <2>1
    <3>2. Group[name].type = "task" \/ "true" \in Group[name].check BY <1>8, <2>1
    <3> QED BY <2>2, <3>1, <3>2, TaskHas
  <2>4. after \in CallType /\ after.do = "followOn" /\ after.at = n + 1 BY <2>1, <2>2, CallKinds
  <2>5. Left(after, run.script, 0) = rest(n + 1) BY <2>4, LeftCases
  <2>6. SomeWays(rest(n + 1)) BY <1>4, <2>2
  <2>7. /\ SomeWays(Left(first, run.script, 0))
        /\ \A w \in Left(first, run.script, 0) :
             /\ w.left \in {"next", "break"} => Does(w.log, "next") \in OfGroup(name, Ways)
             /\ w.left # "break" => w \in OfGroup(name, Ways)
    BY <2>1, <2>2, GroupEnds
  <2>8. \A w \in Left(first, run.script, 0) :
          IF Catches("controlGroup", w.left) THEN Does(w.log, "next") \in one
          ELSE w \in one /\ w.left # "next"
    <3> TAKE w \in Left(first, run.script, 0)
    <3>1. Catches("controlGroup", w.left) <=> w.left \in {"next", "break", "breakcontrolgroup"} BY DEF Catches
    <3>2. CASE w.left \in {"next", "break"}
      <4>1. PICK a : a = Does(w.log, "next") OBVIOUS
      <4>2. a \in Ways[name] /\ a.log = w.log /\ a.left = "next" BY <2>3, <2>7, <3>2, <4>1, DoesIs
      <4>3. Does(a.log, "next") \in one BY <2>1, <2>2, <4>2, LeavingEnds
      <4> QED BY <3>1, <3>2, <4>2, <4>3
    <3>3. CASE w.left \notin {"next", "break"}
      <4>1. w \in Ways[name] BY <2>3, <2>7, <3>3
      <4>2. /\ w.left \in {"breakcontrolgroup"} \union {"next"} => Does(w.log, "next") \in one
            /\ w.left \notin {"breakcontrolgroup"} => w \in one
        BY <2>1, <2>2, <4>1, LeavingEnds
      <4> QED BY <3>1, <3>3, <4>2
    <3> QED BY <3>2, <3>3
  <2>9. Settled(pushed, done, first)
    <3>1. "controlGroup" \in {"action", "actionHead", "controlGroup", "taskGroup"} OBVIOUS
    <3>2. LET next == IF None = None THEN run.script ELSE None IN
            /\ SomeWays(Left(first, next, 0))
            /\ \A w \in Left(first, next, 0) :
                 IF Catches("controlGroup", w.left) THEN Does(w.log, "next") \in one
                 ELSE w \in one /\ w.left # "next"
      BY <2>7, <2>8
    <3>3. /\ SomeWays(Left(after, run.script, 0))
          /\ Then(one, Left(after, run.script, 0)) \subseteq Left(call, run.script, 0)
      BY <2>2, <2>5, <2>6
    <3>5. Starts(after, 0) /\ Starts(first, 0) BY <2>1, <2>4 DEF Starts, Tasks
    <3> HIDE DEF rest
    <3>4. LET pushed2 == Push(run, None, after, "controlGroup") IN Settled(pushed2, done, first)
      BY <2>4, <3>1, <3>2, <3>3, <3>5, PushFollows
    <3> QED BY <2>1, <3>4
  <2>10. Execute(n).run = pushed BY <2>1 DEF PushAndCall, Made
  <2> HIDE DEF Execute
  <2> QED BY <2>1, <2>9, <2>10
<1>9. CASE f \in {[made |-> Execute(n), thrown |-> FALSE] :
                   n \in {m \in Reached : Group[tasks[m]].type = "task" \/ Outcome(m, "true")}}
  <2>1. PICK n \in Reached : /\ Group[tasks[n]].type = "task" \/ Outcome(n, "true")
                             /\ f = [made |-> Execute(n), thrown |-> FALSE]
    BY <1>9
  <2>2. f.made = Execute(n) /\ f.thrown = FALSE BY <2>1
  <2>3. Execute(n).calls = <<Tasks(tasks[n], 1, 1)>> BY DEF PushAndCall, Made
  <2>4. Execute(n).calls[Len(Execute(n).calls)] = Tasks(tasks[n], 1, 1)
    <3> HIDE DEF Execute
    <3> QED BY <2>3
  <2>5. Settled(Execute(n).run, done, Tasks(tasks[n], 1, 1)) BY <1>8, <2>1
  <2> HIDE DEF Execute, tasks
  <2> QED BY <2>2, <2>4, <2>5
<1>10. CASE f \in {[made |-> Made(run, <<>>), thrown |-> TRUE] :
                    n \in {m \in Reached : Group[tasks[m]].type = "IF" /\ Outcome(m, "throws")}}
  <2>1. PICK n \in Reached : Group[tasks[n]].type = "IF" /\ Outcome(n, "throws") BY <1>10
  <2>2. f.thrown = TRUE BY <1>10
  <2>3. PICK name, out : name = tasks[n] /\ out = Does(<<>>, "exit") OBVIOUS
  <2>4. name \in DOMAIN Group /\ Ways[name] \subseteq WaysOut(Lefts) BY <1>7, <2>3
  <2>5. out \in Ways[name] /\ out.left = "exit"
    <3>1. Group[name].type = "IF" /\ "throws" \in Group[name].check BY <2>1, <2>3
    <3>2. Does(<<>>, "exit") \in Ways[name] BY <2>4, <3>1, TaskHas
    <3>3. out.left = "exit" BY <2>3, DoesIs
    <3> QED BY <2>3, <3>2, <3>3
  <2>6. out \in Leaving(Ways[name], {"breakcontrolgroup"}) BY <2>4, <2>5, LeavingEnds
  <2>7. out \in Then(Leaving(Ways[name], {"breakcontrolgroup"}), rest(n + 1)) BY <2>5, <2>6, ThenHas
  <2>8. out \in Left(call, run.script, 0) BY <1>7, <2>3, <2>7
  <2> QED BY <2>2, <2>3, <2>8
<1>11. CASE f \in {[made |-> PopAndCall(run), thrown |-> FALSE] :
                    n \in {m \in {Len(tasks) + 1} : ComesTo(m)}}
  <2>1. f.made = PopAndCall(run) /\ f.thrown = FALSE /\ ComesTo(Len(tasks) + 1) BY <1>11
  <2>2. PICK end : end = Len(tasks) + 1 OBVIOUS
  <2>3. end \in Nat /\ end > Len(tasks) BY <1>2, <2>2
  <2>4. Nothing \subseteq rest(k)
    <3>1. CASE k <= end
      <4>1. end \in k..Len(tasks) + 1 /\ ComesTo(end) BY <1>2, <2>1, <2>2, <2>3, <3>1
      <4>2. rest(end) \subseteq rest(k) BY <1>5, <4>1
      <4> QED BY <1>4, <2>3, <4>2
    <3>2. CASE ~(k <= end)
      <4>1. k > Len(tasks) BY <1>2, <2>2, <3>2
      <4> QED BY <1>4, <4>1
    <3> QED BY <3>1, <3>2
  <2>5. Does(<<>>, "next") \in Left(call, run.script, run.taskListRepeatCount) BY <2>4, NothingFacts
  <2>6. "next" \in Lefts BY DEF Lefts
  <2>7. PICK made : made = PopAndCall(run) OBVIOUS
  <2>8. made = UnwindTo(run, Goal(run.stack, Len(run.stack), "next")) BY <2>7, GoalOf
  <2>9. Settled(made.run, done, made.calls[Len(made.calls)]) BY <2>5, <2>6, <2>8, UnwindFollows
  <2> QED BY <2>1, <2>7, <2>9
<1> QED BY <1>9, <1>10, <1>11 DEF FollowOnActions

(* The answer to a server action is followed on once.                       *)
LEMMA HandledOnce ==
  ASSUME NEW run, NEW outcome, NEW f,
         Ordinary, run \in RunType, Stacked(run), run.stack # <<>>,
         Script[run.script].actionType = "SERVERACTION",
         outcome \in Outcomes, f \in Handled(run, outcome)
  PROVE  f \in FollowOnActions(run, 1) /\ f.thrown = FALSE
<1> DEFINE once == FollowOnActions(run, 1)
<1>1. 1 \in Nat \ {0} OBVIOUS
<1>2. \A g \in once : g.thrown \in BOOLEAN /\ (g.thrown => Script[run.script].actionType = "BLANK")
  BY <1>1, FollowOnProceeds
<1> HIDE DEF once
<1>3. \A g \in once : g.thrown = FALSE BY <1>2
<1>4. Again({g \in once : g.thrown}) = {} BY <1>3 DEF Again
<1>5. outcome \in {"true", "error"} BY ScriptAssumption DEF Ordinary
<1>6. f \in once
  <2>1. Handled(run, outcome) = IF outcome = "true" THEN {g \in once : ~g.thrown} \union Again({g \in once : g.thrown})
                                ELSE once
    BY <1>5 DEF Handled, once
  <2> QED BY <1>4, <2>1
<1> QED BY <1>3, <1>6 DEF once

(* Of itself a retry is no more than a return.                              *)
LEMMA RetryFollows ==
  ASSUME NEW run \in RunType, Stacked(run), run.stack # <<>>, NEW done, NEW call, call.do = "tasks",
         Follows(run, done, call), Task.name = run.script
  PROVE  Retry(run) = PopToAndCall(run, "action")
<1> DEFINE S == {i \in DOMAIN run.stack : run.stack[i].flag \in {"action"}}
<1>1. PICK stack, n, j, left :
        stack = run.stack /\ n = Len(stack) /\ j = Max({1} \union S) /\ left = PopToAndCall(run, "action")
  OBVIOUS
<1>2. stack \in Seq(FrameType) /\ n \in Nat \ {0} /\ DOMAIN stack = 1..n BY <1>1, RunFields
<1>3. j \in 1..n /\ (j = 1 \/ j \in S) /\ \A i \in S : j >= i
  <2>1. LET m == Max({1} \union S) IN m \in DOMAIN run.stack /\ (m = 1 \/ m \in S) /\ \A i \in S : m >= i
    BY HighestFrame
  <2> QED BY <1>1, <1>2, <2>1
<1>4. left = UnwindTo(run, j) BY <1>1 DEF PopToAndCall, Highest
<1>5. left.run.script = stack[j].script
  <2>1. LET made == UnwindTo(run, j) IN
           /\ made.run.stack = SubSeq(run.stack, 1, j - 1) /\ made.run.script = run.stack[j].script
           /\ made.run.scriptHead = run.scriptHead
           /\ made.run.taskListRepeatCount = run.taskListRepeatCount
           /\ made.calls[Len(made.calls)] = run.stack[j].call
    BY <1>1, <1>2, <1>3, UnwindFields, Zenon
  <2> QED BY <1>1, <1>4, <2>1
<1>6. ASSUME NEW i \in DOMAIN stack, stack[i].flag = "action" PROVE left.run.script # Task.name
  <2>1. i \in S BY <1>1, <1>6
  <2>2. stack[1].flag # "action"
    <3>1. 1 \in DOMAIN run.stack BY <1>1, <1>2
    <3>2. run.stack[1].flag = "" BY <3>1 DEF Stacked, FrameFits
    <3> QED BY <1>1, <3>2
  <2>3. stack[j].flag = "action"
    <3>1. j \in S
      <4>1. CASE j = 1
        <5>1. i <= j BY <1>3, <2>1
        <5>2. i = 1 BY <1>2, <4>1, <5>1
        <5> QED BY <1>6, <2>2, <5>2
      <4> QED BY <1>3, <4>1
    <3> QED BY <1>1, <3>1
  <2>4. Executes(stack, call) /\ Apart(stack, run.script) BY <1>1 DEF Follows
  <2>5. stack[j].call.do # "execute" BY <1>2, <1>3, <2>4 DEF Executes
  <2>6. \A m \in j + 1..(n + 1) - 1 : stack[m].flag # "action"
    <3> SUFFICES ASSUME NEW m \in j + 1..(n + 1) - 1, stack[m].flag = "action" PROVE FALSE OBVIOUS
    <3>1. m \in DOMAIN stack BY <1>2, <1>3
    <3>2. m \in S BY <1>1, <3>1
    <3>3. j >= m BY <1>3, <3>2
    <3> QED BY <1>2, <1>3, <3>3
  <2>7. n + 1 \in j + 1..Len(stack) + 1 BY <1>1, <1>2, <1>3
  <2>8. ScriptAt(stack, run.script, n + 1) # stack[j].script BY <1>2, <1>3, <2>3, <2>4, <2>5, <2>6, <2>7 DEF Apart
  <2>9. n + 1 \notin DOMAIN stack BY <1>2
  <2>10. ScriptAt(stack, run.script, n + 1) = run.script BY <2>9 DEF ScriptAt
  <2> QED BY <1>5, <2>8, <2>10
<1>7. ~(left.run.script = Task.name /\ \E i \in DOMAIN run.stack : run.stack[i].flag = "action") BY <1>1, <1>6
<1> QED BY <1>1, <1>7 DEF Retry

(* A run goes on with something that is left of its script, wherever it     *)
(* goes on; one that has ended has done all of it.                          *)
Past(call) == call.list > Len(Group[call.of].taskList)

TaskTold(r) ==
  active.run = r => /\ Follows(runs[r], log[r], active.call)
                    /\ Past(active.call) => runs[r].taskListRepeatCount = 0

BranchesTold(r) ==
  runs[r].parallelCount > 0 =>
    Settled(runs[r], Append(log[r], "joined"), [runs[r].currentTask EXCEPT !.at = @ + 1])

Told(r) ==
  IF Live(r)
    THEN /\ \A call : Comes(timers, r, call) => Settled(runs[r], log[r], call)
         /\ \A wait \in waits : wait.run = r => Settled(runs[r], log[r], wait.call)
         /\ r \in requests => Settled(runs[r], log[r], Call("execute"))
         /\ TaskTold(r) /\ BranchesTold(r)
    ELSE log[r] \in IF runs[r] = None THEN {<<>>} ELSE Whole(runs[r].scriptHead)

TInv == IInv /\ log \in [Runs -> Logs] /\ \A r \in Runs : Told(r)

LEMMA ComesOne ==
  ASSUME NEW ts, NEW r, NEW call, NEW other, Comes(ts, r, call), Comes(ts, r, other)
  PROVE  call = other
BY DEF Comes

(* A run that a step leaves alone.                                          *)
LEMMA ToldStays ==
  ASSUME NEW q, Placed(q), Undisturbed(q), Told(q), log'[q] = log[q]
  PROVE  Told(q)'
<1>1. runs'[q] = runs[q] /\ KeepsFor(timers, timers', q) BY DEF Undisturbed
<1>2. CASE Live(q)
  <2>1. Live(q)' BY <1>1, <1>2 DEF Live
  <2>2. /\ \A call : Comes(timers, q, call) => Settled(runs[q], log[q], call)
        /\ \A wait \in waits : wait.run = q => Settled(runs[q], log[q], wait.call)
        /\ q \in requests => Settled(runs[q], log[q], Call("execute"))
        /\ TaskTold(q) /\ BranchesTold(q)
    BY <1>2 DEF Told
  <2>3. ASSUME NEW call, Comes(timers', q, call) PROVE Settled(runs'[q], log'[q], call)
    <3>1. ~Off(timers, q) BY <1>1, <2>3 DEF KeepsFor, Comes, Off
    <3>2. PICK other : Comes(timers, q, other)
      <4>1. PICK mode \in Modes : Stands(q, mode) BY <1>2 DEF Placed
      <4>2. InTimer(q) BY <3>1, <4>1 DEF Stands
      <4> QED BY <4>2 DEF InTimer
    <3>3. Comes(timers', q, other) BY <1>1, <3>2 DEF KeepsFor
    <3>4. call = other BY <2>3, <3>3, ComesOne
    <3> QED BY <1>1, <2>2, <3>2, <3>4
  <2>4. \A wait \in waits' : wait.run = q => Settled(runs'[q], log'[q], wait.call)
    BY <1>1, <2>2 DEF Undisturbed
  <2>5. q \in requests' => Settled(runs'[q], log'[q], Call("execute")) BY <1>1, <2>2 DEF Undisturbed
  <2>6. TaskTold(q)' BY <1>1, <2>2 DEF TaskTold, Undisturbed
  <2>7. BranchesTold(q)' BY <1>1, <2>2 DEF BranchesTold
  <2> QED BY <2>1, <2>3, <2>4, <2>5, <2>6, <2>7 DEF Told
<1>3. CASE ~Live(q)
  <2>1. ~Live(q)' BY <1>1, <1>3 DEF Live
  <2>2. log[q] \in IF runs[q] = None THEN {<<>>} ELSE Whole(runs[q].scriptHead) BY <1>3 DEF Told
  <2> QED BY <1>1, <2>1, <2>2 DEF Told
<1> QED BY <1>2, <1>3

(* Of a run that stands at one place only that has to be told.              *)
LEMMA ToldAt ==
  ASSUME NEW r, NEW call, Placed(r)', Live(r)',
         \/ Comes(timers', r, call) /\ Settled(runs'[r], log'[r], call)
         \/ \E wait \in waits' : wait.run = r /\ Settled(runs'[r], log'[r], wait.call)
         \/ r \in requests' /\ Settled(runs'[r], log'[r], Call("execute"))
         \/ active'.run = r /\ TaskTold(r)'
         \/ runs'[r].parallelCount > 0 /\ BranchesTold(r)'
  PROVE  Told(r)'
<1>1. PICK mode \in Modes : Stands(r, mode)' BY DEF Placed
<1>2. /\ IF mode = "timer" THEN InTimer(r)' ELSE Off(timers', r)
      /\ IF mode = "wait" THEN InWait(r)' ELSE \A wait \in waits' : wait.run # r
      /\ IF mode = "request" THEN InRequest(r)' ELSE r \notin requests'
      /\ IF mode = "task" THEN InTask(r)' ELSE active'.run # r
      /\ IF mode = "branches" THEN InBranches(r)' ELSE runs'[r].parallelCount = 0
  BY <1>1 DEF Stands
<1>3. ASSUME NEW other, Comes(timers', r, other) PROVE mode = "timer"
  BY <1>2, <1>3 DEF Comes, Off
<1>4. ASSUME NEW other, Comes(timers', r, other) PROVE Settled(runs'[r], log'[r], other)
  <2>1. mode = "timer" BY <1>3, <1>4
  <2>2. Comes(timers', r, call) /\ Settled(runs'[r], log'[r], call) BY <1>2, <2>1
  <2>3. call = other BY <1>4, <2>2, ComesOne
  <2> QED BY <2>2, <2>3
<1>5. ASSUME NEW wait \in waits', wait.run = r PROVE Settled(runs'[r], log'[r], wait.call)
  <2>1. mode = "wait" BY <1>2, <1>5
  <2>2. ~Comes(timers', r, call) BY <1>3, <2>1
  <2>3. \E other \in waits' : other.run = r /\ Settled(runs'[r], log'[r], other.call)
    BY <1>2, <2>1, <2>2
  <2>4. InWait(r)' BY <1>2, <2>1
  <2>5. \E one \in waits' : \A other \in waits' : other.run = r => other = one BY <2>4 DEF InWait
  <2> QED BY <1>5, <2>3, <2>5
<1>6. r \in requests' => Settled(runs'[r], log'[r], Call("execute"))
  <2> SUFFICES ASSUME r \in requests' PROVE Settled(runs'[r], log'[r], Call("execute")) OBVIOUS
  <2>1. mode = "request" BY <1>2
  <2>2. ~Comes(timers', r, call) BY <1>3, <2>1
  <2> QED BY <1>2, <2>1, <2>2
<1>7. TaskTold(r)'
  <2>1. CASE active'.run = r
    <3>1. mode = "task" BY <1>2, <2>1
    <3>2. ~Comes(timers', r, call) BY <1>3, <3>1
    <3> QED BY <1>2, <3>1, <3>2
  <2>2. CASE active'.run # r BY <2>2 DEF TaskTold
  <2> QED BY <2>1, <2>2
<1>8. BranchesTold(r)'
  <2>1. CASE runs'[r].parallelCount > 0
    <3>1. mode = "branches" BY <1>2, <2>1
    <3>2. ~Comes(timers', r, call) BY <1>3, <3>1
    <3> QED BY <1>2, <3>1, <3>2
  <2>2. CASE ~(runs'[r].parallelCount > 0) BY <2>2 DEF BranchesTold
  <2> QED BY <2>1, <2>2
<1> QED BY <1>4, <1>5, <1>6, <1>7, <1>8 DEF Told

(* What a step tells of the runs it does not concern.                       *)
LEMMA OthersTold ==
  ASSUME TInv, IInv', log' \in [Runs -> Logs], NEW S,
         \A q \in Runs : q \notin S => Undisturbed(q) /\ log'[q] = log[q],
         \A q \in Runs : q \in S => Told(q)'
  PROVE  TInv'
<1>1. \A q \in Runs : Placed(q) /\ Told(q) BY DEF TInv, IInv
<1>2. \A q \in Runs : Told(q)' BY <1>1, ToldStays
<1> QED BY <1>2 DEF TInv

(* The last of the calls that a run is left with comes for it.              *)
LEMMA LeavesComes ==
  ASSUME NEW r, NEW run, NEW others, NEW made,
         r \in Runs, others \in Seq(ComingType), Off(others, r),
         Proceeds(run, made), Leaves(others, r, made)
  PROVE  Comes(timers', r, made.calls[Len(made.calls)])
<1> DEFINE us == For(r, made.calls)
           last == made.calls[Len(made.calls)]
<1>1. /\ made.calls \in Seq(CallType) /\ Len(made.calls) > 0
      /\ \A i \in 1..Len(made.calls) - 1 : made.calls[i].do = "unlock"
      /\ last.do # "unlock"
  BY DEF Proceeds, Ready
<1>2. us \in Seq(ComingType) /\ Comes(us, r, last) BY <1>1, ForComes
<1>3. timers' = others \o us BY DEF Leaves
<1> HIDE DEF us, last
<1>4. Comes(timers', r, last) BY <1>2, <1>3, ConcatComes
<1> QED BY <1>4 DEF last

(* A run that is left with calls.                                           *)
LEMMA LeavesTold ==
  ASSUME NEW r, NEW others, NEW made,
         r \in Runs, TInv, IInv', Live(r), Elsewhere(r, others),
         Proceeds(runs[r], made), Leaves(others, r, made),
         waits' = waits, requests' = requests \ {r},
         active' = IF active.run = r THEN Idle ELSE active, log' = log,
         Settled(made.run, log[r], made.calls[Len(made.calls)])
  PROVE  TInv'
<1>1. IInv /\ Types /\ log' \in [Runs -> Logs] BY DEF TInv, IInv
<1>2. None \notin Runs \union RunType BY ScriptAssumption
<1>3. /\ runs'[r] = made.run /\ \A q \in Runs : q # r => runs'[q] = runs[q]
      /\ \A q : q # r => KeepsFor(others, timers', q)
  BY <1>1, LeavesFacts DEF Elsewhere
<1>4. made.run # None /\ made.run.live = runs[r].live BY <1>2 DEF Proceeds
<1>5. Live(r)' BY <1>3, <1>4 DEF Live
<1>6. Comes(timers', r, made.calls[Len(made.calls)]) BY LeavesComes DEF Elsewhere
<1>7. Placed(r)' BY DEF IInv
<1>8. Told(r)' BY <1>3, <1>5, <1>6, <1>7, ToldAt
<1>9. ASSUME NEW q \in Runs, q # r PROVE Undisturbed(q) /\ log'[q] = log[q]
  <2>1. KeepsFor(timers, timers', q) BY <1>3, <1>9 DEF Elsewhere, KeepsFor
  <2> QED BY <1>2, <1>3, <1>9, <2>1 DEF Undisturbed, Idle
<1>10. \A q \in Runs : q \notin {r} => Undisturbed(q) /\ log'[q] = log[q] BY <1>9
<1>11. \A q \in Runs : q \in {r} => Told(q)' BY <1>8
<1> QED BY <1>1, <1>10, <1>11, OthersTold

(* The last call of a run: what it did is a whole script; the run that      *)
(* waited for its branches goes on when it was the last of them.            *)
LEMMA EndsTold ==
  ASSUME NEW r, NEW call, TInv, IInv', r \in Runs, Live(r), runs[r].stack = <<>>,
         Elsewhere(r, Tail(timers)), r \notin requests, runs[r].parallelCount = 0,
         active = Idle, waits' = waits, requests' = requests, timers' = Tail(timers), Ends(r),
         call.do = "ends", Follows(runs[r], log[r], call)
  PROVE  TInv'
<1>0. PICK p : p = runs[r].parent OBVIOUS
<1>1. /\ IInv /\ Types /\ Families /\ \A q \in Runs : Placed(q)
      /\ log \in [Runs -> Logs] /\ \A q \in Runs : Told(q)
  BY DEF IInv, TInv
<1>2. None \notin Runs \union RunType /\ Idle.run = None /\ active.run = None
  BY ScriptAssumption DEF Idle
<1>3. runs[r] \in RunType /\ p \in Runs \union {None} /\ log[r] \in Logs
  BY <1>0, <1>1 DEF Types, Live, RunType
<1>4. /\ Removed(runs[r]) \in RunType /\ ~Removed(runs[r]).live /\ Removed(runs[r]) # None
      /\ Removed(runs[r]).scriptHead = runs[r].scriptHead
  BY <1>2, <1>3 DEF Removed, RunType
<1>5. \A q \in Runs : q # r => KeepsFor(timers, timers', q) BY DEF Elsewhere
<1>6. \A q \in Runs : Live(q) => runs[q].parent # r
  <2>1. Cardinality(Branches(r)) = 0 /\ IsFiniteSet(Branches(r)) BY <1>1, <1>2, <1>3 DEF Families
  <2>2. Branches(r) = {} BY <2>1, FS_EmptySet
  <2> QED BY <2>2 DEF Branches
<1>7. p # r BY <1>0, <1>6
<1>8. log[r] \in Whole(runs[r].scriptHead)
  <2>1. Accepts(runs[r].scriptHead, <<>>, log[r], Left(call, runs[r].script, runs[r].taskListRepeatCount))
    BY DEF Follows
  <2>2. Left(call, runs[r].script, runs[r].taskListRepeatCount) = Nothing BY LeftCases
  <2>3. Accepts(runs[r].scriptHead, <<>>, log[r], Nothing) BY <2>1, <2>2
  <2> QED BY <1>3, <2>3, AcceptsEnd
<1>9. ASSUME runs'[r] = Removed(runs[r]), log'[r] = log[r] PROVE Told(r)'
  <2>1. ~Live(r)' BY <1>4, <1>9 DEF Live
  <2>2. log'[r] \in IF runs'[r] = None THEN {<<>>} ELSE Whole(runs'[r].scriptHead)
    BY <1>4, <1>8, <1>9
  <2> QED BY <2>1, <2>2 DEF Told
<1>10. CASE p = None
  <2>1. runs' = [runs EXCEPT ![r] = Removed(runs[r])] /\ active' = active /\ log' = log
    BY <1>0, <1>10 DEF Ends
  <2>2. runs'[r] = Removed(runs[r]) /\ \A q \in Runs : q # r => runs'[q] = runs[q] BY <1>1, <2>1 DEF Types
  <2>3. Told(r)' BY <1>9, <2>1, <2>2
  <2>4. \A q \in Runs : q \notin {r} => Undisturbed(q) /\ log'[q] = log[q]
    BY <1>5, <2>1, <2>2 DEF Undisturbed
  <2>5. \A q \in Runs : q \in {r} => Told(q)' BY <2>3
  <2>6. log' \in [Runs -> Logs] BY <1>1, <2>1
  <2> QED BY <2>4, <2>5, <2>6, OthersTold
<1>11. CASE p # None
  <2>1. p \in Runs /\ Live(p) BY <1>0, <1>1, <1>3, <1>11 DEF Families
  <2>2. r \in Branches(p) /\ IsFiniteSet(Branches(p)) /\ runs[p].parallelCount = Cardinality(Branches(p))
    BY <1>0, <1>1, <2>1 DEF Families, Branches, Live
  <2>3. runs[p] \in RunType /\ log[p] \in Logs BY <1>1, <2>1 DEF Types, Live
  <2>4. runs[p].parallelCount \in Nat \ {0} BY <2>2, FS_CardinalityType, FS_EmptySet
  <2>5. InBranches(p) BY <1>1, <2>1, <2>4, Whereabouts DEF Stands
  <2>6. runs[p].currentTask.do = "tasks" /\ runs[p].currentTask \in CallType
    BY <2>3, <2>5 DEF InBranches, RunType
  <2> DEFINE other == [runs[p] EXCEPT !.parallelCount = @ - 1]
             next == [runs[p].currentTask EXCEPT !.at = @ + 1]
             joined == Append(log[p], "joined")
  <2>7. /\ other # None /\ other.live = runs[p].live /\ other.parallelCount = runs[p].parallelCount - 1
        /\ other.stack = runs[p].stack /\ other.script = runs[p].script
        /\ other.scriptHead = runs[p].scriptHead /\ other.currentTask = runs[p].currentTask
        /\ other.taskListRepeatCount = runs[p].taskListRepeatCount
    <3>1. other \in RunType BY <2>3, <2>4 DEF RunType
    <3> QED BY <1>2, <2>3, <3>1 DEF RunType
  <2>8. runs' = [runs EXCEPT ![r] = Removed(@), ![p].parallelCount = @ - 1] BY <1>0, <1>11 DEF Ends
  <2>9. /\ runs'[r] = Removed(runs[r]) /\ runs'[p] = other
        /\ \A q \in Runs : q # r /\ q # p => runs'[q] = runs[q]
    BY <1>1, <1>7, <2>1, <2>8 DEF Types
  <2>10. next.do = "tasks" BY <2>6 DEF CallType
  <2>11. joined \in Logs BY <2>3 DEF Logs
  <2>12. Settled(runs[p], joined, next)
    <3>1. BranchesTold(p) BY <1>1, <2>1 DEF Told
    <3> QED BY <2>4, <3>1 DEF BranchesTold
  <2> HIDE DEF next, other, joined
  <2>13. Settled(other, joined, next) BY <2>7, <2>12, SameFollows
  <2>14. Placed(p)' /\ Live(p)' BY <2>1, <2>7, <2>9 DEF IInv, Live
  <2>15. CASE runs[p].parallelCount = 1
    <3>1. active' = [run |-> p, call |-> next] /\ log' = [log EXCEPT ![p] = joined]
      BY <1>0, <1>11, <2>15 DEF Ends, next, joined
    <3>2. active'.run = p /\ active'.call = next /\ log'[p] = joined /\ log' \in [Runs -> Logs]
          /\ \A q \in Runs : q # p => log'[q] = log[q]
      BY <1>1, <2>1, <2>11, <3>1
    <3>3. Follows(other, joined, next) /\ other.taskListRepeatCount = 0 BY <2>10, <2>13 DEF Settled
    <3>4. TaskTold(p)' BY <2>9, <3>2, <3>3 DEF TaskTold
    <3>5. Told(p)' BY <2>14, <3>2, <3>4, ToldAt
    <3>6. Told(r)' BY <1>7, <1>9, <2>9, <3>2
    <3>7. \A q \in Runs : q \notin {r, p} => Undisturbed(q) /\ log'[q] = log[q]
      BY <1>2, <1>5, <2>9, <3>2 DEF Undisturbed
    <3>8. \A q \in Runs : q \in {r, p} => Told(q)' BY <3>5, <3>6
    <3> QED BY <3>2, <3>7, <3>8, OthersTold
  <2>16. CASE runs[p].parallelCount # 1
    <3>1. active' = active /\ log' = log BY <1>0, <1>11, <2>16 DEF Ends
    <3>2. other.parallelCount > 0 /\ [other.currentTask EXCEPT !.at = @ + 1] = next
          /\ Append(log'[p], "joined") = joined
      BY <2>4, <2>7, <2>16, <3>1 DEF next, joined
    <3>3. BranchesTold(p)' BY <2>9, <2>13, <3>2 DEF BranchesTold
    <3>4. Told(p)' BY <2>9, <2>14, <3>2, <3>3, ToldAt
    <3>5. Told(r)' BY <1>9, <2>9, <3>1
    <3>6. \A q \in Runs : q \notin {r, p} => Undisturbed(q) /\ log'[q] = log[q]
      BY <1>5, <2>9, <3>1 DEF Undisturbed
    <3>7. \A q \in Runs : q \in {r, p} => Told(q)' BY <3>4, <3>5
    <3>8. log' \in [Runs -> Logs] BY <1>1, <3>1
    <3> QED BY <3>6, <3>7, <3>8, OthersTold
  <2> QED BY <2>15, <2>16
<1> QED BY <1>10, <1>11

(* A call with nothing left to do, or one that exits, unwinds the stack.    *)
LEMMA PopTold ==
  ASSUME NEW run \in RunType, Stacked(run), run.stack # <<>>, NEW done \in Logs, NEW call,
         Follows(run, done, call)
  PROVE  /\ Nothing \subseteq Left(call, run.script, run.taskListRepeatCount) /\ run.taskListRepeatCount = 0 =>
              LET made == PopAndCall(run) IN Settled(made.run, done, made.calls[Len(made.calls)])
         /\ Does(<<>>, "exit") \in Left(call, run.script, run.taskListRepeatCount) =>
              LET made == ExitAction(run) IN Settled(made.run, done, made.calls[Len(made.calls)])
<1>1. "next" \in Lefts /\ "exit" \in Lefts BY DEF Lefts
<1>2. ASSUME Nothing \subseteq Left(call, run.script, run.taskListRepeatCount), run.taskListRepeatCount = 0
      PROVE  LET made == PopAndCall(run) IN Settled(made.run, done, made.calls[Len(made.calls)])
  <2>1. PICK made : made = PopAndCall(run) OBVIOUS
  <2>2. made = UnwindTo(run, Goal(run.stack, Len(run.stack), "next")) BY <2>1, GoalOf
  <2>3. Does(<<>>, "next") \in Left(call, run.script, run.taskListRepeatCount) BY <1>2, NothingFacts
  <2>4. Settled(made.run, done, made.calls[Len(made.calls)]) BY <1>1, <1>2, <2>2, <2>3, UnwindFollows
  <2> QED BY <2>1, <2>4
<1>3. ASSUME Does(<<>>, "exit") \in Left(call, run.script, run.taskListRepeatCount)
      PROVE  LET made == ExitAction(run) IN Settled(made.run, done, made.calls[Len(made.calls)])
  <2>1. PICK made : made = ExitAction(run) OBVIOUS
  <2>2. made = UnwindTo(run, Goal(run.stack, Len(run.stack), "exit")) BY <2>1, GoalOf
  <2>4. Settled(made.run, done, made.calls[Len(made.calls)]) BY <1>1, <1>3, <2>2, UnwindFollows
  <2> QED BY <2>1, <2>4
<1> QED BY <1>2, <1>3

(* A timer that fires goes on with what is left.                            *)
LEMMA TimerTold ==
  ASSUME TInv, timers # <<>>, Head(timers).call.do # "unlock"
  PROVE  LET r == Head(timers).run IN Settled(runs[r], log[r], Head(timers).call)
<1>1. PICK r, call : r = Head(timers).run /\ call = Head(timers).call OBVIOUS
<1>2. IInv /\ timers \in Seq(ComingType) /\ \A q \in Runs : Told(q) BY DEF TInv, IInv, Types
<1>3. r \in Runs /\ Live(r) BY <1>1, <1>2, AtTheTimer
<1>4. Hit(Head(timers), r) BY <1>1 DEF Hit
<1>5. 1 \in DOMAIN timers /\ timers[1] = Head(timers) BY <1>2
<1>6. ~Off(timers, r) BY <1>4, <1>5 DEF Off
<1>7. InTimer(r) BY <1>2, <1>3, <1>6, Whereabouts DEF Stands
<1>8. PICK other : Comes(timers, r, other) BY <1>7 DEF InTimer
<1>9. Head(timers).call = other BY <1>2, <1>4, <1>8, TailEmpties
<1>10. Settled(runs[r], log[r], other) BY <1>2, <1>3, <1>8 DEF Told
<1> QED BY <1>1, <1>9, <1>10

LEMMA FireTold ==
  ASSUME Ordinary, Plain, Meant(Ways), TInv, Fire
  PROVE  TInv'
<1>1. /\ IInv /\ IInv' /\ Types /\ \A q \in Runs : Placed(q)
      /\ log \in [Runs -> Logs] /\ \A q \in Runs : Told(q)
  BY FireKeeps DEF IInv, TInv
<1>2. active = Idle /\ timers # <<>> /\ waits' = waits BY DEF Fire
<1>3. timers \in Seq(ComingType) /\ Tail(timers) \in Seq(ComingType) BY <1>1, <1>2 DEF Types
<1>4. None \notin Runs /\ Idle.run = None BY ScriptAssumption DEF Idle
<1>5. PICK r, call : r = Head(timers).run /\ call = Head(timers).call OBVIOUS
<1>6. CASE call.do = "unlock" /\ timers' = Tail(timers) /\ UNCHANGED <<runs, requests, active, log>>
  <2>1. ASSUME NEW q \in Runs PROVE Undisturbed(q)
    <3>1. ~Hit(Head(timers), q) BY <1>5, <1>6 DEF Hit
    <3>2. KeepsFor(timers, timers', q) BY <1>2, <1>3, <1>6, <3>1, TailKeeps
    <3> QED BY <1>2, <1>6, <3>2 DEF Undisturbed
  <2>0. PICK S : S = {} OBVIOUS
  <2>2. \A q \in Runs : q \notin S => Undisturbed(q) /\ log'[q] = log[q] BY <1>6, <2>1
  <2>3. \A q \in Runs : q \in S => Told(q)' BY <2>0
  <2>4. log' \in [Runs -> Logs] BY <1>1, <1>6
  <2> QED BY <1>1, <2>2, <2>3, <2>4, OthersTold
<1>7. ASSUME call.do # "unlock"
      PROVE  /\ r \in Runs /\ Live(r) /\ runs[r] \in RunType /\ Stacked(runs[r]) /\ log[r] \in Logs
             /\ call \in CallType /\ call.by = "script" /\ Ready(call, runs[r])
             /\ Elsewhere(r, Tail(timers)) /\ r \notin requests
             /\ runs[r].parallelCount = 0 /\ active.run # r
             /\ Settled(runs[r], log[r], call)
  <2>1. /\ r \in Runs /\ Live(r) /\ runs[r] \in RunType /\ Stacked(runs[r])
        /\ call \in CallType /\ call.by = "script" /\ Ready(call, runs[r])
        /\ Elsewhere(r, Tail(timers)) /\ r \notin requests
        /\ runs[r].parallelCount = 0
    BY <1>1, <1>2, <1>5, <1>7, AtTheTimer
  <2>2. Settled(runs[r], log[r], call) BY <1>2, <1>5, <1>7, TimerTold
  <2> QED BY <1>1, <1>2, <1>4, <2>1, <2>2
<1>8. ASSUME call.do # "unlock", call.do # "ends"
      PROVE  runs[r].stack # <<>> /\ runs[r].taskListRepeatCount = 0 /\ Follows(runs[r], log[r], call)
             /\ runs[r].script \in DOMAIN Script
  BY <1>7, <1>8 DEF Ready, Settled, Stacked
<1>9. ASSUME NEW made, call.do # "unlock", Proceeds(runs[r], made), Leaves(Tail(timers), r, made),
             requests' = requests, active' = active, log' = log,
             Settled(made.run, log[r], made.calls[Len(made.calls)])
      PROVE  TInv'
  <2>1. requests' = requests \ {r} BY <1>7, <1>9
  <2>2. active' = IF active.run = r THEN Idle ELSE active BY <1>7, <1>9
  <2> QED BY <1>1, <1>2, <1>7, <1>9, <2>1, <2>2, LeavesTold
<1>10. CASE call.do = "ends" /\ Ends(r) /\ timers' = Tail(timers) /\ UNCHANGED <<requests, locked>>
  <2>1. runs[r].stack = <<>> BY <1>7, <1>10 DEF Ready
  <2>2. Follows(runs[r], log[r], call) BY <1>7, <1>10 DEF Settled
  <2> QED BY <1>1, <1>2, <1>7, <1>10, <2>1, <2>2, EndsTold
<1>11. CASE call.do = "params" /\ Leaves(Tail(timers), r, PopAndCall(runs[r]))
            /\ UNCHANGED <<requests, active, locked, log>>
  <2>1. PICK made : made = PopAndCall(runs[r]) OBVIOUS
  <2>2. Proceeds(runs[r], made) BY <1>7, <1>8, <1>11, <2>1, PopAndCallProceeds
  <2>3. Left(call, runs[r].script, runs[r].taskListRepeatCount) = Nothing BY <1>11, LeftCases
  <2>4. Settled(made.run, log[r], made.calls[Len(made.calls)]) BY <1>7, <1>8, <1>11, <2>1, <2>3, PopTold
  <2> QED BY <1>9, <1>11, <2>1, <2>2, <2>4
<1>12. CASE call.do = "execute" /\ ExecuteTEScript(Tail(timers), r)
            /\ UNCHANGED <<active, locked, log>>
  <2>1. CASE Script[runs[r].script].actionType = "SERVERACTION"
    <3>1. requests' = requests \union {r} /\ timers' = Tail(timers) /\ runs' = runs
      BY <1>12, <2>1 DEF ExecuteTEScript
    <3>2. \A q \in Runs : q \notin {r} => Undisturbed(q) /\ log'[q] = log[q]
      BY <1>2, <1>7, <1>12, <3>1 DEF Undisturbed, Elsewhere
    <3>3. PICK next : next = Call("execute") OBVIOUS
    <3>4. next.do = "execute" BY <3>3, CallKinds
    <3>5. Left(next, runs[r].script, 0) = Left(call, runs[r].script, 0) BY <1>12, <3>4, LeftCases
    <3>6. Executes(runs[r].stack, next) BY <1>8, <1>12, <3>4 DEF Follows, Executes
    <3>7. Follows(runs[r], log[r], next) BY <1>8, <1>12, <3>4, <3>5, <3>6 DEF Follows, Starts
    <3>8. Settled(runs[r], log[r], next) BY <1>8, <1>12, <3>7 DEF Settled
    <3>9. r \in requests' /\ Settled(runs'[r], log'[r], Call("execute")) BY <1>12, <3>1, <3>3, <3>8
    <3>10. Placed(r)' /\ Live(r)' BY <1>1, <1>7, <1>12, <3>1 DEF IInv, Live
    <3>11. Told(r)' BY <3>9, <3>10, ToldAt
    <3>12. \A q \in Runs : q \in {r} => Told(q)' BY <3>11
    <3>13. log' \in [Runs -> Logs] BY <1>1, <1>12
    <3> QED BY <1>1, <3>2, <3>12, <3>13, OthersTold
  <2>2. CASE Script[runs[r].script].actionType # "SERVERACTION"
    <3>1. PICK f \in FollowOnActions(runs[r], 1) :
            /\ Leaves(Tail(timers), r, IF f.thrown THEN ExitAction(runs[r]) ELSE f.made)
            /\ requests' = requests
      BY <1>12, <2>2 DEF ExecuteTEScript
    <3>2. PICK made : made = IF f.thrown THEN ExitAction(runs[r]) ELSE f.made OBVIOUS
    <3>3. f.thrown \in BOOLEAN /\ (~f.thrown => Proceeds(runs[r], f.made))
      BY <1>7, <1>8, <1>12, FollowOnProceeds
    <3>4. Proceeds(runs[r], ExitAction(runs[r]))
      BY <1>7, <1>8, <1>12, PopToAndCallProceeds DEF ExitAction
    <3>5. Proceeds(runs[r], made) BY <3>2, <3>3, <3>4
    <3>6. 1 \in Nat \ {0} /\ Left(call, runs[r].script, 0) = Rest(PartsOf(runs[r].script, Ways), 1)
      BY <1>12, LeftCases
    <3>7. /\ f.thrown => Does(<<>>, "exit") \in Left(call, runs[r].script, 0)
          /\ ~f.thrown => Settled(f.made.run, log[r], f.made.calls[Len(f.made.calls)])
      BY <1>7, <1>8, <1>12, <3>6, FollowOnFollows
    <3>8. Settled(made.run, log[r], made.calls[Len(made.calls)])
      <4>1. CASE f.thrown BY <1>7, <1>8, <1>12, <3>2, <3>7, <4>1, PopTold
      <4>2. CASE ~f.thrown BY <3>2, <3>7, <4>2
      <4> QED BY <4>1, <4>2
    <3> QED BY <1>9, <1>12, <3>1, <3>2, <3>5, <3>8
  <2> QED BY <2>1, <2>2
<1>13. CASE call.do = "followOn"
            /\ (\E f \in FollowOnActions(runs[r], call.at) : Leaves(Tail(timers), r, f.made))
            /\ UNCHANGED <<requests, active, locked, log>>
  <2>1. PICK f \in FollowOnActions(runs[r], call.at) : Leaves(Tail(timers), r, f.made) BY <1>13
  <2>2. call.at \in Nat \ {0} /\ call.at # 1 BY <1>7, <1>13 DEF Ready, Fits, CallType
  <2>3. f.thrown \in BOOLEAN /\ (f.thrown => call.at = 1) /\ (~f.thrown => Proceeds(runs[r], f.made))
    BY <1>7, <1>8, <1>13, <2>2, FollowOnProceeds
  <2>4. Left(call, runs[r].script, 0) = Rest(PartsOf(runs[r].script, Ways), call.at) BY <1>13, LeftCases
  <2>5. ~f.thrown BY <2>2, <2>3
  <2>6. Settled(f.made.run, log[r], f.made.calls[Len(f.made.calls)])
    BY <1>7, <1>8, <1>13, <2>2, <2>4, <2>5, FollowOnFollows
  <2> QED BY <1>9, <1>13, <2>1, <2>3, <2>5, <2>6
<1>14. CASE call.do = "tasks" /\ active' = Head(timers) /\ timers' = Tail(timers)
            /\ UNCHANGED <<runs, requests, locked, log>>
  <2>1. active'.run = r /\ active'.call = call BY <1>5, <1>14
  <2>2. \A q \in Runs : q \notin {r} => Undisturbed(q) /\ log'[q] = log[q]
    BY <1>2, <1>4, <1>7, <1>14, <2>1 DEF Undisturbed, Elsewhere
  <2>3. TaskTold(r)' BY <1>8, <1>14, <2>1 DEF TaskTold
  <2>4. Placed(r)' /\ Live(r)' BY <1>1, <1>7, <1>14 DEF IInv, Live
  <2>5. Told(r)' BY <2>1, <2>3, <2>4, ToldAt
  <2>6. \A q \in Runs : q \in {r} => Told(q)' BY <2>5
  <2>7. log' \in [Runs -> Logs] BY <1>1, <1>14
  <2> QED BY <1>1, <2>2, <2>6, <2>7, OthersTold
<1> QED BY <1>5, <1>6, <1>10, <1>11, <1>12, <1>13, <1>14 DEF Fire

(* Answers, waits and the user.                                             *)
LEMMA AnsweredTold ==
  ASSUME NEW r, Ordinary, Plain, Meant(Ways), TInv, r \in Runs, Answered(r)
  PROVE  TInv'
<1>1. IInv /\ IInv' /\ Types /\ log \in [Runs -> Logs] /\ Told(r) BY AnsweredKeeps DEF TInv, IInv
<1>2. /\ active = Idle /\ r \in requests /\ requests' = requests \ {r}
      /\ waits' = waits /\ active' = active /\ log' = log
  BY DEF Answered
<1>3. None \notin Runs /\ Idle.run = None BY ScriptAssumption DEF Idle
<1>4. Live(r) /\ Stands(r, "request") /\ runs[r] \in RunType /\ Stacked(runs[r])
  BY <1>1, <1>2, Whereabouts
<1>5. Off(timers, r) /\ (\A wait \in waits : wait.run # r) /\ InRequest(r) /\ runs[r].parallelCount = 0
  BY <1>4 DEF Stands
<1>6. Elsewhere(r, timers) BY <1>1, <1>5, SameKeeps DEF Elsewhere, Types
<1>7. PICK outcome \in Outcomes : \E f \in Handled(runs[r], outcome) : Leaves(timers, r, f.made)
  BY DEF Answered
<1>8. PICK f \in Handled(runs[r], outcome) : Leaves(timers, r, f.made) BY <1>7
<1>9. Proceeds(runs[r], f.made) BY <1>4, <1>5, HandledProceeds DEF InRequest
<1>10. f \in FollowOnActions(runs[r], 1) /\ f.thrown = FALSE BY <1>4, <1>5, HandledOnce DEF InRequest
<1>11. PICK call : call = Call("execute") OBVIOUS
<1>12. call.do = "execute" BY <1>11, CallKinds
<1>13. runs[r].taskListRepeatCount = 0 /\ Follows(runs[r], log[r], call)
  <2>1. Settled(runs[r], log[r], call) BY <1>1, <1>2, <1>4, <1>11 DEF Told
  <2> QED BY <1>12, <2>1 DEF Settled
<1>14. 1 \in Nat \ {0} /\ Left(call, runs[r].script, 0) = Rest(PartsOf(runs[r].script, Ways), 1)
  BY <1>12, LeftCases
<1>15. runs[r].stack # <<>> /\ log[r] \in Logs BY <1>1, <1>5 DEF InRequest
<1>16. Settled(f.made.run, log[r], f.made.calls[Len(f.made.calls)])
  BY <1>4, <1>10, <1>12, <1>13, <1>14, <1>15, FollowOnFollows
<1>17. active' = IF active.run = r THEN Idle ELSE active BY <1>2, <1>3
<1> QED BY <1>1, <1>2, <1>4, <1>5, <1>6, <1>8, <1>9, <1>16, <1>17, LeavesTold

LEMMA WaitEndsTold ==
  ASSUME NEW wait, TInv, wait \in waits, WaitEnds(wait)
  PROVE  TInv'
<1>1. IInv /\ IInv' /\ Types /\ log \in [Runs -> Logs] /\ \A r \in Runs : Told(r)
  BY WaitEndsKeeps DEF TInv, IInv
<1>2. /\ active = Idle /\ active' = wait /\ waits' = waits \ {wait}
      /\ runs' = runs /\ timers' = timers /\ requests' = requests /\ log' = log
  BY DEF WaitEnds
<1>3. None \notin Runs /\ Idle.run = None BY ScriptAssumption DEF Idle
<1>4. wait.run \in Runs BY <1>1 DEF Types, ComingType
<1>5. PICK r \in Runs : r = wait.run BY <1>4
<1>6. Live(r) /\ Stands(r, "wait") BY <1>1, <1>5, Whereabouts
<1>7. wait.call.do = "tasks" /\ \A other \in waits : other.run = r => other = wait
  BY <1>5, <1>6 DEF Stands, InWait
<1>8. \A q \in Runs : q \notin {r} => Undisturbed(q) /\ log'[q] = log[q]
  BY <1>2, <1>3, <1>5, SameKeeps DEF Undisturbed
<1>9. Settled(runs[r], log[r], wait.call) BY <1>1, <1>5, <1>6 DEF Told
<1>10. TaskTold(r)' BY <1>2, <1>7, <1>9 DEF TaskTold, Settled
<1>11. Placed(r)' /\ Live(r)' BY <1>1, <1>2, <1>6 DEF IInv, Live
<1>12. Told(r)' BY <1>2, <1>5, <1>10, <1>11, ToldAt
<1>13. \A q \in Runs : q \in {r} => Told(q)' BY <1>12
<1> QED BY <1>1, <1>2, <1>8, <1>13, OthersTold

LEMMA UnlockTold ==
  ASSUME TInv, Unlock
  PROVE  TInv'
<1>1. IInv /\ IInv' /\ log \in [Runs -> Logs] BY UnlockKeeps DEF TInv
<1>2. UNCHANGED <<runs, timers, waits, requests, active, log>> BY DEF Unlock
<1>0. PICK S : S = {} OBVIOUS
<1>3. \A q \in Runs : q \notin S => Undisturbed(q) /\ log'[q] = log[q]
  BY <1>2, SameKeeps DEF Undisturbed
<1>4. \A q \in Runs : q \in S => Told(q)' BY <1>0
<1> QED BY <1>1, <1>2, <1>3, <1>4, OthersTold

LEMMA CallActionTold ==
  ASSUME NEW r, Plain, Meant(Ways), TInv, r \in Runs, CallAction(r)
  PROVE  TInv'
<1>1. /\ IInv /\ IInv' /\ Types /\ log \in [Runs -> Logs]
      /\ \A q \in Runs : Placed(q) /\ Told(q)
  BY CallActionKeeps DEF TInv, IInv
<1>2. None \notin Runs \union RunType /\ Idle.run = None BY ScriptAssumption DEF Idle
<1>3. PICK script : script = Started[r] OBVIOUS
<1>4. script \in DOMAIN Script BY <1>3, ScriptAssumption DEF CallAction
<1>5. PICK run, made : run = NewRun(script, None) /\ made = Entered(run, script, Call("ends"), "", "action")
  OBVIOUS
<1>6. Proceeds(run, made) /\ made.run.live /\ made.calls = <<Call("params")>>
  <2>1. Launched(script, None, run, made) BY <1>5 DEF Launched
  <2>2. None \in Runs \union {None} OBVIOUS
  <2> QED BY <1>4, <2>1, <2>2, StartProceeds
<1>7. /\ active = Idle /\ runs[r] = None /\ Leaves(timers, r, made)
      /\ waits' = waits /\ requests' = requests /\ active' = active /\ log' = log
  BY <1>3, <1>5 DEF CallAction
<1>8. ~Live(r) /\ Off(timers, r) BY <1>1, <1>7 DEF Placed, Nowhere, Live
<1>9. timers \in Seq(ComingType) BY <1>1 DEF Types
<1>10. /\ runs'[r] = made.run /\ \A q \in Runs : q # r => runs'[q] = runs[q]
       /\ \A q : q # r => KeepsFor(timers, timers', q)
  BY <1>1, <1>6, <1>7, <1>8, <1>9, LeavesFacts
<1>11. log[r] = <<>> BY <1>1, <1>7, <1>8 DEF Told
<1>12. Settled(made.run, <<>>, Call("params")) BY <1>4, <1>5, StartFollows
<1>13. Comes(timers', r, Call("params"))
  <2>1. Comes(timers', r, made.calls[Len(made.calls)]) BY <1>6, <1>7, <1>8, <1>9, LeavesComes
  <2>2. made.calls[Len(made.calls)] = Call("params") BY <1>6
  <2> QED BY <2>1, <2>2
<1>14. Placed(r)' BY <1>1 DEF IInv
<1>15. made.run # None BY <1>2, <1>6 DEF Proceeds
<1>16. Live(r)' BY <1>6, <1>10, <1>15 DEF Live
<1>17. Told(r)' BY <1>7, <1>10, <1>11, <1>12, <1>13, <1>14, <1>16, ToldAt
<1>18. \A q \in Runs : q \notin {r} => Undisturbed(q) /\ log'[q] = log[q]
  BY <1>7, <1>10 DEF Undisturbed
<1>19. \A q \in Runs : q \in {r} => Told(q)' BY <1>17
<1> QED BY <1>1, <1>7, <1>18, <1>19, OthersTold

(* The task that is active goes on with what is left, and so far done.      *)
LEMMA TaskHere ==
  ASSUME TInv, NEW r, NEW call, r = active.run, call = active.call, r # None
  PROVE  /\ IInv /\ log \in [Runs -> Logs] /\ log[r] \in Logs
         /\ Follows(runs[r], log[r], call)
         /\ Past(call) => runs[r].taskListRepeatCount = 0
         /\ runs[r].taskListRepeatCount \in Nat
         /\ \A script, count :
              Left(call, script, count) = RestOfGroup(call.of, call.list, call.at, count)
<1>1. IInv /\ log \in [Runs -> Logs] /\ \A q \in Runs : Told(q) BY DEF TInv
<1>2. r \in Runs /\ Live(r) /\ runs[r] \in RunType /\ call.do = "tasks" BY <1>1, AtTheTask
<1>3. TaskTold(r) BY <1>1, <1>2 DEF Told
<1>4. Follows(runs[r], log[r], call) /\ (Past(call) => runs[r].taskListRepeatCount = 0) BY <1>3 DEF TaskTold
<1>5. runs[r].taskListRepeatCount \in Nat BY <1>2, RunFields
<1>6. log[r] \in Logs BY <1>1, <1>2
<1> QED BY <1>1, <1>2, <1>4, <1>5, <1>6, LeftCases

(* At a task: it comes first, and what a list repeats are steps.            *)
LEMMA TaskNow ==
  ASSUME Plain, Meant(Ways), TInv, AtTask, NEW r, NEW call, NEW name,
         r = active.run, call = active.call, name = TaskList.tasks[active.call.at]
  PROVE  LET count == runs[r].taskListRepeatCount IN
           /\ r # None /\ name \in DOMAIN Group /\ name \in GroupsOf[runs[r].script] /\ Task = Group[name]
           /\ Group[name].type # "step" => count = 0
           /\ \A next, script :
                next.do = "tasks" /\ next.of = call.of /\ next.list = call.list /\ next.at = call.at + 1 =>
                  /\ SomeWays(Left(next, script, count)) /\ Starts(next, count)
                  /\ Then(Ways[name], Left(next, script, count)) \subseteq Left(call, script, count)
<1>1. /\ r # None /\ name \in DOMAIN Group /\ name \in GroupsOf[runs[r].script] /\ Task = Group[name]
      /\ call.list \in DOMAIN Lists /\ call.at \in DOMAIN TaskList.tasks
      /\ TaskList.repeat \in Nat /\ TaskList.repeat > runs[r].taskListRepeatCount
  BY TaskFacts DEF TInv
<1>2. /\ runs[r].taskListRepeatCount \in Nat
      /\ \A script, count :
           Left(call, script, count) = RestOfGroup(call.of, call.list, call.at, count)
  BY <1>1, TaskHere
<1>3. call.list \in Nat \ {0} /\ call.at \in Nat \ {0} /\ call.of \in DOMAIN Group BY <1>1, AtTheTask DEF TInv
<1>4. Lists = Group[call.of].taskList /\ TaskList = Group[call.of].taskList[call.list] BY DEF Lists, TaskList
<1>5. PICK count, rep : count = runs[r].taskListRepeatCount /\ rep = Group[call.of].taskList[call.list].repeat
  BY Zenon
<1>6. rep \in Nat /\ count \in Nat /\ rep > count BY <1>1, <1>2, <1>4, <1>5, Zenon
<1>7. Group[name].type # "step" => count = 0
  <2> SUFFICES ASSUME count # 0 PROVE Group[name].type = "step" OBVIOUS
  <2>1. Group[call.of].taskList[call.list].repeat > 1
    <3>1. rep > 1 BY <1>6, SMTT(40)
    <3> QED BY <1>5, <3>1, Zenon
  <2>2. call.list \in DOMAIN Group[call.of].taskList
        /\ call.at \in DOMAIN Group[call.of].taskList[call.list].tasks
    BY <1>1, <1>4
  <2>3. name = Group[call.of].taskList[call.list].tasks[call.at] BY <1>4
  <2>4. PICK list : list = Group[call.of].taskList[call.list] BY Zenon
  <2>5. \A l \in DOMAIN Group[call.of].taskList : Group[call.of].taskList[l].repeat > 1 =>
          \A i \in DOMAIN Group[call.of].taskList[l].tasks :
            Group[Group[call.of].taskList[l].tasks[i]].type = "step"
    BY <1>3, Zenon DEF Plain
  <2>6. \A i \in DOMAIN list.tasks : Group[list.tasks[i]].type = "step" BY <2>1, <2>2, <2>4, <2>5, Zenon
  <2>7. call.at \in DOMAIN list.tasks /\ name = list.tasks[call.at] BY <2>2, <2>3, <2>4, Zenon
  <2> QED BY <2>6, <2>7, Zenon
<1>8. ASSUME NEW next, NEW script, next.do = "tasks", next.of = call.of, next.list = call.list,
             next.at = call.at + 1
      PROVE  /\ SomeWays(Left(next, script, count)) /\ Starts(next, count)
             /\ Then(Ways[name], Left(next, script, count)) \subseteq Left(call, script, count)
  <2>1. Left(next, script, count) = RestOfGroup(call.of, call.list, call.at + 1, count) BY <1>8, LeftCases
  <2>2. call.at + 1 \in Nat \ {0} /\ count \in Nat BY <1>3, <1>6
  <2>3. SomeWays(RestOfGroup(call.of, call.list, call.at + 1, count))
    BY <1>3, <2>2, SomeRest
  <2>4. name = Group[call.of].taskList[call.list].tasks[call.at]
        /\ call.list \in DOMAIN Group[call.of].taskList
        /\ call.at \in DOMAIN Group[call.of].taskList[call.list].tasks
        /\ count < Group[call.of].taskList[call.list].repeat
    <3>1. count < rep BY <1>6
    <3> QED BY <1>1, <1>4, <1>5, <3>1, Zenon
  <2>5. Then(Ways[name], RestOfGroup(call.of, call.list, call.at + 1, count))
          \subseteq RestOfGroup(call.of, call.list, call.at, count)
    BY <1>3, <2>2, <2>4, TaskRest
  <2>6. Left(call, script, count) = RestOfGroup(call.of, call.list, call.at, count) BY <1>2
  <2>7. Starts(next, count)
    <3>1. ~(rep <= count) BY <1>6
    <3> QED BY <1>5, <1>8, <3>1 DEF Starts
  <2> QED BY <2>1, <2>3, <2>5, <2>6, <2>7
<1> QED BY <1>1, <1>5, <1>7, <1>8

(* A task list that is left for what the stack has.                         *)
LEMMA BreakTold ==
  ASSUME NEW r, NEW made, TInv, IInv', r = active.run, r # None,
         Proceeds(runs[r], made), BreakTaskList(made),
         waits' = waits, requests' = requests, log' = log,
         Settled(made.run, log[r], made.calls[Len(made.calls)])
  PROVE  TInv'
<1>0. IInv BY DEF TInv
<1>1. PICK call, here : call = active.call /\ here = Here OBVIOUS
<1>2. r \in Runs /\ Live(r) /\ Elsewhere(r, timers) /\ r \notin requests BY <1>0, <1>1, AtTheTask
<1>3. here \in CallType BY <1>0, <1>1, PlaceFacts
<1>4. PICK run, other, there :
        /\ run = made.run /\ other = [run EXCEPT !.currentTask = here]
        /\ there = [made EXCEPT !.run = [@ EXCEPT !.currentTask = here]]
  OBVIOUS
<1>5. Proceeds(runs[r], there) BY <1>3, <1>4, AtProceeds
<1>6. run \in RunType /\ made = [run |-> run, calls |-> made.calls] BY <1>4 DEF Proceeds, IsMade
<1>7. there.run = other /\ there.calls = made.calls BY <1>4, <1>6
<1>8. /\ other.stack = run.stack /\ other.script = run.script /\ other.scriptHead = run.scriptHead
      /\ other.taskListRepeatCount = run.taskListRepeatCount
  BY <1>4, <1>6 DEF RunType
<1>9. PICK last : last = made.calls[Len(made.calls)] OBVIOUS
<1>10. Settled(other, log[r], last)
  <2>1. Settled(run, log[r], last) BY <1>4, <1>9, Zenon
  <2> QED BY <1>8, <2>1, SameFollows, ZenonT(60)
<1>11. Settled(there.run, log[r], there.calls[Len(there.calls)]) BY <1>7, <1>9, <1>10
<1>12. active' = Idle /\ Leaves(timers, r, there) BY <1>1, <1>4 DEF BreakTaskList, R, At
<1>13. requests' = requests \ {r} /\ active' = IF active.run = r THEN Idle ELSE active BY <1>2, <1>12
<1> QED BY <1>2, <1>5, <1>11, <1>12, <1>13, LeavesTold

(* A task list that goes on.                                                *)
LEMMA GoesOnTold ==
  ASSUME NEW r, NEW run, NEW next, TInv, IInv', r = active.run, r # None,
         runs' = [runs EXCEPT ![r] = run], active' = [active EXCEPT !.call = next],
         timers' = timers, waits' = waits, requests' = requests,
         run \in RunType, run.live = runs[r].live,
         log' \in [Runs -> Logs], \A q \in Runs : q # r => log'[q] = log[q],
         Follows(run, log'[r], next), Past(next) => run.taskListRepeatCount = 0
  PROVE  TInv'
<1>1. PICK call : call = active.call OBVIOUS
<1>2. IInv /\ Types BY DEF TInv, IInv
<1>3. r \in Runs /\ Live(r) /\ active = [run |-> r, call |-> call] BY <1>1, <1>2, AtTheTask
<1>4. active' = [run |-> r, call |-> next] BY <1>3
<1>5. active'.run = r /\ active'.call = next BY <1>4
<1>6. runs'[r] = run /\ \A q \in Runs : q # r => runs'[q] = runs[q] BY <1>2, <1>3 DEF Types
<1>7. TaskTold(r)' BY <1>5, <1>6 DEF TaskTold, Past
<1>8. run # None BY ScriptAssumption
<1>9. Placed(r)' /\ Live(r)' BY <1>3, <1>6, <1>8 DEF IInv, Live
<1>10. Told(r)' BY <1>5, <1>7, <1>9, ToldAt
<1>11. \A q \in Runs : q \notin {r} => Undisturbed(q) /\ log'[q] = log[q]
  BY <1>5, <1>6, SameKeeps DEF Undisturbed
<1>12. \A q \in Runs : q \in {r} => Told(q)' BY <1>10
<1> QED BY <1>11, <1>12, OthersTold

(* A task that is done in one way, with what comes after it.                *)
LEMMA DoneFollows ==
  ASSUME NEW run, NEW done \in Logs, NEW more \in Logs, NEW call, NEW next, NEW name,
         call.do = "tasks", next.do = "tasks", Follows(run, done, call),
         Does(more, "next") \in Ways[name], Starts(next, run.taskListRepeatCount),
         SomeWays(Left(next, run.script, run.taskListRepeatCount)),
         Then(Ways[name], Left(next, run.script, run.taskListRepeatCount))
           \subseteq Left(call, run.script, run.taskListRepeatCount)
  PROVE  Follows(run, done \o more, next)
<1>1. PICK rest, less : /\ rest = Left(call, run.script, run.taskListRepeatCount)
                        /\ less = Left(next, run.script, run.taskListRepeatCount)
  OBVIOUS
<1>2. /\ Executes(run.stack, call) /\ Apart(run.stack, run.script)
      /\ Accepts(run.scriptHead, run.stack, done, rest)
  BY <1>1 DEF Follows
<1>3. \A w \in less : Does(more \o w.log, w.left) \in rest
  <2> TAKE w \in less
  <2>1. PICK a : a = Does(more, "next") OBVIOUS
  <2>2. a \in Ways[name] /\ a.log = more /\ a.left = "next" BY <2>1, DoesIs
  <2>3. Does(a.log \o w.log, w.left) \in Then(Ways[name], less) BY <2>2, ThenHas
  <2> QED BY <1>1, <2>2, <2>3
<1>4. less \subseteq WaysOut(Lefts) BY <1>1 DEF SomeWays
<1>5. Accepts(run.scriptHead, run.stack, done \o more, less) BY <1>2, <1>3, <1>4, AcceptsStep
<1>6. Executes(run.stack, next) BY <1>2 DEF Executes
<1> QED BY <1>1, <1>2, <1>5, <1>6 DEF Follows

(* A task that leaves more than its list.                                   *)
LEMMA OutFollows ==
  ASSUME NEW run \in RunType, Stacked(run), run.stack # <<>>, NEW done \in Logs, NEW call, NEW next, NEW name,
         Follows(run, done, call), NEW left \in Lefts \ {"next"}, Does(<<>>, left) \in Ways[name],
         Then(Ways[name], Left(next, run.script, run.taskListRepeatCount))
           \subseteq Left(call, run.script, run.taskListRepeatCount),
         run.taskListRepeatCount = 0 \/ left = "exit"
  PROVE  LET made == UnwindTo(run, Goal(run.stack, Len(run.stack), left)) IN
           Settled(made.run, done, made.calls[Len(made.calls)])
<1>1. PICK a, less : a = Does(<<>>, left) /\ less = Left(next, run.script, run.taskListRepeatCount) OBVIOUS
<1>2. a \in Ways[name] /\ a.left # "next" BY <1>1, DoesIs
<1>3. a \in Then(Ways[name], less) BY <1>2, ThenHas
<1>4. Does(<<>>, left) \in Left(call, run.script, run.taskListRepeatCount) BY <1>1, <1>3
<1> QED BY <1>4, UnwindFollows

(* The loops around the tasks.                                              *)
LEMMA EndOfListTold ==
  ASSUME Plain, Meant(Ways), TInv, EndOfList, UNCHANGED <<waits, requests, locked, log>>
  PROVE  TInv'
<1>1. PICK r, call : r = active.run /\ call = active.call OBVIOUS
<1>2. r # None BY <1>1 DEF EndOfList, InList
<1>3. IInv /\ IInv' BY EndOfListKeeps DEF TInv
<1>4. /\ r \in Runs /\ Live(r) /\ runs[r] \in RunType /\ Stacked(runs[r]) /\ runs[r].stack # <<>>
      /\ call \in CallType /\ call.do = "tasks" /\ call.list \in Nat \ {0} /\ call.at \in Nat \ {0}
      /\ call.of \in DOMAIN Group
  BY <1>1, <1>2, <1>3, AtTheTask
<1>5. /\ log \in [Runs -> Logs] /\ log[r] \in Logs /\ Follows(runs[r], log[r], call)
      /\ Past(call) => runs[r].taskListRepeatCount = 0
      /\ runs[r].taskListRepeatCount \in Nat
      /\ \A script, count :
           Left(call, script, count) = RestOfGroup(call.of, call.list, call.at, count)
  BY <1>1, <1>2, TaskHere
<1>6. runs \in [Runs -> RunType \union {None}] BY <1>3 DEF IInv, Types
<1>7. PICK lists, count : lists = Group[call.of].taskList /\ count = runs[r].taskListRepeatCount OBVIOUS
<1>8. Lists = lists /\ TaskList = lists[call.list] /\ R = r BY <1>1, <1>7 DEF Lists, TaskList, R
<1>9. Len(lists) \in Nat /\ DOMAIN lists = 1..Len(lists)
  BY <1>4, <1>7, GroupFacts
<1>10. InList <=> call.list \in DOMAIN lists BY <1>1, <1>2, <1>4, <1>8, <1>9 DEF InList
<1>11. /\ call.list \in DOMAIN lists /\ count < lists[call.list].repeat /\ call.at > Len(lists[call.list].tasks) =>
            RestOfGroup(call.of, call.list, call.at, count) = RestOfGroup(call.of, call.list, 1, count + 1)
       /\ call.list \in DOMAIN lists /\ lists[call.list].repeat <= count =>
            RestOfGroup(call.of, call.list, call.at, count) = RestOfGroup(call.of, call.list + 1, 1, 0)
  
  <2>1. PICK g, l, at : g = call.of /\ l = call.list /\ at = call.at OBVIOUS
  <2>2. count \in Nat BY <1>5, <1>7
  <2>3. LET lists2 == Group[g].taskList IN
           /\ SomeWays(RestOfGroup(g, l, at, count))
           /\ l \in DOMAIN lists2 /\ count < lists2[l].repeat /\ at > Len(lists2[l].tasks) =>
                RestOfGroup(g, l, at, count) = RestOfGroup(g, l, 1, count + 1)
           /\ l \in DOMAIN lists2 /\ lists2[l].repeat <= count =>
                RestOfGroup(g, l, at, count) = RestOfGroup(g, l + 1, 1, 0)
    BY <1>4, <2>1, <2>2, ListRest
  <2> QED BY <1>7, <2>1, <2>3
<1>12. ASSUME NEW run, NEW next, run \in RunType, run.stack = runs[r].stack, run.script = runs[r].script,
              run.live = runs[r].live, run.scriptHead = runs[r].scriptHead,
              runs' = [runs EXCEPT ![r] = run], active' = [active EXCEPT !.call = next], timers' = timers,
              next.do = "tasks", Starts(next, run.taskListRepeatCount),
              Left(next, run.script, run.taskListRepeatCount) = Left(call, run.script, count),
              Past(next) => run.taskListRepeatCount = 0
       PROVE  TInv'
  <2>1. Executes(run.stack, next) BY <1>4, <1>5, <1>12 DEF Follows, Executes
  <2>2. Follows(run, log[r], next) BY <1>5, <1>7, <1>12, <2>1 DEF Follows
  <2> QED BY <1>1, <1>2, <1>3, <1>5, <1>12, <2>2, GoesOnTold
<1>13. CASE /\ InList /\ TaskList.repeat > runs[R].taskListRepeatCount /\ active.call.at > Len(TaskList.tasks)
            /\ runs' = [runs EXCEPT ![R].taskListRepeatCount = @ + 1]
            /\ GoesOn([active.call EXCEPT !.at = 1]) /\ timers' = timers
  <2>1. PICK run, next : /\ run = [runs[r] EXCEPT !.taskListRepeatCount = @ + 1]
                         /\ next = [call EXCEPT !.at = 1]
    OBVIOUS
  <2>2. runs' = [runs EXCEPT ![r] = run] /\ active' = [active EXCEPT !.call = next]
    BY <1>1, <1>4, <1>6, <1>13, <2>1 DEF R, GoesOn
  <2>3. /\ run \in RunType /\ run.stack = runs[r].stack /\ run.script = runs[r].script
        /\ run.live = runs[r].live /\ run.scriptHead = runs[r].scriptHead
        /\ run.taskListRepeatCount = count + 1
    BY <1>4, <1>5, <1>7, <2>1 DEF RunType
  <2>4. next.do = "tasks" /\ next.of = call.of /\ next.list = call.list /\ next.at = 1
    BY <1>4, <2>1 DEF CallType
  <2>5. call.list \in DOMAIN lists /\ count < lists[call.list].repeat /\ call.at > Len(lists[call.list].tasks)
    <3>1. call.list \in DOMAIN lists BY <1>10, <1>13
    <3>2. lists[call.list].repeat > count /\ call.at > Len(lists[call.list].tasks) BY <1>1, <1>7, <1>8, <1>13
    <3>3. lists[call.list].repeat \in Nat BY <1>4, <1>7, <3>1, GroupFacts
    <3>4. count \in Nat BY <1>5, <1>7
    <3> QED BY <3>1, <3>2, <3>3, <3>4
  <2>6. Left(next, run.script, count + 1) = Left(call, run.script, count) BY <1>5, <1>11, <2>4, <2>5, LeftCases
  <2>7. ~Past(next) BY <1>7, <1>9, <2>4, <2>5 DEF Past
  <2>8. Starts(next, count + 1) BY <2>4 DEF Starts
  <2>9. /\ Starts(next, run.taskListRepeatCount)
        /\ Left(next, run.script, run.taskListRepeatCount) = Left(call, run.script, count)
        /\ Past(next) => run.taskListRepeatCount = 0
    BY <2>3, <2>6, <2>7, <2>8, Zenon
  <2>10. timers' = timers BY <1>13
  <2> QED BY <1>12, <2>2, <2>3, <2>4, <2>9, <2>10, ZenonT(60)
<1>14. CASE /\ InList /\ TaskList.repeat <= runs[R].taskListRepeatCount
            /\ runs' = [runs EXCEPT ![R].taskListRepeatCount = 0]
            /\ GoesOn([active.call EXCEPT !.list = @ + 1]) /\ timers' = timers
  <2>1. PICK run, next : /\ run = [runs[r] EXCEPT !.taskListRepeatCount = 0]
                         /\ next = [call EXCEPT !.list = @ + 1]
    OBVIOUS
  <2>2. runs' = [runs EXCEPT ![r] = run] /\ active' = [active EXCEPT !.call = next]
    BY <1>1, <1>4, <1>6, <1>14, <2>1 DEF R, GoesOn
  <2>3. /\ run \in RunType /\ run.stack = runs[r].stack /\ run.script = runs[r].script
        /\ run.live = runs[r].live /\ run.scriptHead = runs[r].scriptHead
        /\ run.taskListRepeatCount = 0
    BY <1>4, <2>1 DEF RunType
  <2>4. next.do = "tasks" /\ next.of = call.of /\ next.list = call.list + 1 /\ next.at = call.at
    BY <1>4, <2>1 DEF CallType
  <2>5. call.list \in DOMAIN lists /\ lists[call.list].repeat <= count BY <1>7, <1>8, <1>10, <1>14
  <2>6. Left(next, run.script, 0) = Left(call, run.script, count)
    <3>1. Left(call, run.script, count) = RestOfGroup(call.of, call.list + 1, 1, 0) BY <1>5, <1>11, <2>5
    <3>2. Left(next, run.script, 0) = RestOfGroup(call.of, call.list + 1, call.at, 0) BY <2>4, LeftCases
    <3>3. call.at = 1 BY <1>5, <1>4, <1>7, <2>5 DEF Follows, Starts
    <3> QED BY <3>1, <3>2, <3>3
  <2>7. Starts(next, 0)
    <3>3. call.at = 1 BY <1>5, <1>4, <1>7, <2>5 DEF Follows, Starts
    <3> QED BY <2>4, <3>3 DEF Starts
  <2> QED BY <1>12, <1>14, <2>2, <2>3, <2>4, <2>6, <2>7
<1>15. CASE ~InList /\ active' = Idle /\ Leaves(timers, R, PopAndCall(runs[R]))
  <2>1. PICK made : made = PopAndCall(runs[r]) OBVIOUS
  <2>2. Proceeds(runs[r], made) BY <1>4, <2>1, PopAndCallProceeds
  <2>3. Leaves(timers, r, made) BY <1>1, <1>15, <2>1 DEF R
  <2>4. Elsewhere(r, timers) /\ r \notin requests BY <1>1, <1>2, <1>3, AtTheTask
  <2>5. requests' = requests \ {r} /\ active' = IF active.run = r THEN Idle ELSE active
    BY <1>1, <1>15, <2>4
  <2>6. call.list \notin DOMAIN lists BY <1>10, <1>15
  <2>7. call.list > Len(lists) BY <1>4, <1>9, <2>6
  <2>8. count = 0 BY <1>5, <1>7, <2>7 DEF Past
  <2>9. Left(call, runs[r].script, count) = Nothing BY <1>5, <1>7, <2>6 DEF RestOfGroup
  <2>10. Settled(made.run, log[r], made.calls[Len(made.calls)])
    BY <1>4, <1>5, <1>7, <2>1, <2>8, <2>9, PopTold
  <2> QED BY <1>3, <1>4, <2>2, <2>3, <2>4, <2>5, <2>10, LeavesTold
<1> QED BY <1>13, <1>14, <1>15 DEF EndOfList, InList

(* The run goes on with the task after this one, or leaves it.              *)
LEMMA NextTaskTold ==
  ASSUME Plain, Meant(Ways), TInv, IInv', AtTask, NEW r, NEW name, NEW more \in Logs,
         r = active.run, name = TaskList.tasks[active.call.at],
         Does(more, "next") \in Ways[name],
         runs' = [runs EXCEPT ![R] = At(@)], GoesOn([active.call EXCEPT !.at = @ + 1]),
         timers' = timers, waits' = waits, requests' = requests,
         log' \in [Runs -> Logs], log'[r] = log[r] \o more, \A q \in Runs : q # r => log'[q] = log[q]
  PROVE  TInv'
<1>1. PICK call : call = active.call OBVIOUS
<1>2. r # None BY TaskFacts DEF TInv
<1>3. /\ r \in Runs /\ Live(r) /\ runs[r] \in RunType
      /\ call \in CallType /\ call.do = "tasks" /\ call.list \in Nat \ {0} /\ call.at \in Nat \ {0}
      /\ call.of \in DOMAIN Group
  BY <1>1, <1>2, AtTheTask DEF TInv
<1>4. /\ log[r] \in Logs /\ Follows(runs[r], log[r], call) BY <1>1, <1>2, TaskHere
<1>5. PICK run, next : run = At(runs[r]) /\ next = [call EXCEPT !.at = @ + 1] OBVIOUS
<1>6. Here \in CallType BY <1>2, PlaceFacts DEF TInv
<1>7. runs' = [runs EXCEPT ![r] = run] /\ active' = [active EXCEPT !.call = next]
  BY <1>1, <1>5 DEF R, GoesOn
<1>8. /\ run \in RunType /\ run.stack = runs[r].stack /\ run.script = runs[r].script
      /\ run.live = runs[r].live /\ run.scriptHead = runs[r].scriptHead
      /\ run.taskListRepeatCount = runs[r].taskListRepeatCount
  BY <1>3, <1>5, <1>6 DEF RunType, At
<1>9. /\ next.do = "tasks" /\ next.of = call.of /\ next.list = call.list /\ next.at = call.at + 1
  BY <1>3, <1>5 DEF CallType
<1>10. PICK count, script : count = runs[r].taskListRepeatCount /\ script = runs[r].script OBVIOUS
<1>11. /\ SomeWays(Left(next, script, count)) /\ Starts(next, count)
       /\ Then(Ways[name], Left(next, script, count)) \subseteq Left(call, script, count)
  BY <1>1, <1>9, <1>10, TaskNow
<1>12. Follows(runs[r], log[r] \o more, next) BY <1>3, <1>4, <1>9, <1>10, <1>11, DoneFollows
<1>13. Follows(run, log'[r], next) BY <1>8, <1>12, SameFollows
<1>14. ~Past(next)
  <2>1. InList BY DEF AtTask
  <2>2. call.list <= Len(Group[call.of].taskList) BY <1>1, <2>1 DEF InList, Lists
  <2>3. Len(Group[call.of].taskList) \in Nat BY <1>3, GroupFacts
  <2> QED BY <1>3, <1>9, <2>2, <2>3 DEF Past
<1> QED BY <1>2, <1>7, <1>8, <1>13, <1>14, GoesOnTold

(* A task leaves its list.                                                  *)
LEMMA OutTold ==
  ASSUME Plain, Meant(Ways), TInv, IInv', AtTask, NEW r, NEW name, NEW made, NEW left \in Lefts \ {"next"},
         r = active.run, name = TaskList.tasks[active.call.at], Does(<<>>, left) \in Ways[name],
         Group[name].type # "step" \/ left = "exit",
         made = UnwindTo(runs[r], Goal(runs[r].stack, Len(runs[r].stack), left)), Proceeds(runs[r], made),
         BreakTaskList(made), waits' = waits, requests' = requests, log' = log
  PROVE  TInv'
<1>1. PICK call : call = active.call OBVIOUS
<1>2. r # None BY TaskFacts DEF TInv
<1>3. /\ runs[r] \in RunType /\ Stacked(runs[r]) /\ runs[r].stack # <<>>
      /\ call \in CallType /\ call.do = "tasks" /\ call.list \in Nat \ {0} /\ call.at \in Nat \ {0}
      /\ call.of \in DOMAIN Group
  BY <1>1, <1>2, AtTheTask DEF TInv
<1>4. /\ log[r] \in Logs /\ Follows(runs[r], log[r], call) BY <1>1, <1>2, TaskHere
<1>5. PICK next, count, script :
        /\ next = Tasks(call.of, call.list, call.at + 1)
        /\ count = runs[r].taskListRepeatCount /\ script = runs[r].script
  OBVIOUS
<1>6. next.do = "tasks" /\ next.of = call.of /\ next.list = call.list /\ next.at = call.at + 1
  BY <1>5 DEF Tasks
<1>7. /\ Group[name].type # "step" => count = 0
      /\ Then(Ways[name], Left(next, script, count)) \subseteq Left(call, script, count)
  BY <1>1, <1>5, <1>6, TaskNow
<1>8. Settled(made.run, log[r], made.calls[Len(made.calls)]) BY <1>3, <1>4, <1>5, <1>7, OutFollows
<1> QED BY <1>2, <1>8, BreakTold

(* A task did its work at once.                                             *)
LEMMA DoneTold ==
  ASSUME Plain, Meant(Ways), TInv, IInv', AtTask, TaskDone, waits' = waits, requests' = requests,
         NEW name, name = TaskList.tasks[active.call.at], Does(<<name>>, "next") \in Ways[name]
  PROVE  TInv'
<1>1. IInv /\ log \in [Runs -> Logs] BY DEF TInv
<1>2. PICK r, more : r = active.run /\ more = <<name>> OBVIOUS
<1>3. r # None /\ name \in DOMAIN Group BY <1>1, <1>2, TaskFacts
<1>4. r \in Runs BY <1>1, <1>2, <1>3, AtTheTask
<1>5. runs' = [runs EXCEPT ![R] = At(@)] /\ GoesOn([active.call EXCEPT !.at = @ + 1]) /\ timers' = timers
  BY DEF TaskDone
<1>6. log[r] \in Logs BY <1>1, <1>4
<1>7. more \in Logs /\ Append(log[r], name) = log[r] \o more /\ Append(log[r], name) \in Logs
  BY <1>2, <1>3, <1>6 DEF Logs
<1>8. log' = [log EXCEPT ![r] = log[r] \o more] BY <1>2, <1>7 DEF R, TaskDone
<1>9. log' \in [Runs -> Logs] /\ log'[r] = log[r] \o more /\ \A q \in Runs : q # r => log'[q] = log[q]
  BY <1>1, <1>4, <1>7, <1>8
<1>10. Does(more, "next") \in Ways[name] BY <1>2
<1> QED BY <1>2, <1>5, <1>7, <1>9, <1>10, NextTaskTold

(* A task of a call that a wait has made comes after that wait.             *)
LEMMA StackWaited ==
  ASSUME Ordinary, IInv, AtTask, active.call.by = "stack"
  PROVE  Waited(active.call.of, active.call.list, active.call.at)
<1>1. PICK r, call, count : r = active.run /\ call = active.call /\ count = runs[r].taskListRepeatCount OBVIOUS
<1>2. r # None BY <1>1, TaskFacts
<1>3. call.of \in DOMAIN Group /\ Behind(call, count) /\ runs[r] \in RunType BY <1>1, <1>2, AtTheTask
<1>4. PICK p \in WaitsOf(call.of) : p[1] < call.list \/ (p[1] = call.list /\ (p[2] < call.at \/ count >= 1))
  BY <1>3 DEF Behind
<1>5. count \in Nat BY <1>1, <1>3, RunFields
<1>6. ASSUME p[1] = call.list PROVE count < 1
  <2>1. Group[call.of].taskList[p[1]].repeat <= 1 BY <1>3, <1>4 DEF Ordinary
  <2>2. TaskList = Group[call.of].taskList[p[1]] BY <1>1, <1>6 DEF TaskList, Lists
  <2>3. TaskList.repeat \in Nat /\ TaskList.repeat > count BY <1>1, TaskFacts
  <2> QED BY <1>5, <2>1, <2>2, <2>3
<1>7. p[1] < call.list \/ (p[1] = call.list /\ p[2] < call.at) BY <1>4, <1>5, <1>6
<1> QED BY <1>1, <1>4, <1>7 DEF Waited

LEMMA StepTold ==
  ASSUME Ordinary, Plain, Meant(Ways), TInv, AtTask, Step
  PROVE  TInv'
<1>1. IInv /\ IInv' BY StepKeeps DEF TInv
<1>2. PICK r, name : r = active.run /\ name = TaskList.tasks[active.call.at] OBVIOUS
<1>3. r # None /\ name \in DOMAIN Group /\ Task = Group[name] BY <1>1, <1>2, TaskFacts
<1>4. /\ r \in Runs /\ runs[r] \in RunType /\ Stacked(runs[r]) /\ runs[r].stack # <<>>
  BY <1>1, <1>2, <1>3, AtTheTask
<1>5. waits' = waits /\ requests' = requests /\ Group[name].type = "step" BY <1>3 DEF Step
<1>6. CASE TaskDone
  <2>1. Does(<<name>>, "next") \in Ways[name] BY <1>3, <1>5, TaskHas
  <2> QED BY <1>1, <1>2, <1>5, <1>6, <2>1, DoneTold
<1>7. CASE /\ Task.fails \/ (Task.assigns /\ active.call.by = "stack")
           /\ BreakTaskList(ExitAction(runs[R])) /\ log' = log
  <2>1. PICK made, left : made = ExitAction(runs[r]) /\ left = "exit" OBVIOUS
  <2>2. Proceeds(runs[r], made) BY <1>4, <2>1, PopToAndCallProceeds DEF ExitAction
  <2>3. BreakTaskList(made) BY <1>2, <1>7, <2>1 DEF R
  <2>4. made = UnwindTo(runs[r], Goal(runs[r].stack, Len(runs[r].stack), left)) BY <1>4, <2>1, GoalOf
  <2>5. left \in Lefts \ {"next"} BY <2>1 DEF Lefts
  <2>6. Task.fails
    <3> SUFFICES ASSUME Task.assigns, active.call.by = "stack" PROVE Task.fails BY <1>7
    <3>1. PICK call : call = active.call OBVIOUS
    <3>2. Waited(call.of, call.list, call.at) BY <1>1, <3>1, StackWaited
    <3>3. call.of \in DOMAIN Group BY <1>1, <1>2, <1>3, <3>1, AtTheTask
    <3>4. /\ call.list \in DOMAIN Group[call.of].taskList
          /\ call.at \in DOMAIN Group[call.of].taskList[call.list].tasks
          /\ name = Group[call.of].taskList[call.list].tasks[call.at]
      BY <1>1, <1>2, <3>1, TaskFacts DEF TaskList, Lists
    <3>5. PICK g, l, i : g = call.of /\ l = call.list /\ i = call.at OBVIOUS
    <3>6. PICK task : task = Group[Group[g].taskList[l].tasks[i]] OBVIOUS
    <3>7. Waited(g, l, i) /\ task.type = "step" /\ task.assigns => task.fails
      <4>1. g \in DOMAIN Group /\ l \in DOMAIN Group[g].taskList /\ i \in DOMAIN Group[g].taskList[l].tasks
        BY <3>3, <3>4, <3>5
      <4>2. \A ll \in DOMAIN Group[g].taskList : \A ii \in DOMAIN Group[g].taskList[ll].tasks :
              LET at == Group[Group[g].taskList[ll].tasks[ii]] IN
              Waited(g, ll, ii) /\ at.type = "step" /\ at.assigns => at.fails
        BY <4>1, Zenon DEF Plain
      <4> QED BY <3>6, <4>1, <4>2, Zenon
    <3>8. task = Group[name] BY <3>4, <3>5, <3>6
    <3> QED BY <1>3, <1>5, <3>2, <3>5, <3>7, <3>8
  <2>7. Does(<<>>, left) \in Ways[name] BY <1>3, <1>5, <2>1, <2>6, TaskHas
  <2> QED BY <1>1, <1>2, <1>5, <1>7, <2>1, <2>2, <2>3, <2>4, <2>5, <2>7, OutTold
<1> QED BY <1>6, <1>7 DEF Step

LEMMA LockTasksTold ==
  ASSUME Plain, Meant(Ways), TInv, AtTask, LockScreen \/ UnlockScreen
  PROVE  TInv'
<1>1. IInv /\ IInv' BY LockTasksKeep DEF TInv
<1>2. PICK name : name = TaskList.tasks[active.call.at] OBVIOUS
<1>3. name \in DOMAIN Group /\ Task = Group[name] BY <1>1, <1>2, TaskFacts
<1>4. /\ TaskDone /\ waits' = waits /\ requests' = requests
      /\ Group[name].type \in {"lockscreen", "unlockscreen"}
  BY <1>3 DEF LockScreen, UnlockScreen
<1>5. Does(<<name>>, "next") \in Ways[name] BY <1>3, <1>4, TaskHas
<1> QED BY <1>1, <1>2, <1>4, <1>5, DoneTold

LEMMA IfNotTold ==
  ASSUME Plain, Meant(Ways), TInv, AtTask, IfNot
  PROVE  TInv'
<1>1. IInv /\ IInv' /\ log \in [Runs -> Logs] BY IfNotKeeps DEF TInv
<1>2. PICK r, name : r = active.run /\ name = TaskList.tasks[active.call.at] OBVIOUS
<1>3. r # None /\ name \in DOMAIN Group /\ Task = Group[name] BY <1>1, <1>2, TaskFacts
<1>4. /\ r \in Runs /\ runs[r] \in RunType /\ Stacked(runs[r]) /\ runs[r].stack # <<>>
  BY <1>1, <1>2, <1>3, AtTheTask
<1>5. waits' = waits /\ requests' = requests /\ log' = log /\ Group[name].type = "IF" BY <1>3 DEF IfNot
<1>6. CASE /\ "false" \in Task.check
           /\ runs' = [runs EXCEPT ![R] = At(@)] /\ GoesOn([active.call EXCEPT !.at = @ + 1])
           /\ timers' = timers
  <2>1. PICK more : more = <<>> OBVIOUS
  <2>2. log[r] \in Logs BY <1>1, <1>4
  <2>3. more \in Logs /\ log[r] = log[r] \o more BY <2>1, <2>2, LogFacts, DoesIs
  <2>4. Does(more, "next") \in Ways[name]
    <3>1. Nothing \subseteq Ways[name] BY <1>3, <1>5, <1>6, TaskHas
    <3> QED BY <2>1, <3>1, NothingFacts
  <2>5. log' \in [Runs -> Logs] /\ log'[r] = log[r] \o more /\ \A q \in Runs : q # r => log'[q] = log[q]
    BY <1>1, <1>5, <2>3
  <2> QED BY <1>1, <1>2, <1>5, <1>6, <2>3, <2>4, <2>5, NextTaskTold
<1>7. CASE "throws" \in Task.check /\ BreakTaskList(ExitAction(runs[R]))
  <2>1. PICK made, left : made = ExitAction(runs[r]) /\ left = "exit" OBVIOUS
  <2>2. Proceeds(runs[r], made) BY <1>4, <2>1, PopToAndCallProceeds DEF ExitAction
  <2>3. BreakTaskList(made) BY <1>2, <1>7, <2>1 DEF R
  <2>4. made = UnwindTo(runs[r], Goal(runs[r].stack, Len(runs[r].stack), left)) BY <1>4, <2>1, GoalOf
  <2>5. left \in Lefts \ {"next"} BY <2>1 DEF Lefts
  <2>6. Does(<<>>, left) \in Ways[name] BY <1>3, <1>5, <1>7, <2>1, TaskHas
  <2> QED BY <1>1, <1>2, <1>5, <1>7, <2>1, <2>2, <2>3, <2>4, <2>5, <2>6, OutTold
<1> QED BY <1>6, <1>7 DEF IfNot

LEMMA LeaveTold ==
  ASSUME Plain, Meant(Ways), TInv, AtTask, Leave
  PROVE  TInv'
<1>1. IInv /\ IInv' BY LeaveKeeps DEF TInv
<1>2. PICK r, call, name : r = active.run /\ call = active.call /\ name = TaskList.tasks[active.call.at] OBVIOUS
<1>3. r # None /\ name \in DOMAIN Group /\ name \in GroupsOf[runs[r].script] /\ Task = Group[name]
  BY <1>1, <1>2, TaskFacts
<1>4. /\ r \in Runs /\ runs[r] \in RunType /\ Stacked(runs[r]) /\ runs[r].stack # <<>>
      /\ runs[r].script \in DOMAIN Script /\ call.do = "tasks"
  BY <1>1, <1>2, <1>3, AtTheTask
<1>5. Follows(runs[r], log[r], call) BY <1>2, <1>3, TaskHere
<1>6. waits' = waits /\ requests' = requests /\ log' = log BY DEF Leave
<1>7. ASSUME NEW made, NEW left \in Lefts \ {"next"}, Does(<<>>, left) \in Ways[name], Group[name].type # "step",
             made = UnwindTo(runs[r], Goal(runs[r].stack, Len(runs[r].stack), left)), Proceeds(runs[r], made),
             BreakTaskList(made)
      PROVE  TInv'
  BY <1>1, <1>2, <1>6, <1>7, OutTold
<1>8. /\ "break" \in Lefts \ {"next"} /\ "breakcontrolgroup" \in Lefts \ {"next"}
      /\ "return" \in Lefts \ {"next"} /\ "exit" \in Lefts \ {"next"}
  BY DEF Lefts
<1>9. Group[name].type \in {"break", "breakcontrolgroup", "return", "exit"} =>
        Does(<<>>, Group[name].type) \in Ways[name]
  BY <1>3, TaskHas
<1>10. CASE Task.type = "break" /\ BreakTaskList(PopAndCall(runs[R]))
  <2>1. PICK made, left : made = PopAndCall(runs[r]) /\ left = "break" OBVIOUS
  <2>2. Proceeds(runs[r], made) BY <1>4, <2>1, PopAndCallProceeds
  <2>3. BreakTaskList(made) BY <1>2, <1>10, <2>1 DEF R
  <2>4. made = UnwindTo(runs[r], Goal(runs[r].stack, Len(runs[r].stack), left)) BY <1>4, <2>1, GoalOf
  <2> QED BY <1>3, <1>7, <1>8, <1>9, <1>10, <2>1, <2>2, <2>3, <2>4
<1>11. CASE Task.type = "breakcontrolgroup" /\ BreakTaskList(PopToAndCall(runs[R], "controlGroup"))
  <2>1. PICK made, left : made = PopToAndCall(runs[r], "controlGroup") /\ left = "breakcontrolgroup" OBVIOUS
  <2>2. Proceeds(runs[r], made) BY <1>4, <2>1, PopToAndCallProceeds
  <2>3. BreakTaskList(made) BY <1>2, <1>11, <2>1 DEF R
  <2>4. made = UnwindTo(runs[r], Goal(runs[r].stack, Len(runs[r].stack), left)) BY <1>4, <2>1, GoalOf
  <2> QED BY <1>3, <1>7, <1>8, <1>9, <1>11, <2>1, <2>2, <2>3, <2>4
<1>12. PICK made, left : made = PopToAndCall(runs[r], "action") /\ left = "return" OBVIOUS
<1>13. Proceeds(runs[r], made) BY <1>4, <1>12, PopToAndCallProceeds
<1>14. made = UnwindTo(runs[r], Goal(runs[r].stack, Len(runs[r].stack), left)) BY <1>4, <1>12, GoalOf
<1>15. CASE Task.type = "return" /\ BreakTaskList(PopToAndCall(runs[R], "action"))
  <2>1. BreakTaskList(made) BY <1>2, <1>12, <1>15 DEF R
  <2> QED BY <1>3, <1>7, <1>8, <1>9, <1>12, <1>13, <1>14, <1>15, <2>1
<1>16. CASE Task.type = "retry" /\ BreakTaskList(Retry(runs[R]))
  <2>1. Task.name = runs[r].script BY <1>3, <1>4, <1>16 DEF Plain
  <2>2. Retry(runs[r]) = made BY <1>4, <1>5, <1>12, <2>1, RetryFollows
  <2>3. BreakTaskList(made) BY <1>2, <1>16, <2>2 DEF R
  <2>4. Does(<<>>, left) \in Ways[name] BY <1>3, <1>12, <1>16, TaskHas
  <2> QED BY <1>3, <1>7, <1>8, <1>12, <1>13, <1>14, <1>16, <2>3, <2>4
<1>17. CASE /\ Task.type \in {"exit", "reload", "breakcheck"}
            /\ BreakTaskList(ExitAction(runs[R])) \/ BreakTaskList(PopToAndCall(runs[R], "check"))
  <2>1. PICK all, out : /\ all \in {ExitAction(runs[r]), PopToAndCall(runs[r], "check")} /\ BreakTaskList(all)
                        /\ out = "exit"
    BY <1>2, <1>17 DEF R
  <2>2. Proceeds(runs[r], all) BY <1>4, <2>1, PopToAndCallProceeds DEF ExitAction
  <2>3. all = UnwindTo(runs[r], Goal(runs[r].stack, Len(runs[r].stack), out)) BY <1>4, <2>1, GoalOf
  <2>4. Does(<<>>, out) \in Ways[name] BY <1>3, <1>17, <2>1, TaskHas
  <2> QED BY <1>3, <1>7, <1>8, <1>17, <2>1, <2>2, <2>3, <2>4
<1> QED BY <1>10, <1>11, <1>15, <1>16, <1>17 DEF Leave, Breaks, Returns, Exits, Reloads

(* The tasks that push.                                                     *)
LEMMA TaskGroupTold ==
  ASSUME Plain, Meant(Ways), TInv, AtTask, TaskGroup
  PROVE  TInv'
<1>1. PICK r, call, name, first, after :
        /\ r = active.run /\ call = active.call /\ name = TaskList.tasks[active.call.at]
        /\ first = Tasks(name, 1, 1) /\ after = After
  OBVIOUS
<1>2. IInv /\ IInv' BY TaskGroupKeeps DEF TInv
<1>3. r # None /\ name \in DOMAIN Group /\ name \in GroupsOf[runs[r].script] /\ Task = Group[name]
  BY <1>1, <1>2, TaskFacts
<1>4. /\ runs[r] \in RunType /\ Stacked(runs[r]) /\ runs[r].stack # <<>> /\ call.do = "tasks"
  BY <1>1, <1>2, <1>3, AtTheTask
<1>5. /\ after \in CallType /\ after.do = "tasks" /\ after.by = "script" /\ Fits(after, runs[r].script)
      /\ after.of = call.of /\ after.list = call.list /\ after.at = call.at + 1
  BY <1>1, <1>2, <1>3, PlaceFacts
<1>6. PushFits(runs[r], after, "taskGroup") BY <1>4, <1>5 DEF PushFits
<1>7. first \in CallType /\ first.do = "tasks" /\ first.by = "script" /\ Fits(first, runs[r].script)
  BY <1>1, <1>3, CallKinds DEF Fits
<1>8. PICK made : made = PushAndCall(runs[r], first, after, "taskGroup") OBVIOUS
<1>9. Proceeds(runs[r], made) /\ made.calls = <<first>>
  BY <1>4, <1>6, <1>7, <1>8, PushAndCallProceeds DEF PushAndCall, Made
<1>10. BreakTaskList(made) /\ waits' = waits /\ requests' = requests /\ log' = log
  BY <1>1, <1>8 DEF TaskGroup, R
<1>11. Group[name].type \in {"task", "IF"} /\ OfGroup(name, Ways) \subseteq Ways[name]
  BY <1>3, TaskHas DEF TaskGroup
<1>12. PICK count, script : count = runs[r].taskListRepeatCount /\ script = runs[r].script OBVIOUS
<1>13. /\ count = 0 /\ SomeWays(Left(after, script, count)) /\ Starts(after, count)
       /\ Then(Ways[name], Left(after, script, count)) \subseteq Left(call, script, count)
  BY <1>1, <1>5, <1>11, <1>12, TaskNow
<1>14. log[r] \in Logs /\ Follows(runs[r], log[r], call) BY <1>1, <1>3, TaskHere
<1>15. Settled(made.run, log[r], first)
  <2>1. LET made2 == PushAndCall(runs[r], Tasks(name, 1, 1), after, "taskGroup") IN
           Settled(made2.run, log[r], Tasks(name, 1, 1))
    BY <1>3, <1>4, <1>5, <1>11, <1>12, <1>13, <1>14, GroupFollows
  <2> QED BY <1>1, <1>8, <2>1
<1>16. Settled(made.run, log[r], made.calls[Len(made.calls)]) BY <1>9, <1>15
<1> QED BY <1>1, <1>2, <1>3, <1>9, <1>10, <1>16, BreakTold

LEMMA RunActionTold ==
  ASSUME Plain, Meant(Ways), TInv, AtTask, RunAction
  PROVE  TInv'
<1>1. PICK r, call, name, script, here, after :
        /\ r = active.run /\ call = active.call /\ name = TaskList.tasks[active.call.at]
        /\ script = Task.script /\ here = Here /\ after = After
  OBVIOUS
<1>2. IInv /\ IInv' BY RunActionKeeps DEF TInv
<1>3. r # None /\ name \in DOMAIN Group /\ name \in GroupsOf[runs[r].script] /\ Task = Group[name]
  BY <1>1, <1>2, TaskFacts
<1>4. Group[name].type = "action" /\ script = Group[name].script BY <1>1, <1>3 DEF RunAction
<1>5. script \in DOMAIN Script /\ None \notin DOMAIN Script BY <1>3, <1>4, ScriptAssumption
<1>6. /\ runs[r] \in RunType /\ Stacked(runs[r]) /\ runs[r].stack # <<>>
      /\ runs[r].script \in DOMAIN Script /\ call.do = "tasks"
  BY <1>1, <1>2, <1>3, AtTheTask
<1>7. /\ here \in CallType
      /\ after \in CallType /\ after.do = "tasks" /\ after.by = "script" /\ Fits(after, runs[r].script)
      /\ after.of = call.of /\ after.list = call.list /\ after.at = call.at + 1
  BY <1>1, <1>2, <1>3, PlaceFacts
<1>8. PICK at : at = At(runs[r]) OBVIOUS
<1>9. /\ at \in RunType /\ at.stack = runs[r].stack /\ at.script = runs[r].script
      /\ at.live = runs[r].live /\ at.parent = runs[r].parent
      /\ at.parallelCount = runs[r].parallelCount /\ at.scriptHead = runs[r].scriptHead
      /\ at.taskListRepeatCount = runs[r].taskListRepeatCount
  BY <1>1, <1>6, <1>7, <1>8 DEF At, RunType
<1>10. Stacked(at) BY <1>6, <1>9 DEF Stacked
<1>11. PushFits(at, after, "action") BY <1>6, <1>7, <1>9 DEF PushFits
<1>12. PICK made : made = Entered(at, script, after, "action", "actionHead") OBVIOUS
<1>13. Proceeds(at, made) /\ made.calls = <<Call("params")>>
  <2>1. "actionHead" \in {"action", "actionHead"} OBVIOUS
  <2> QED BY <1>5, <1>7, <1>9, <1>10, <1>11, <1>12, <2>1, EnteredProceeds
<1>14. Proceeds(runs[r], made) BY <1>9, <1>13 DEF Proceeds
<1>15. BreakTaskList(made) /\ waits' = waits /\ requests' = requests /\ log' = log
  BY <1>1, <1>8, <1>12 DEF RunAction, R
<1>16. script # runs[r].script BY <1>3, <1>4, <1>6 DEF Plain
<1>17. PICK count : count = runs[r].taskListRepeatCount OBVIOUS
<1>18. /\ count = 0 /\ SomeWays(Left(after, at.script, count)) /\ Starts(after, count)
       /\ Then(Ways[name], Left(after, at.script, count)) \subseteq Left(call, at.script, count)
  BY <1>1, <1>4, <1>7, <1>17, TaskNow
<1>19. log[r] \in Logs /\ Follows(at, log[r], call)
  <2>1. log[r] \in Logs /\ Follows(runs[r], log[r], call) BY <1>1, <1>3, TaskHere
  <2> QED BY <1>9, <2>1, SameFollows
<1>20. Settled(made.run, log[r], Call("params"))
  <2>1. LET made2 == Entered(at, script, after, "action", "actionHead") IN
          Settled(made2.run, log[r], Call("params"))
    BY <1>3, <1>4, <1>5, <1>6, <1>7, <1>9, <1>10, <1>11, <1>16, <1>17, <1>18, <1>19, ActionFollows
  <2> QED BY <1>12, <2>1
<1>21. Settled(made.run, log[r], made.calls[Len(made.calls)]) BY <1>13, <1>20
<1> QED BY <1>1, <1>2, <1>3, <1>14, <1>15, <1>21, BreakTold

LEMMA WaitTold ==
  ASSUME Ordinary, Plain, Meant(Ways), TInv, AtTask, Wait
  PROVE  TInv'
<1>1. PICK r, call, name, here, after :
        /\ r = active.run /\ call = active.call /\ name = TaskList.tasks[active.call.at]
        /\ here = Here /\ after = After
  OBVIOUS
<1>2. IInv /\ IInv' /\ Types /\ log \in [Runs -> Logs] BY WaitKeeps DEF TInv, IInv
<1>3. r # None /\ name \in DOMAIN Group /\ Task = Group[name] BY <1>1, <1>2, TaskFacts
<1>4. /\ r \in Runs /\ Live(r) /\ runs[r] \in RunType /\ Stacked(runs[r]) /\ runs[r].stack # <<>>
      /\ call.do = "tasks" /\ Elsewhere(r, timers) /\ r \notin requests /\ runs[r].parallelCount = 0
  BY <1>1, <1>2, <1>3, AtTheTask
<1>5. /\ here \in CallType /\ after \in CallType /\ after.do = "tasks"
      /\ after.of = call.of /\ after.list = call.list /\ after.at = call.at + 1
  BY <1>1, <1>2, <1>3, PlaceFacts
<1>6. PICK at, next, wait : /\ at = At(runs[r]) /\ next = [after EXCEPT !.by = "stack"]
                            /\ wait = [run |-> r, call |-> next]
  OBVIOUS
<1>7. /\ at \in RunType /\ at.stack = runs[r].stack /\ at.script = runs[r].script
      /\ at.live = runs[r].live /\ at.scriptHead = runs[r].scriptHead
      /\ at.parallelCount = runs[r].parallelCount
      /\ at.taskListRepeatCount = runs[r].taskListRepeatCount
  BY <1>1, <1>4, <1>5, <1>6 DEF At, RunType
<1>8. next.do = "tasks" /\ next.of = call.of /\ next.list = call.list /\ next.at = call.at + 1
  BY <1>5, <1>6 DEF CallType
<1>9. wait.run = r /\ wait.call = next BY <1>6
<1>10. /\ waits' \in {waits, waits \union {wait}} /\ requests' = requests /\ log' = log
       /\ active' = Idle /\ runs' = [runs EXCEPT ![r] = at]
  BY <1>1, <1>6 DEF Wait, R, BreakTaskList, Leaves, Made
<1>11. timers' = timers
  <2>1. timers \in Seq(ComingType) BY <1>2 DEF Types
  <2>2. For(R, <<>>) = <<>> BY DEF For
  <2>3. timers' = timers \o For(R, <<>>) BY DEF Wait, BreakTaskList, Leaves, Made
  <2> QED BY <2>1, <2>2, <2>3
<1>12. None \notin Runs \union RunType /\ Idle.run = None BY ScriptAssumption DEF Idle
<1>13. runs'[r] = at /\ \A q \in Runs : q # r => runs'[q] = runs[q] BY <1>2, <1>4, <1>10 DEF Types
<1>14. Placed(r)' /\ Live(r)' BY <1>2, <1>4, <1>7, <1>12, <1>13 DEF IInv, Live
<1>15. wait \in waits'
  <2>1. PICK mode \in Modes : Stands(r, mode)' BY <1>14 DEF Placed
  <2>2. Off(timers', r) /\ r \notin requests' /\ active'.run # r /\ runs'[r].parallelCount = 0
    BY <1>4, <1>7, <1>10, <1>11, <1>12, <1>13 DEF Elsewhere
  <2>3. mode # "request" /\ mode # "task" /\ mode # "branches"
    BY <2>1, <2>2 DEF Stands, InRequest, InTask, InBranches
  <2>4. mode # "timer" BY <2>1, <2>2 DEF Stands, InTimer, Comes, Off
  <2>5. InWait(r)' BY <2>1, <2>3, <2>4 DEF Stands, Modes
  <2>6. \E other \in waits' : other.run = r BY <2>5 DEF InWait
  <2>7. waits' # waits BY <1>4, <2>6 DEF Elsewhere
  <2> QED BY <1>10, <2>7
<1>16. PICK count, script : count = runs[r].taskListRepeatCount /\ script = runs[r].script OBVIOUS
<1>17. Group[name].type = "wait" BY <1>3 DEF Wait
<1>18. /\ count = 0 /\ SomeWays(Left(next, script, count)) /\ Starts(next, count)
       /\ Then(Ways[name], Left(next, script, count)) \subseteq Left(call, script, count)
  BY <1>1, <1>8, <1>16, <1>17, TaskNow
<1>19. log[r] \in Logs /\ Follows(runs[r], log[r], call) BY <1>1, <1>3, TaskHere
<1>20. PICK more : more = <<>> OBVIOUS
<1>21. more \in Logs /\ log[r] \o more = log[r] BY <1>19, <1>20, LogFacts, DoesIs
<1>22. Does(more, "next") \in Ways[name] BY <1>3, <1>17, <1>20, TaskHas, NothingFacts
<1>23. Follows(runs[r], log[r] \o more, next)
  BY <1>4, <1>8, <1>16, <1>18, <1>19, <1>21, <1>22, DoneFollows
<1>24. Settled(runs[r], log[r], next) BY <1>16, <1>18, <1>21, <1>23 DEF Settled
<1>25. Settled(at, log[r], next) BY <1>7, <1>24, SameFollows
<1>26. \E other \in waits' : other.run = r /\ Settled(runs'[r], log'[r], other.call)
  BY <1>9, <1>10, <1>13, <1>15, <1>25
<1>27. Told(r)' BY <1>14, <1>26, ToldAt
<1>28. \A q \in Runs : q \notin {r} => Undisturbed(q) /\ log'[q] = log[q]
  BY <1>1, <1>9, <1>10, <1>11, <1>12, <1>13, SameKeeps DEF Undisturbed
<1>29. \A q \in Runs : q \in {r} => Told(q)' BY <1>27
<1>30. log' \in [Runs -> Logs] BY <1>2, <1>10
<1> QED BY <1>2, <1>28, <1>29, <1>30, OthersTold

(* parallel: branches start, and the run goes on when they are joined.      *)
LEMMA ParallelTold ==
  ASSUME Ordinary, Plain, Meant(Ways), TInv, AtTask, Parallel
  PROVE  TInv'
<1>1. PICK r, call, name, here, after :
        /\ r = active.run /\ call = active.call /\ name = TaskList.tasks[active.call.at]
        /\ here = Here /\ after = After
  OBVIOUS
<1>2. /\ IInv /\ IInv' /\ Types /\ log \in [Runs -> Logs] /\ \A q \in Runs : Placed(q) /\ Told(q)
  BY ParallelKeeps DEF TInv, IInv
<1>3. r # None /\ name \in DOMAIN Group /\ Task = Group[name] BY <1>1, <1>2, TaskFacts
<1>4. /\ r \in Runs /\ Live(r) /\ runs[r] \in RunType /\ runs[r].parallelCount = 0 /\ call.do = "tasks"
  BY <1>1, <1>2, <1>3, AtTheTask
<1>5. here \in CallType /\ here.do = "tasks"
      /\ here.of = call.of /\ here.list = call.list /\ here.at = call.at
  <2>1. here \in CallType BY <1>1, <1>2, <1>3, PlaceFacts
  <2> QED BY <1>1, <2>1 DEF Here, Tasks
<1>6. /\ active' = Idle /\ active.run = r /\ waits' = waits /\ requests' = requests /\ log' = log
  BY <1>1 DEF Parallel
<1>7. None \notin Runs \union RunType /\ Idle.run = None BY ScriptAssumption DEF Idle
<1>8. PICK B, n :
        /\ n \in Nat \ {0} /\ r \notin B /\ (\A b \in B : b \in Runs /\ runs[b] = None)
        /\ \A b \in B : \E script : Branch(r, b, script)
        /\ runs'[r] = [At(runs[r]) EXCEPT !.parallelCount = @ + n]
        /\ \A q \in Runs : q # r /\ q \notin B => runs'[q] = runs[q]
        /\ \A q : q \notin B => KeepsFor(timers, timers', q)
  BY <1>1, <1>2, ParallelStarts
<1>9. ASSUME NEW b \in B PROVE Told(b)'
  <2>1. b \in Runs /\ runs[b] = None BY <1>8
  <2>2. PICK script : Branch(r, b, script) BY <1>8
  <2>3. PICK run, made : run = NewRun(script, r) /\ made = Entered(run, script, Call("ends"), "", "action")
    OBVIOUS
  <2>4. script \in DOMAIN Script /\ runs'[b] = made.run /\ Comes(timers', b, Call("params"))
    BY <2>2, <2>3 DEF Branch
  <2>5. Settled(made.run, <<>>, Call("params")) BY <1>4, <2>3, <2>4, StartFollows
  <2>6. ~Live(b) BY <2>1 DEF Live
  <2>7. log[b] = <<>> BY <1>2, <2>1, <2>6 DEF Told
  <2>8. Settled(runs'[b], log'[b], Call("params")) BY <1>6, <2>4, <2>5, <2>7
  <2>9. made.run \in RunType /\ made.run.live
    <3>1. Launched(script, r, run, made) BY <2>3 DEF Launched
    <3>2. r \in Runs \union {None} BY <1>4
    <3> QED BY <2>4, <3>1, <3>2, StartProceeds
  <2>10. Placed(b)' /\ Live(b)' BY <1>2, <1>7, <2>1, <2>4, <2>9 DEF IInv, Live
  <2> QED BY <2>4, <2>8, <2>10, ToldAt
<1>10. PICK at, waiting : at = At(runs[r]) /\ waiting = [at EXCEPT !.parallelCount = @ + n] OBVIOUS
<1>11. /\ runs'[r] = waiting /\ waiting \in RunType
       /\ waiting.stack = runs[r].stack /\ waiting.script = runs[r].script
       /\ waiting.scriptHead = runs[r].scriptHead
       /\ waiting.taskListRepeatCount = runs[r].taskListRepeatCount
       /\ waiting.live = runs[r].live /\ waiting.parallelCount = n /\ waiting.currentTask = here
  <2>1. /\ at \in RunType /\ at.stack = runs[r].stack /\ at.script = runs[r].script
        /\ at.scriptHead = runs[r].scriptHead /\ at.taskListRepeatCount = runs[r].taskListRepeatCount
        /\ at.live = runs[r].live /\ at.parallelCount = 0 /\ at.currentTask = here
    BY <1>1, <1>4, <1>5, <1>10 DEF At, RunType
  <2> QED BY <1>8, <1>10, <2>1 DEF RunType
<1>12. PICK next : next = [here EXCEPT !.at = @ + 1] OBVIOUS
<1>13. next.do = "tasks" /\ next.of = call.of /\ next.list = call.list /\ next.at = call.at + 1
  BY <1>5, <1>12 DEF CallType
<1>14. PICK count, script : count = runs[r].taskListRepeatCount /\ script = runs[r].script OBVIOUS
<1>15. Group[name].type = "parallel" BY <1>3 DEF Parallel
<1>16. /\ count = 0 /\ SomeWays(Left(next, script, count)) /\ Starts(next, count)
       /\ Then(Ways[name], Left(next, script, count)) \subseteq Left(call, script, count)
  BY <1>1, <1>13, <1>14, <1>15, TaskNow
<1>17. log[r] \in Logs /\ Follows(runs[r], log[r], call) BY <1>1, <1>3, TaskHere
<1>18. PICK more : more = <<"joined">> OBVIOUS
<1>19. Does(more, "next") \in Ways[name] BY <1>3, <1>15, <1>18, TaskHas
<1>20. more \in Logs
  <2>1. SomeWays(Ways[name]) BY <1>3, TaskHas
  <2>2. Does(more, "next") \in WaysOut(Lefts) BY <1>19, <2>1 DEF SomeWays
  <2> QED BY <2>2, DoesIs
<1>21. Follows(runs[r], log[r] \o more, next)
  BY <1>4, <1>13, <1>14, <1>16, <1>17, <1>19, <1>20, DoneFollows
<1>22. Append(log[r], "joined") = log[r] \o more BY <1>17, <1>18 DEF Logs
<1>23. Settled(runs[r], Append(log[r], "joined"), next)
  BY <1>14, <1>16, <1>21, <1>22 DEF Settled
<1>24. Settled(waiting, Append(log[r], "joined"), next) BY <1>11, <1>23, SameFollows
<1>25. BranchesTold(r)' BY <1>6, <1>11, <1>12, <1>24 DEF BranchesTold
<1>26. Placed(r)' /\ Live(r)' BY <1>2, <1>4, <1>7, <1>11 DEF IInv, Live
<1>27. runs'[r].parallelCount > 0
  <2>1. n > 0 BY <1>8
  <2> QED BY <1>11, <2>1
<1>28. Told(r)' BY <1>25, <1>26, <1>27, ToldAt
<1>29. PICK S : S = {r} \union B OBVIOUS
<1>30. \A q \in Runs : q \in S => Told(q)' BY <1>9, <1>28, <1>29
<1>31. \A q \in Runs : q \notin S => Undisturbed(q) /\ log'[q] = log[q]
  BY <1>6, <1>7, <1>8, <1>29 DEF Undisturbed
<1>32. log' \in [Runs -> Logs] BY <1>2, <1>6
<1> QED BY <1>2, <1>30, <1>31, <1>32, OthersTold

(* All runs, at first and after each step.                                  *)
LEMMA InitTold ==
  ASSUME Init
  PROVE  TInv
<1>1. IInv BY InitHolds
<1>2. /\ runs = [r \in Runs |-> None] /\ log = [r \in Runs |-> <<>>] BY DEF Init
<1>3. log \in [Runs -> Logs] BY <1>2, DoesIs
<1>4. ASSUME NEW r \in Runs PROVE Told(r)
  <2>1. runs[r] = None /\ log[r] = <<>> BY <1>2
  <2>2. ~Live(r) BY <2>1 DEF Live
  <2> QED BY <2>1, <2>2 DEF Told
<1> QED BY <1>1, <1>3, <1>4 DEF TInv

LEMMA NextTold ==
  ASSUME Ordinary, Plain, Meant(Ways), TInv, [Next]_vars
  PROVE  TInv'
<1>1. CASE Fire BY <1>1, FireTold
<1>2. CASE EndOfList /\ UNCHANGED <<waits, requests, locked, log>> BY <1>2, EndOfListTold
<1>3. CASE AtTask /\ Step BY <1>3, StepTold
<1>4. CASE AtTask /\ TaskGroup BY <1>4, TaskGroupTold
<1>5. CASE AtTask /\ IfNot BY <1>5, IfNotTold
<1>6. CASE AtTask /\ RunAction BY <1>6, RunActionTold
<1>7. CASE AtTask /\ Leave BY <1>7, LeaveTold
<1>8. CASE AtTask /\ Wait BY <1>8, WaitTold
<1>9. CASE AtTask /\ Parallel BY <1>9, ParallelTold
<1>10. ASSUME NEW wait \in waits, WaitEnds(wait) PROVE TInv' BY <1>10, WaitEndsTold
<1>11. ASSUME NEW r \in Runs, Answered(r) PROVE TInv' BY <1>11, AnsweredTold
<1>12. CASE Unlock BY <1>12, UnlockTold
<1>13. ASSUME NEW r \in Runs, CallAction(r) PROVE TInv' BY <1>13, CallActionTold
<1>14. CASE UNCHANGED vars
  <2>1. /\ runs' = runs /\ timers' = timers /\ waits' = waits /\ requests' = requests
        /\ active' = active /\ locked' = locked /\ log' = log
    BY <1>14 DEF vars
  <2>2. IInv /\ IInv' /\ log \in [Runs -> Logs] BY NextKeeps DEF TInv
  <2>3. PICK S : S = {} OBVIOUS
  <2>4. \A q \in Runs : q \notin S => Undisturbed(q) /\ log'[q] = log[q]
    BY <2>1, SameKeeps DEF Undisturbed
  <2>5. \A q \in Runs : q \in S => Told(q)' BY <2>3
  <2>6. log' \in [Runs -> Logs] BY <2>1, <2>2
  <2> QED BY <2>2, <2>4, <2>5, <2>6, OthersTold
<1>15. CASE AtTask /\ (LockScreen \/ UnlockScreen) BY <1>15, LockTasksTold
<1> QED BY <1>1, <1>2, <1>3, <1>4, <1>5, <1>6, <1>7, <1>8, <1>9, <1>10, <1>11, <1>12, <1>13, <1>14, <1>15
     DEF Next, Works, TaskProcessor

(* What a live run still does, whichever way it goes on.                    *)
LEMMA LiveIsAsWritten ==
  ASSUME Plain, Meant(Ways), TInv, NEW r \in Runs, Live(r)
  PROVE  \E more \in Logs : log[r] \o more \in Begun(runs[r].scriptHead)
<1>1. /\ IInv /\ Types /\ log[r] \in Logs /\ Told(r) /\ Placed(r) BY DEF TInv, IInv
<1>2. /\ runs[r] \in RunType /\ Stacked(runs[r]) BY <1>1 DEF Placed, Types, Live
<1>3. PICK mode \in Modes : Stands(r, mode) BY <1>1 DEF Placed
<1>4. PICK head, stack : head = runs[r].scriptHead /\ stack = runs[r].stack OBVIOUS
<1>5. stack \in Seq(FrameType) /\ runs[r].taskListRepeatCount \in Nat BY <1>2, <1>4, RunFields
<1>6. PICK none, joined : none = <<>> /\ joined = <<"joined">> OBVIOUS
<1>7. none \in Logs /\ joined \in Logs /\ log[r] \o none = log[r] /\ log[r] \o joined = Append(log[r], "joined")
  BY <1>1, <1>6 DEF Logs
<1>8. ASSUME NEW call \in CallType, NEW more \in Logs, Ready(call, runs[r]), Follows(runs[r], log[r] \o more, call)
      PROVE  \E m \in Logs : log[r] \o m \in Begun(head)
  <2>1. PICK rest, done : rest = Left(call, runs[r].script, runs[r].taskListRepeatCount) /\ done = log[r] \o more
    OBVIOUS
  <2>2. call \in CallType /\ Fits(call, runs[r].script)
        /\ (call.do \in {"execute", "followOn", "tasks"} => runs[r].script \in DOMAIN Script)
    BY <1>2, <1>8 DEF Ready, Stacked
  <2>3. SomeWays(rest) BY <1>5, <2>1, <2>2, LeftWays
  <2>4. Accepts(head, stack, done, rest) BY <1>4, <1>8, <2>1 DEF Follows
  <2>5. done \in Logs BY <1>1, <2>1, LogFacts
  <2>6. done \in Begun(head) BY <1>5, <2>3, <2>4, <2>5, AcceptsBegun
  <2> QED BY <2>1, <2>6
<1>9. ASSUME NEW call \in CallType, Ready(call, runs[r]), Settled(runs[r], log[r], call)
      PROVE  \E m \in Logs : log[r] \o m \in Begun(head)
  <2>1. Follows(runs[r], log[r] \o none, call) BY <1>7, <1>9 DEF Settled
  <2> QED BY <1>7, <1>8, <1>9, <2>1
<1>10. CASE mode = "timer"
  <2>1. InTimer(r) BY <1>3, <1>10 DEF Stands
  <2>2. PICK call : Comes(timers, r, call) /\ Ready(call, runs[r]) BY <2>1 DEF InTimer
  <2>3. Settled(runs[r], log[r], call) BY <1>1, <2>2 DEF Told
  <2>4. PICK i \in DOMAIN timers : timers[i].call = call BY <2>2 DEF Comes
  <2>5. timers \in Seq(ComingType) BY <1>1 DEF Types
  <2>6. timers[i] \in ComingType BY <2>4, <2>5
  <2>7. call \in CallType BY <2>4, <2>6 DEF ComingType
  <2> QED BY <1>4, <1>9, <2>2, <2>3, <2>7
<1>11. CASE mode = "wait"
  <2>1. InWait(r) BY <1>3, <1>11 DEF Stands
  <2>2. PICK wait \in waits : wait.run = r /\ Ready(wait.call, runs[r]) BY <2>1 DEF InWait
  <2>3. Settled(runs[r], log[r], wait.call) BY <1>1, <2>2 DEF Told
  <2>4. wait.call \in CallType BY <1>1, <2>2 DEF Types, ComingType
  <2> QED BY <1>4, <1>9, <2>2, <2>3, <2>4
<1>12. CASE mode = "request"
  <2>1. r \in requests /\ InRequest(r) BY <1>3, <1>12 DEF Stands, InRequest
  <2>2. Settled(runs[r], log[r], Call("execute")) BY <1>1, <2>1 DEF Told
  <2>3. Ready(Call("execute"), runs[r]) BY <1>2, <2>1, CallKinds DEF InRequest, Ready, Fits
  <2> QED BY <1>4, <1>9, <2>2, <2>3, CallKinds
<1>13. CASE mode = "task"
  <2>1. active.run = r /\ InTask(r) BY <1>3, <1>13 DEF Stands, InTask
  <2>2. Ready(active.call, runs[r]) BY <2>1 DEF InTask
  <2>3. Follows(runs[r], log[r], active.call) BY <1>1, <2>1 DEF Told, TaskTold
  <2>4. Follows(runs[r], log[r] \o none, active.call) BY <1>7, <2>3
  <2>5. r # None BY ScriptAssumption
  <2>6. active \in ComingType BY <1>1, <2>1, <2>5 DEF Types, Idle
  <2>7. active.call \in CallType BY <2>6 DEF ComingType
  <2> QED BY <1>4, <1>7, <1>8, <2>2, <2>4, <2>7
<1>14. CASE mode = "branches"
  <2>1. runs[r].parallelCount > 0 /\ Ready(runs[r].currentTask, runs[r]) /\ runs[r].currentTask.do = "tasks"
    BY <1>3, <1>14 DEF Stands, InBranches
  <2>2. PICK here, next : here = runs[r].currentTask /\ next = [here EXCEPT !.at = @ + 1] OBVIOUS
  <2>3. Settled(runs[r], Append(log[r], "joined"), next) BY <1>1, <2>1, <2>2 DEF Told, BranchesTold
  <2>4. Follows(runs[r], log[r] \o joined, next) BY <1>7, <2>3 DEF Settled
  <2>5. here \in CallType /\ here.do = "tasks" BY <1>2, <2>1, <2>2 DEF RunType
  <2>6. /\ next \in CallType /\ next.do = "tasks" /\ next.of = here.of /\ next.list = here.list
        /\ next.at = here.at + 1
    BY <2>2, <2>5 DEF CallType
  <2>7. Ready(next, runs[r]) BY <2>1, <2>2, <2>5, <2>6 DEF Ready, Fits, CallType
  <2> QED BY <1>4, <1>7, <1>8, <2>4, <2>6, <2>7
<1> QED BY <1>3, <1>10, <1>11, <1>12, <1>13, <1>14 DEF Modes

(* So each run has done what its script says so far, or all of it.          *)
LEMMA ToldIsAsWritten ==
  ASSUME Plain, Meant(Ways), TInv
  PROVE  RunsAsWritten
<1> SUFFICES ASSUME NEW r \in Runs, runs[r] # None
             PROVE  \E way \in WaysOf[runs[r].scriptHead] :
                      IF Live(r) THEN IsPrefix(log[r], way.log) ELSE log[r] = way.log
  BY DEF RunsAsWritten
<1>1. /\ Types /\ log[r] \in Logs /\ Told(r) BY DEF TInv, IInv
<1>2. PICK head : head = runs[r].scriptHead OBVIOUS
<1>3. head \in DOMAIN Script BY <1>1, <1>2 DEF Types, RunType
<1>4. WaysOf[head] = OfScript(head, Ways) BY <1>3 DEF WaysOf
<1>5. CASE Live(r)
  <2>1. PICK more \in Logs : log[r] \o more \in Begun(head) BY <1>2, <1>5, LiveIsAsWritten
  <2>2. log[r] \in Begun(head) BY <1>1, <2>1, BegunFacts
  <2>3. PICK later \in Logs : log[r] \o later \in Whole(head) BY <2>2 DEF Begun
  <2>4. PICK way \in OfScript(head, Ways) : way.log = log[r] \o later BY <2>3 DEF Whole
  <2>5. IsPrefix(log[r], way.log)
    <3>1. PICK done : done = log[r] OBVIOUS
    <3>2. done \in Seq(DOMAIN Group \union {"joined"}) /\ later \in Seq(DOMAIN Group \union {"joined"})
      BY <1>1, <3>1 DEF Logs
    <3>3. Len(done) <= Len(done \o later) /\ SubSeq(done, 1, Len(done)) = SubSeq(done \o later, 1, Len(done))
      BY <3>2
    <3> QED BY <2>4, <3>1, <3>3 DEF IsPrefix
  <2> QED BY <1>2, <1>4, <1>5, <2>4, <2>5
<1>6. CASE ~Live(r)
  <2>1. log[r] \in Whole(head) BY <1>1, <1>2, <1>6 DEF Told
  <2>2. PICK way \in OfScript(head, Ways) : way.log = log[r] BY <2>1 DEF Whole
  <2> QED BY <1>2, <1>4, <1>6, <2>2
<1> QED BY <1>5, <1>6

(* Runs of plain scripts go on with what is left of their scripts: whatever *)
(* the stack then unwinds to, in the end they will have done one of the     *)
(* things that the script can mean.                                         *)
THEOREM RunsTold == \A depth : Ordinary /\ Plain /\ Finite(depth) => (Spec => []TInv)
<1> SUFFICES ASSUME NEW CONSTANT depth, Ordinary, Plain, Finite(depth) PROVE Spec => []TInv OBVIOUS
<1>1. Meant(Ways) BY WaysMeant
<1>2. Init => TInv BY InitTold
<1>3. TInv /\ [Next]_vars => TInv' BY <1>1, NextTold
<1> QED BY <1>2, <1>3, PTL DEF Spec

(* Timers, frames and flags carry out every plain script as it is written:  *)
(* what a run has logged begins something that its script can mean, and is  *)
(* all of it when the run has ended.  A script is not plain if it assigns a *)
(* parameter after a wait of the same group, which the code fails to do,    *)
(* unless that task is written down as one that fails.                      *)
THEOREM AsWritten == \A depth : Ordinary /\ Plain /\ Finite(depth) => (Spec => []RunsAsWritten)
<1> SUFFICES ASSUME NEW CONSTANT depth, Ordinary, Plain, Finite(depth) PROVE Spec => []RunsAsWritten OBVIOUS
<1>1. Meant(Ways) BY WaysMeant
<1>2. Spec => []TInv BY RunsTold
<1>3. TInv => RunsAsWritten BY <1>1, ToldIsAsWritten
<1> QED BY <1>2, <1>3, PTL
===============================================================================
