-------------------------- MODULE GitProvider_proofs --------------------------
(***************************************************************************)
(* A change that is served and unreported has one of the three causes the    *)
(* model names, for any repository, any number of tasks and any schedule.    *)
(***************************************************************************)
EXTENDS GitProvider, TLAPS

\* Watch waits for a task exactly while it waits or notifies.
LoopOwnsTask ==
    /\ loop \in {"wait", "notify"} <=> current # NoTask
    /\ loop = "notify" => pc[current] = "done"

\* What is unreported can be listed.
DirtyIsPresent == dirty \subseteq Present(head)

IInv == TypeOK /\ LoopOwnsTask /\ DirtyIsPresent /\ UnreportedExplained
-------------------------------------------------------------------------------
USE FilesAssumption, TasksAssumption, BudgetAssumption

LEMMA SpendType ==
    ASSUME TypeOK, NEW k \in EventKinds, Spend(k)
    PROVE  budget' \in [EventKinds -> Nat]
  BY DEF TypeOK, Spend

LEMMA DiffType == \A old, new : Diff(old, new) \subseteq Present(new) /\ Present(new) \subseteq Files
  BY DEF Diff, Present

(***************************************************************************)
(* Type correctness.                                                         *)
(***************************************************************************)
LEMMA TaskTypeOK ==
    ASSUME TypeOK, NEW t \in Tasks, TaskStep(t)
    PROVE  TypeOK'
<1> USE DEF TypeOK, Goto, clone, tasks, history
<1>1. CASE Fetch(t)
  BY <1>1 DEF Fetch
<1>2. CASE Compare(t)
  BY <1>2, DiffType DEF Compare
<1>3. CASE UpdateLocal(t)
  BY <1>3 DEF UpdateLocal
<1>4. CASE FilterPaths(t)
  BY <1>4 DEF FilterPaths
<1>5. CASE FailTask(t)
  BY <1>5, SpendType DEF FailTask, Lose, EventKinds
<1> QED
  BY <1>1, <1>2, <1>3, <1>4, <1>5 DEF TaskStep

LEMMA WatchTypeOK ==
    ASSUME TypeOK, Watch
    PROVE  TypeOK'
<1> USE DEF TypeOK, Goto, Rest, Lose, clone, tasks, history
<1>1. ASSUME NEW t \in Tasks, StartTask(t) PROVE TypeOK'
  BY <1>1 DEF StartTask
<1>2. CASE TakeResult
  BY <1>2 DEF TakeResult
<1>3. CASE TakeFault
  BY <1>3 DEF TakeFault
<1>4. CASE TimeOut
  BY <1>4, SpendType DEF TimeOut, EventKinds
<1>5. CASE OnChange
  BY <1>5 DEF OnChange
<1>6. CASE FailOnChange
  BY <1>6, SpendType DEF FailOnChange, EventKinds
<1>7. CASE Delay
  BY <1>7 DEF Delay
<1>8. CASE Return
  BY <1>8 DEF Return
<1> QED
  BY <1>1, <1>2, <1>3, <1>4, <1>5, <1>6, <1>7, <1>8 DEF Watch

LEMMA StepTypeOK == TypeOK /\ [Next]_vars => TypeOK'
<1> SUFFICES ASSUME TypeOK, [Next]_vars PROVE TypeOK'
  OBVIOUS
<1>1. ASSUME NEW tree \in Trees, Commit(tree) PROVE TypeOK'
  BY <1>1, SpendType DEF TypeOK, Commit, EventKinds, clone, tasks, history
<1>2. CASE Cancel
  BY <1>2 DEF TypeOK, Cancel, clone, tasks, history
<1>3. CASE UNCHANGED vars
  BY <1>3 DEF TypeOK, vars, clone, tasks, history
<1> QED
  BY <1>1, <1>2, <1>3, TaskTypeOK, WatchTypeOK DEF Next

LEMMA InitTypeOK == Init => TypeOK
  BY DEF Init, TypeOK
-------------------------------------------------------------------------------
(***************************************************************************)
(* The step of a task: only the pull makes a file dirty.                     *)
(***************************************************************************)
LEMMA TaskExplained ==
    ASSUME IInv, NEW t \in Tasks, TaskStep(t)
    PROVE  LoopOwnsTask' /\ DirtyIsPresent' /\ UnreportedExplained'
<1> USE DEF IInv, TypeOK, LoopOwnsTask, DirtyIsPresent, UnreportedExplained, InFlight,
            Goto, clone, tasks, history
<1>1. CASE Fetch(t)
  BY <1>1 DEF Fetch
<1>2. CASE Compare(t)
  BY <1>2 DEF Compare
<1>3. CASE UpdateLocal(t)
  <2> DEFINE brought == Diff(head, remote) \cap Matching
  <2>1. /\ pc[t] = "pull" /\ pc' = [pc EXCEPT ![t] = "list"]
        /\ head' = remote /\ UNCHANGED <<loop, current, changed>>
        /\ dirty' = (dirty \cup brought) \cap Present(remote)
        /\ raced' = (raced \cup (brought \ changed[t])) \cap Present(remote)
        /\ dropped' = (dropped \cup IF t = current THEN {} ELSE brought \cap changed[t])
                        \cap Present(remote)
    BY <1>3 DEF UpdateLocal
  <2>2. InFlight \subseteq InFlight'
    BY <2>1
  <2>3. t = current => changed[t] \subseteq InFlight'
    BY <2>1
  <2>4. UnreportedExplained'
    <3> HIDE DEF brought, TypeOK, InFlight, IInv
    <3>1. dirty \subseteq InFlight \cup raced \cup dropped
      BY DEF IInv
    <3> QED
      BY <2>1, <2>2, <2>3, <3>1
  <2>5. LoopOwnsTask'
    BY <2>1
  <2> QED
    BY <2>1, <2>4, <2>5
<1>4. CASE FilterPaths(t)
  <2>1. dirty \subseteq ListPaths
    BY DEF ListPaths
  <2> QED
    BY <1>4, <2>1 DEF FilterPaths
<1>5. CASE FailTask(t)
  BY <1>5 DEF FailTask, Lose, Running
<1> QED
  BY <1>1, <1>2, <1>3, <1>4, <1>5 DEF TaskStep

(***************************************************************************)
(* The step of Watch: what it gives up it gives to dropped.                  *)
(***************************************************************************)
LEMMA WatchExplained ==
    ASSUME IInv, Watch
    PROVE  LoopOwnsTask' /\ DirtyIsPresent' /\ UnreportedExplained'
<1> USE DEF IInv, TypeOK, LoopOwnsTask, DirtyIsPresent, UnreportedExplained, InFlight,
            Goto, Rest, Lose, clone, tasks, history
<1>1. ASSUME NEW t \in Tasks, StartTask(t)
      PROVE  LoopOwnsTask' /\ DirtyIsPresent' /\ UnreportedExplained'
  BY <1>1 DEF StartTask
<1>2. CASE TakeResult
  BY <1>2 DEF TakeResult
<1>3. CASE TakeFault
  BY <1>3 DEF TakeFault
<1>4. CASE TimeOut
  BY <1>4 DEF TimeOut
<1>5. CASE OnChange
  BY <1>5 DEF OnChange
<1>6. CASE FailOnChange
  BY <1>6 DEF FailOnChange
<1>7. CASE Delay
  BY <1>7 DEF Delay
<1>8. CASE Return
  BY <1>8 DEF Return
<1> QED
  BY <1>1, <1>2, <1>3, <1>4, <1>5, <1>6, <1>7, <1>8 DEF Watch

LEMMA StepIInv == IInv /\ [Next]_vars => IInv'
<1> SUFFICES ASSUME IInv, [Next]_vars
             PROVE  LoopOwnsTask' /\ DirtyIsPresent' /\ UnreportedExplained'
  BY StepTypeOK DEF IInv
<1> USE DEF LoopOwnsTask, DirtyIsPresent, UnreportedExplained, InFlight
<1>1. ASSUME NEW tree \in Trees, Commit(tree)
      PROVE  LoopOwnsTask' /\ DirtyIsPresent' /\ UnreportedExplained'
  BY <1>1 DEF IInv, Commit, clone, tasks, history
<1>2. CASE Cancel
  BY <1>2 DEF IInv, Cancel, clone, tasks, history
<1>3. CASE UNCHANGED vars
  BY <1>3 DEF IInv, vars, clone, tasks, history
<1> QED
  BY <1>1, <1>2, <1>3, TaskExplained, WatchExplained DEF Next

LEMMA InductiveInvariant == Spec => []IInv
<1>1. Init => IInv
  BY InitTypeOK
     DEF Init, IInv, LoopOwnsTask, DirtyIsPresent, UnreportedExplained, InFlight
<1> QED
  BY <1>1, StepIInv, PTL DEF Spec

\* The provider keeps the types of its variables.
THEOREM TypeCorrect == Spec => []TypeOK
  BY InductiveInvariant, PTL DEF IInv

\* No change goes unreported but by a commit between fetch and pull, a listing
\* that was abandoned or failed, or an onChange that threw.
THEOREM UnreportedIsExplained == Spec => []UnreportedExplained
  BY InductiveInvariant, PTL DEF IInv

\* As long as no wait has timed out there is no task but the one Watch waits for, and
\* what that one has listed stays in the working directory.
OneTask ==
    /\ budget["timeout"] <= Budget["timeout"]
    /\ Punctual =>
          /\ loop \notin {"wait", "notify"} => Running = {}
          /\ loop \in {"wait", "notify"} =>
                /\ current \in Tasks /\ Running \subseteq {current}
                /\ pc[current] = "done" => changed[current] \subseteq ListPaths
          /\ loop = "notify" => pc[current] = "done"

\* Nothing but a wait that ends spends a timeout, and none comes back.
LEMMA PunctualStays ==
    ASSUME TypeOK, OneTask, [Next]_vars
    PROVE  /\ budget'["timeout"] <= Budget["timeout"]
           /\ Punctual' => Punctual /\ ~TimeOut
<1>1. /\ budget["timeout"] \in Nat /\ Budget["timeout"] \in Nat /\ "timeout" \in EventKinds
      /\ budget \in [EventKinds -> Nat]
    BY BudgetAssumption DEF TypeOK, EventKinds
<1>2. CASE TimeOut
    <2>1. budget'["timeout"] = budget["timeout"] - 1 /\ budget["timeout"] > 0
        BY <1>1, <1>2 DEF TimeOut, Spend
    <2>2. QED
        BY <1>1, <1>2, <2>1 DEF Punctual, OneTask
<1>3. CASE ~TimeOut
    <2>1. budget'["timeout"] = budget["timeout"]
        BY <1>1, <1>3 DEF Next, Commit, Cancel, TaskStep, Fetch, Compare, UpdateLocal, FilterPaths, FailTask,
            Watch, StartTask, TakeResult, TakeFault, OnChange, FailOnChange, Delay, Return, Spend, vars
    <2>2. QED
        BY <1>3, <2>1 DEF Punctual, OneTask
<1>4. QED
    BY <1>2, <1>3

LEMMA TaskOneTask ==
    ASSUME TypeOK, OneTask, Punctual, Punctual', NEW t \in Tasks, TaskStep(t)
    PROVE  /\ UNCHANGED <<loop, current>> /\ loop \in {"wait", "notify"} /\ t = current
           /\ Running' \subseteq {current} /\ loop # "notify"
           /\ pc'[current] = "done" => changed'[current] \subseteq ListPaths'
<1> USE DEF TypeOK
<1>1. t \in Running
    BY DEF TaskStep, Fetch, Compare, UpdateLocal, FilterPaths, FailTask, Running
<1>2. loop \in {"wait", "notify"} /\ t = current /\ loop # "notify"
    BY <1>1 DEF OneTask, Running
<1>3. /\ UNCHANGED <<loop, current>>
      /\ \A u \in Tasks \ {t} : pc'[u] = pc[u]
    BY DEF TaskStep, Fetch, Compare, UpdateLocal, FilterPaths, FailTask, Goto
<1>4. Running' \subseteq {current}
    BY <1>2, <1>3 DEF OneTask, Running
<1>5. pc'[current] = "done" => changed'[current] \subseteq ListPaths'
    BY <1>2 DEF TaskStep, Fetch, Compare, UpdateLocal, FilterPaths, FailTask, Goto, ListPaths, clone
<1>6. QED
    BY <1>2, <1>3, <1>4, <1>5

LEMMA StepOneTask == TypeOK /\ OneTask /\ [Next]_vars => OneTask'
<1> SUFFICES ASSUME TypeOK, OneTask, [Next]_vars, Punctual', Punctual, ~TimeOut
             PROVE  /\ loop' \notin {"wait", "notify"} => Running' = {}
                    /\ loop' \in {"wait", "notify"} =>
                          /\ current' \in Tasks /\ Running' \subseteq {current'}
                          /\ pc'[current'] = "done" => changed'[current'] \subseteq ListPaths'
                    /\ loop' = "notify" => pc'[current'] = "done"
    BY PunctualStays DEF OneTask
<1> USE DEF OneTask
<1>1. ASSUME NEW tree \in Trees, Commit(tree)
      PROVE  UNCHANGED <<loop, current, pc, changed, head>>
    BY <1>1 DEF Commit, clone, tasks
<1>2. CASE Cancel \/ UNCHANGED vars \/ Delay \/ Return
    BY <1>2 DEF Cancel, Delay, Return, vars, clone, tasks, Running, ListPaths
<1>3. ASSUME NEW t \in Tasks, TaskStep(t)
      PROVE  /\ UNCHANGED <<loop, current>> /\ loop \in {"wait", "notify"}
             /\ Running' \subseteq {current} /\ loop # "notify"
             /\ pc'[current] = "done" => changed'[current] \subseteq ListPaths'
    BY <1>3, TaskOneTask
<1>4. ASSUME NEW t \in Tasks, StartTask(t)
      PROVE  /\ loop' = "wait" /\ current' = t /\ Running' \subseteq {t} /\ pc'[t] = "fetch"
    BY <1>4 DEF StartTask, Goto, Running, TypeOK
<1>5. CASE TakeResult
    BY <1>5 DEF TakeResult, Rest, Running, ListPaths, clone
<1>6. CASE TakeFault
    BY <1>6 DEF TakeFault, Rest, Running, ListPaths, clone
<1>7. CASE OnChange \/ FailOnChange
    BY <1>7 DEF OnChange, FailOnChange, Rest, Running
<1>8. QED
    BY <1>1, <1>2, <1>3, <1>4, <1>5, <1>6, <1>7 DEF Next, Watch, Running, ListPaths

\* As long as no wait has timed out, every path given to onChange is in the working
\* directory when onChange is called.
THEOREM ReportedFilesAreThere == Spec => ReportedFilesExist
<1>1. Init => OneTask
    BY BudgetAssumption DEF Init, OneTask, Running, EventKinds
<1>2. TypeOK /\ OneTask /\ [Next]_vars => [OnChange /\ Punctual => changed[current] \subseteq ListPaths]_vars
    BY DEF OneTask, OnChange
<1>3. QED
    BY <1>1, <1>2, TypeCorrect, StepOneTask, PTL DEF Spec, ReportedFilesExist
===============================================================================
