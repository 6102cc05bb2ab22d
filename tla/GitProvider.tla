------------------------------ MODULE GitProvider ------------------------------
(***************************************************************************)
(* The Git provider of the configuration service: its clone of the remote    *)
(* branch, the polling loop of Watch, and the ListChangedFiles tasks the loop *)
(* starts.  A task that has not finished after 60 seconds is abandoned, not   *)
(* cancelled: it runs on, beside the tasks of later polls, on the same clone.  *)
(*                                                                         *)
(* A tree maps every path to a version of the file, or to Absent.            *)
(***************************************************************************)
EXTENDS Naturals, FiniteSets

CONSTANTS
    Files,      \* paths that may exist in the repository
    Matching,   \* those GitProviderSettings.SearchPattern selects
    Versions,   \* contents a file may have
    Absent,     \* no such file in the tree
    Tasks,      \* identities for the tasks Watch starts
    NoTask,
    Budget      \* how often each kind of event in EventKinds may happen

EventKinds == {"commit", "timeout", "taskFailure", "onChangeFailure"}
Trees == [Files -> Versions \cup {Absent}]

ASSUME FilesAssumption == Matching \subseteq Files /\ Absent \notin Versions
ASSUME TasksAssumption == NoTask \notin Tasks
ASSUME BudgetAssumption == Budget \in [EventKinds -> Nat]

VARIABLES
    remote,    \* the branch at its origin
    tracked,   \* Head.TrackedBranch: what the last fetch has seen of it
    head,      \* Head and the working directory, which is what is served
    loop,      \* where Watch is
    current,   \* the task Watch waits for
    pc, changed,  \* where each task is, and its changedFiles
    cancelled, \* the token given to Watch
    dirty,     \* history: files whose served version onChange has not been told
    raced,     \* history: of those, files a pull brought that its diff had not seen
    dropped,   \* history: of those, files whose listing was abandoned or failed
    budget
clone == <<tracked, head>>
tasks == <<current, pc, changed>>
history == <<dirty, raced, dropped>>
vars == <<remote, clone, loop, tasks, cancelled, history, budget>>

Spend(k) == budget[k] > 0 /\ budget' = [budget EXCEPT ![k] = @ - 1]
Present(tree) == {f \in Files : tree[f] # Absent}
\* ListPaths: files of the index that are in the working directory and match.
ListPaths == Present(head) \cap Matching
\* The entries of the diff between two trees that exist in the second.
Diff(old, new) == {f \in Present(new) : new[f] # old[f]}

\* Initialize has cloned the branch.
Init ==
    /\ remote \in Trees
    /\ tracked = remote
    /\ head = remote
    /\ loop = "poll"
    /\ current = NoTask
    /\ pc = [t \in Tasks |-> "none"]
    /\ changed = [t \in Tasks |-> {}]
    /\ cancelled = FALSE
    /\ dirty = {} /\ raced = {} /\ dropped = {}
    /\ budget = Budget
-------------------------------------------------------------------------------
Commit(tree) ==
    /\ tree # remote
    /\ Spend("commit")
    /\ remote' = tree
    /\ UNCHANGED <<clone, loop, tasks, cancelled, history>>

Cancel ==
    /\ ~cancelled
    /\ cancelled' = TRUE
    /\ UNCHANGED <<remote, clone, loop, tasks, history, budget>>
-------------------------------------------------------------------------------
(***************************************************************************)
(* ListChangedFiles, on a thread of the pool.                                *)
(***************************************************************************)
Running == {t \in Tasks : pc[t] \in {"fetch", "diff", "pull", "list"}}
Goto(t, l) == pc' = [pc EXCEPT ![t] = l]

\* Mutant: the fetch keeps the files that exist only, and forgets what is absent.
FetchPresent(t) ==
    /\ pc[t] = "fetch"
    /\ tracked' = [f \in Present(remote) |-> remote[f]]
    /\ Goto(t, "diff")
    /\ UNCHANGED <<remote, head, loop, current, changed, cancelled, history, budget>>

Fetch(t) ==
    /\ pc[t] = "fetch"
    /\ tracked' = remote
    /\ Goto(t, "diff")
    /\ UNCHANGED <<remote, head, loop, current, changed, cancelled, history, budget>>

\* Mutant: what changed is filtered by what is served before it is pulled.
CompareListed(t) ==
    /\ pc[t] = "diff"
    /\ changed' = [changed EXCEPT ![t] = Diff(head, tracked) \cap ListPaths]
    /\ Goto(t, IF Diff(head, tracked) \cap ListPaths = {} THEN "done" ELSE "pull")
    /\ UNCHANGED <<remote, clone, loop, current, cancelled, history, budget>>

Compare(t) ==
    /\ pc[t] = "diff"
    /\ changed' = [changed EXCEPT ![t] = Diff(head, tracked)]
    /\ Goto(t, IF Diff(head, tracked) = {} THEN "done" ELSE "pull")
    /\ UNCHANGED <<remote, clone, loop, current, cancelled, history, budget>>

\* UpdateLocal pulls: a second fetch, and a fast-forward to what it brings.
UpdateLocal(t) ==
    /\ pc[t] = "pull"
    /\ tracked' = remote
    /\ head' = remote
    /\ LET brought == Diff(head, remote) \cap Matching
           kept(S) == S \cap Present(remote)
       IN /\ dirty' = kept(dirty \cup brought)
          /\ raced' = kept(raced \cup (brought \ changed[t]))
          /\ dropped' = kept(dropped \cup IF t = current THEN {} ELSE brought \cap changed[t])
    /\ Goto(t, "list")
    /\ UNCHANGED <<remote, loop, current, changed, cancelled, budget>>

\* Mutant: the changed files are not filtered.
ListUnfiltered(t) ==
    /\ pc[t] = "list"
    /\ Goto(t, "done")
    /\ UNCHANGED <<remote, clone, loop, current, changed, cancelled, history, budget>>

FilterPaths(t) ==
    /\ pc[t] = "list"
    /\ changed' = [changed EXCEPT ![t] = @ \cap ListPaths]
    /\ Goto(t, "done")
    /\ UNCHANGED <<remote, clone, loop, current, cancelled, history, budget>>

\* Files of a listing that nobody is going to be told of.
Lose(S) == dropped' = dropped \cup (dirty \cap S) /\ UNCHANGED <<dirty, raced>>

\* The network, a lock another task holds on the clone, or the token before the
\* task starts; or a pull that finds the clone up to date: its result has no commit.
\* A fetch or pull that fails may have moved the tracked branch.
FailTask(t) ==
    /\ t \in Running
    /\ \/ Spend("taskFailure")
       \/ cancelled /\ pc[t] = "fetch" /\ UNCHANGED budget
       \/ pc[t] = "pull" /\ head = remote /\ UNCHANGED budget
    /\ Goto(t, "faulted")
    /\ tracked' \in IF pc[t] \in {"fetch", "pull"} THEN {tracked, remote} ELSE {tracked}
    /\ Lose(IF t = current THEN changed[t] ELSE {})
    /\ UNCHANGED <<remote, head, loop, current, changed, cancelled>>
-------------------------------------------------------------------------------
(***************************************************************************)
(* Watch.  A task that nothing waits for is garbage once it has finished.    *)
(***************************************************************************)
StartTask(t) ==
    /\ loop = "poll" /\ ~cancelled
    /\ t \notin Running
    /\ Goto(t, "fetch")
    /\ changed' = [changed EXCEPT ![t] = {}]
    /\ current' = t
    /\ loop' = "wait"
    /\ UNCHANGED <<remote, clone, cancelled, history, budget>>

Rest == loop' = "delay" /\ current' = NoTask

\* Mutant: onChange is called for more than one file, Count() > 1.
TakeManyResults ==
    /\ loop = "wait" /\ pc[current] = "done"
    /\ \/ Cardinality(changed[current]) > 1 /\ loop' = "notify" /\ UNCHANGED current
       \/ Cardinality(changed[current]) <= 1 /\ Rest
    /\ UNCHANGED <<remote, clone, pc, changed, cancelled, history, budget>>

\* task.Wait returns true: onChange is called if there is anything to tell.
TakeResult ==
    /\ loop = "wait" /\ pc[current] = "done"
    /\ \/ changed[current] # {} /\ loop' = "notify" /\ UNCHANGED current
       \/ changed[current] = {} /\ Rest
    /\ UNCHANGED <<remote, clone, pc, changed, cancelled, history, budget>>

\* task.Wait throws what the task threw; the loop logs it.
TakeFault ==
    /\ loop = "wait" /\ pc[current] = "faulted"
    /\ Rest
    /\ UNCHANGED <<remote, clone, pc, changed, cancelled, history, budget>>

\* task.Wait returns false after a minute: the loop throws, the task goes on.
TimeOut ==
    /\ loop = "wait" /\ current \in Running
    /\ Spend("timeout")
    /\ Rest
    /\ Lose(changed[current])
    /\ UNCHANGED <<remote, clone, pc, changed, cancelled>>

OnChange ==
    /\ loop = "notify"
    /\ Rest
    /\ dirty' = dirty \ changed[current]
    /\ raced' = raced \ changed[current]
    /\ dropped' = dropped \ changed[current]
    /\ UNCHANGED <<remote, clone, pc, changed, cancelled, budget>>

\* onChange throws: whatever it had not dealt with is logged away.
FailOnChange ==
    /\ loop = "notify"
    /\ Spend("onChangeFailure")
    /\ Rest
    /\ Lose(changed[current])
    /\ UNCHANGED <<remote, clone, pc, changed, cancelled>>

\* Mutant: a delay the token interrupts is started again.
DelayAgain ==
    /\ loop = "delay" /\ ~cancelled
    /\ loop' = "poll"
    /\ UNCHANGED <<remote, clone, tasks, cancelled, history, budget>>

\* The delay ends, by an exception that leaves Watch if the token is cancelled.
Delay ==
    /\ loop = "delay"
    /\ loop' = IF cancelled THEN "threw" ELSE "poll"
    /\ UNCHANGED <<remote, clone, tasks, cancelled, history, budget>>

Return ==
    /\ loop = "poll" /\ cancelled
    /\ loop' = "returned"
    /\ UNCHANGED <<remote, clone, tasks, cancelled, history, budget>>
-------------------------------------------------------------------------------
TaskStep(t) == Fetch(t) \/ Compare(t) \/ UpdateLocal(t) \/ FilterPaths(t) \/ FailTask(t)

Watch ==
    \/ \E t \in Tasks : StartTask(t)
    \/ TakeResult
    \/ TakeFault
    \/ TimeOut
    \/ OnChange
    \/ FailOnChange
    \/ Delay
    \/ Return

Next ==
    \/ \E tree \in Trees : Commit(tree)
    \/ Cancel
    \/ \E t \in Tasks : TaskStep(t)
    \/ Watch

\* Git operations end; the polling interval elapses; a wait ends by its timeout.
Fairness == WF_vars(Watch) /\ \A t \in Tasks : WF_vars(TaskStep(t))

Spec == Init /\ [][Next]_vars
FairSpec == Spec /\ Fairness
-------------------------------------------------------------------------------
TypeOK ==
    /\ {remote, tracked, head} \subseteq Trees
    /\ loop \in {"poll", "wait", "notify", "delay", "returned", "threw"}
    /\ current \in Tasks \cup {NoTask}
    /\ pc \in [Tasks -> {"none", "fetch", "diff", "pull", "list", "done", "faulted"}]
    /\ changed \in [Tasks -> SUBSET Files]
    /\ cancelled \in BOOLEAN
    /\ {dirty, raced, dropped} \subseteq SUBSET Matching
    /\ budget \in [EventKinds -> Nat]

\* The files the task the loop waits for has pulled and is going to report.
InFlight ==
    IF current # NoTask /\ pc[current] \in {"list", "done"} THEN changed[current] ELSE {}

\* A changed file that is served but that onChange was not told of is about to
\* be reported, or one of three things has happened to it: its commit arrived
\* between the fetch that was compared and the pull, or its listing was
\* abandoned by the timeout or failed, or onChange threw.  Nothing else loses it.
UnreportedExplained == dirty \subseteq InFlight \cup raced \cup dropped

\* As long as no poll was abandoned, every path given to onChange can be read
\* and hashed: it is in the working directory when onChange is called.
Punctual == budget["timeout"] = Budget["timeout"]
ReportedFilesExist == [][OnChange /\ Punctual => changed[current] \subseteq ListPaths]_vars

\* Once the remote is quiet, what it holds is served (a file it has deleted may
\* go on being served: a commit that only deletes is never pulled).
ServesRemote ==
    <>[](cancelled \/ \A f \in Present(remote) : head[f] = remote[f])

\* Cancelling the token ends Watch, whatever it waits for and however that ends.
CancelEndsWatch == cancelled ~> loop \in {"returned", "threw"}

\* IProvider: "observe for Configuration changes and launch the onChange event":
\* when the clone has caught up and Watch rests, it has told of every change.
ChangesReported == loop = "delay" /\ head = remote => dirty = {}
===============================================================================
