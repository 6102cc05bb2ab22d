----------------------- MODULE ConfigurationServer_proofs -----------------------
(***************************************************************************)
(* The server is the hosted service over a provider, and the loop of the Git    *)
(* provider, for any files, versions, tasks and budget; and with the providers  *)
(* of the repository no failure is left waiting for itself.                  *)
(***************************************************************************)
EXTENDS ConfigurationServer, ConfigurationHosting_proofs

\* The providers of the repository fail before they suspend or with the token, and
\* what is notified are paths, found by the task the loop waits for.
SInv ==
    /\ host = "created" => exec = "none"
    /\ provider # "other" =>
          /\ executingTask => exec \in {"watching", "awaitingItself", "completed"}
          /\ exec = "awaitingItself" => startToken = "cancelled"
    /\ pc \in [Tasks -> {"none", "fetch", "diff", "pull", "list", "done", "faulted"}]
    /\ changed \in [Tasks -> SUBSET Files]
    /\ \A t \in Tasks : pc[t] = "done" => changed[t] \subseteq Paths
    /\ loop \in {"wait", "notify"} => current \in Tasks
    /\ loop = "notify" => pc[current] = "done" /\ changed[current] # {}

KnownProvidersNeverHang ==
    provider # "other" /\ exec = "awaitingItself" => startToken = "cancelled"

\* The server starts with neither a failure nor a task.
LEMMA InitSInv == ServerInit => SInv
  BY DEF ServerInit, Init, G!Init, SInv

\* The token is never taken back, and what fails has not suspended.
LEMMA HostingKeepsSInv ==
    ASSUME SInv, UNCHANGED git, HostStep \/ Stop \/ ExecuteStep \/ FailStep \/ FirstDelay
    PROVE  SInv'
<1>0. UNCHANGED <<provider, pc, changed, loop, current>>
    BY DEF HostStep, Stop, ExecuteStep, FailStep, FirstDelay, git
<1>1. host' = "created" => exec' = "none"
    <2>1. CASE HostStep
        BY <2>1 DEF HostStep, Host, StartAsync, StartReturns, StopAsync, StopReturns, running, SInv
    <2>2. CASE Stop \/ FirstDelay
        BY <2>2 DEF Stop, FirstDelay, RequestStop, Suspend, running, SInv
    <2>3. CASE ExecuteStep
        BY <2>3 DEF ExecuteStep, InitializeProvider, ListPaths, PublishChanges, ProviderWatch, Watch,
            StopGivesUp, Suspend, WatchEnds, hosting, running, SInv
    <2>4. CASE FailStep
        BY <2>4 DEF FailStep, Fail, Throw, SInv
    <2>5. QED
        BY <2>1, <2>2, <2>3, <2>4
<1>2. provider # "other" =>
          /\ executingTask' => exec' \in {"watching", "awaitingItself", "completed"}
          /\ exec' = "awaitingItself" => startToken' = "cancelled"
    <2> SUFFICES ASSUME provider # "other"
                 PROVE  /\ executingTask' => exec' \in {"watching", "awaitingItself", "completed"}
                        /\ exec' = "awaitingItself" => startToken' = "cancelled"
        OBVIOUS
    <2>1. CASE HostStep
        BY <2>1 DEF HostStep, Host, StartAsync, StartReturns, StopAsync, StopReturns, running, SInv
    <2>2. CASE Stop
        BY <2>2 DEF Stop, RequestStop, StopApplication, running, SInv
    <2>3. CASE ExecuteStep
        <3>1. CASE InitializeProvider \/ ListPaths \/ PublishChanges \/ ProviderWatch
            BY <3>1 DEF InitializeProvider, ListPaths, PublishChanges, ProviderWatch, Watch, hosting, SInv
        <3>2. CASE StopGivesUp
            BY <3>2 DEF StopGivesUp, StopApplication, SInv
        <3>3. QED
            BY <2>3, <3>1, <3>2 DEF ExecuteStep
    <2>4. CASE FailStep
        BY <2>4 DEF FailStep, Fail, Throw, StopApplication, SInv
    <2>5. CASE FirstDelay
        BY <2>5 DEF FirstDelay, Watching, Suspend, running, SInv
    <2>6. QED
        BY <2>1, <2>2, <2>3, <2>4, <2>5
<1>3. QED
    BY <1>0, <1>1, <1>2 DEF SInv

\* A task touches nothing of one that is done.
LEMMA TaskKeepsSInv ==
    ASSUME SInv, NEW t \in Tasks, TaskStep(t)
    PROVE  SInv'
<1>1. UNCHANGED <<provider, host, executingTask, exec, startToken, loop, current>>
    BY DEF TaskStep, vars, hosting, running, G!TaskStep, G!Fetch, G!Compare, G!UpdateLocal,
        G!FilterPaths, G!FailTask
<1>2. /\ pc[t] \in {"fetch", "diff", "pull", "list"}
      /\ \A u \in Tasks \ {t} : pc'[u] = pc[u] /\ changed'[u] = changed[u]
      /\ pc' \in [Tasks -> {"none", "fetch", "diff", "pull", "list", "done", "faulted"}]
      /\ changed' \in [Tasks -> SUBSET Files]
      /\ pc'[t] = "done" => changed'[t] \subseteq Paths
    <2>1. CASE G!Fetch(t)
        BY <2>1 DEF G!Fetch, G!Goto, SInv
    <2>2. CASE G!Compare(t)
        BY <2>2 DEF G!Compare, G!Goto, G!Diff, G!Present, SInv
    <2>3. CASE G!UpdateLocal(t)
        BY <2>3 DEF G!UpdateLocal, G!Goto, SInv
    <2>4. CASE G!FilterPaths(t)
        BY <2>4 DEF G!FilterPaths, G!Goto, G!ListPaths, SInv
    <2>5. CASE G!FailTask(t)
        BY <2>5 DEF G!FailTask, G!Goto, G!Running, SInv
    <2>6. QED
        BY <2>1, <2>2, <2>3, <2>4, <2>5 DEF TaskStep, G!TaskStep
<1>3. \A u \in Tasks : pc'[u] = "done" => changed'[u] \subseteq Paths
    BY <1>2 DEF SInv
<1>4. /\ loop' \in {"wait", "notify"} => current' \in Tasks
      /\ loop' = "notify" => pc'[current'] = "done" /\ changed'[current'] # {}
    BY <1>1, <1>2 DEF SInv
<1>5. QED
    BY <1>1, <1>2, <1>3, <1>4 DEF SInv

\* The loop notifies of the result it has waited for.
LEMMA WatchKeepsSInv == SInv /\ WatchStep => SInv'
<1> SUFFICES ASSUME SInv, WatchStep
             PROVE  SInv'
    OBVIOUS
<1>1. ASSUME Poll
      PROVE  SInv'
    <2>0. UNCHANGED <<provider, host, executingTask, exec, startToken>>
        BY <1>1 DEF Poll, vars, hosting, running
    <2>1. ASSUME NEW t \in Tasks, G!StartTask(t)
          PROVE  SInv'
        BY <2>0, <2>1 DEF G!StartTask, G!Goto, SInv
    <2>2. CASE G!TakeResult
        BY <2>0, <2>2 DEF G!TakeResult, G!Rest, SInv
    <2>3. CASE G!TakeFault \/ G!TimeOut
        BY <2>0, <2>3 DEF G!TakeFault, G!TimeOut, G!Rest, SInv
    <2>4. CASE G!Delay
        BY <2>0, <2>4 DEF G!Delay, G!tasks, SInv
    <2>5. QED
        BY <1>1, <2>1, <2>2, <2>3, <2>4 DEF Poll
<1>2. CASE FirstDelay
    <2>1. UNCHANGED git
        BY <1>2 DEF FirstDelay
    <2>2. QED
        BY <1>2, <2>1, HostingKeepsSInv
<1>3. CASE Notify
    BY <1>3 DEF Notify, OnChange, hosting, running, G!OnChange, G!Rest, SInv
<1>4. CASE WatchReturns
    BY <1>4 DEF WatchReturns, WatchEnds, hosting, G!Return, G!tasks, SInv
<1>5. CASE WatchThrows
    <2>1. UNCHANGED <<provider, pc, changed, current>> /\ loop' # "notify" /\ loop' # "wait"
        BY <1>5 DEF WatchThrows, G!Delay, G!tasks
    <2>2. exec = "watching" /\ startToken = "cancelled" /\ Throw /\ host' = host
        BY <1>5 DEF WatchThrows, Watching, Throw
    <2>3. exec' # "none" /\ (exec' = "awaitingItself" \/ exec' = "completed") /\ startToken' = "cancelled"
        BY <2>2 DEF Throw, StopApplication
    <2>4. host' # "created"
        BY <2>2 DEF SInv
    <2>5. QED
        BY <2>1, <2>3, <2>4 DEF SInv
<1>6. QED
    BY <1>1, <1>2, <1>3, <1>4, <1>5 DEF WatchStep

\* The invariant of the server.
LEMMA ServerInvariance == ServerSpec => []SInv
<1>1. SInv /\ [ServerNext]_serverVars => SInv'
    <2> SUFFICES ASSUME SInv, [ServerNext]_serverVars
                 PROVE  SInv'
        OBVIOUS
    <2>1. CASE HostStep \/ Stop \/ ExecuteStep \/ FailStep
        <3>1. UNCHANGED git
            BY <2>1 DEF HostStep, Stop, ExecuteStep, FailStep
        <3>2. QED
            BY <2>1, <3>1, HostingKeepsSInv
    <2>2. ASSUME NEW paths \in SUBSET Paths, Raise(paths)
          PROVE  SInv'
        BY <2>2 DEF Raise, OnChange, hosting, running, git, SInv
    <2>3. ASSUME NEW tree \in G!Trees, Commit(tree)
          PROVE  SInv'
        BY <2>3 DEF Commit, vars, hosting, running, G!Commit, G!tasks, SInv
    <2>4. CASE UNCHANGED serverVars
        BY <2>4 DEF serverVars, vars, hosting, running, git, SInv
    <2>5. QED
        BY <2>1, <2>2, <2>3, <2>4, WatchKeepsSInv, TaskKeepsSInv DEF ServerNext
<1>2. QED
    BY InitSInv, <1>1, PTL DEF ServerSpec
-------------------------------------------------------------------------------
\* With the providers of the repository the catch of ExecuteAsync waits for its own
\* task only under a token that is cancelled and ends the wait.
THEOREM KnownProvidersDoNotHang == ServerSpec => []KnownProvidersNeverHang
<1>1. SInv => KnownProvidersNeverHang
    BY DEF SInv, KnownProvidersNeverHang
<1>2. QED
    BY ServerInvariance, <1>1, PTL

\* Every step of the server is one of the hosted service, or is not seen by it.
THEOREM ServerIsAHosting == ServerSpec => Spec
<1>1. ServerInit => Init
    BY DEF ServerInit
<1>2. SInv /\ [ServerNext]_serverVars => [Next]_vars
    <2> SUFFICES ASSUME SInv, [ServerNext]_serverVars
                 PROVE  [Next]_vars
        OBVIOUS
    <2>1. CASE HostStep \/ Stop \/ ExecuteStep \/ FailStep
        BY <2>1 DEF HostStep, Stop, ExecuteStep, ProviderWatch, FailStep, Next, Execute
    <2>2. ASSUME NEW paths \in (SUBSET Paths) \ {{}}, Raise(paths)
          PROVE  [Next]_vars
        BY <2>2 DEF Raise, Next
    <2>3. CASE WatchStep
        <3>1. CASE Poll
            BY <3>1 DEF Poll
        <3>2. CASE FirstDelay \/ WatchReturns
            BY <3>2 DEF FirstDelay, WatchReturns, Next, Execute
        <3>3. CASE Notify
            <4>1. changed[current] \in (SUBSET Paths) \ {{}}
                <5>0. loop = "notify"
                    BY <3>3 DEF Notify
                <5>1. current \in Tasks /\ pc[current] = "done" /\ changed[current] # {}
                    BY <5>0 DEF SInv
                <5>2. changed[current] \subseteq Paths
                    BY <5>1 DEF SInv
                <5>3. QED
                    BY <5>1, <5>2
            <4>2. OnChange(changed[current])
                BY <3>3 DEF Notify
            <4>3. QED
                BY <4>1, <4>2 DEF Next
        <3>4. CASE WatchThrows
            BY <3>4 DEF WatchThrows, Watching, Fail, Next
        <3>5. QED
            BY <2>3, <3>1, <3>2, <3>3, <3>4 DEF WatchStep
    <2>4. CASE (\E tree \in G!Trees : Commit(tree)) \/ (\E t \in Tasks : TaskStep(t))
        BY <2>4 DEF Commit, TaskStep
    <2>5. CASE UNCHANGED serverVars
        BY <2>5 DEF serverVars
    <2>6. QED
        BY <2>1, <2>2, <2>3, <2>4, <2>5 DEF ServerNext
<1>3. QED
    BY ServerInvariance, <1>1, <1>2, PTL DEF ServerSpec, Spec

\* No failure of the server is swallowed.
THEOREM ServerSwallowsNoFailure == ServerSpec => []FailureTerminates
  BY ServerIsAHosting, FailureIsNotSwallowed, PTL

\* A token that is cancelled stays so.
LEMMA TokenStaysCancelled ==
    ASSUME startToken = "cancelled", HostStep \/ Stop \/ ExecuteStep \/ FailStep
    PROVE  startToken' = "cancelled"
<1>1. CASE HostStep
    BY <1>1 DEF HostStep, Host, StartAsync, StartReturns, StopAsync, StopReturns
<1>2. CASE Stop
    BY <1>2 DEF Stop, RequestStop, StopApplication
<1>3. CASE ExecuteStep
    BY <1>3 DEF ExecuteStep, InitializeProvider, ListPaths, PublishChanges, ProviderWatch, Watch,
        StopGivesUp, StopApplication, Suspend, WatchEnds, hosting
<1>4. CASE FailStep
    BY <1>4 DEF FailStep, Fail, Throw, StopApplication
<1>5. QED
    BY <1>1, <1>2, <1>3, <1>4

\* What leaves the clone and the loop alone may cancel their token, and no more.
LEMMA TokenStep ==
    ASSUME UNCHANGED git, startToken = "cancelled" => startToken' = "cancelled"
    PROVE  G!Cancel \/ UNCHANGED G!vars
<1>1. CASE (startToken = "cancelled") <=> (startToken' = "cancelled")
    BY <1>1 DEF git, G!vars, G!clone, G!tasks, G!history
<1>2. CASE startToken # "cancelled" /\ startToken' = "cancelled"
    BY <1>2 DEF git, G!Cancel, G!clone, G!tasks, G!history
<1>3. QED
    BY <1>1, <1>2

\* Every step of the server is one of the Git provider under the token of its host,
\* or is not seen by it.
THEOREM ServerDrivesGit == ServerSpec => ImplementsGit
<1>1. ServerInit => G!Init
    BY DEF ServerInit, Init, G!Init
<1>2. [ServerNext]_serverVars => [G!Next]_(G!vars)
    <2> SUFFICES ASSUME [ServerNext]_serverVars
                 PROVE  [G!Next]_(G!vars)
        OBVIOUS
    <2>1. CASE HostStep \/ Stop \/ ExecuteStep \/ FailStep
        <3>1. UNCHANGED git
            BY <2>1 DEF HostStep, Stop, ExecuteStep, FailStep
        <3>2. QED
            BY <2>1, <3>1, TokenStaysCancelled, TokenStep DEF G!Next
    <2>2. ASSUME NEW paths \in SUBSET Paths, Raise(paths)
          PROVE  [G!Next]_(G!vars)
        <3>1. UNCHANGED <<git, startToken>>
            BY <2>2 DEF Raise, OnChange, hosting
        <3>2. QED
            BY <3>1, TokenStep DEF G!Next
    <2>3. ASSUME NEW tree \in G!Trees, Commit(tree)
          PROVE  [G!Next]_(G!vars)
        BY <2>3 DEF Commit, G!Next
    <2>4. ASSUME NEW t \in Tasks, TaskStep(t)
          PROVE  [G!Next]_(G!vars)
        BY <2>4 DEF TaskStep, G!Next
    <2>5. CASE WatchStep
        <3>1. CASE Poll
            BY <3>1 DEF Poll, G!Next, G!Watch
        <3>2. CASE FirstDelay
            <4>1. UNCHANGED <<git, startToken>>
                BY <3>2 DEF FirstDelay, Suspend
            <4>2. QED
                BY <4>1, TokenStep DEF G!Next
        <3>3. CASE Notify \/ WatchReturns \/ WatchThrows
            BY <3>3 DEF Notify, WatchReturns, WatchThrows, G!Next, G!Watch
        <3>4. QED
            BY <2>5, <3>1, <3>2, <3>3 DEF WatchStep
    <2>6. CASE UNCHANGED serverVars
        <3>1. UNCHANGED <<git, startToken>>
            BY <2>6 DEF serverVars, vars, hosting
        <3>2. QED
            BY <3>1, TokenStep DEF G!Next
    <2>7. QED
        BY <2>1, <2>2, <2>3, <2>4, <2>5, <2>6 DEF ServerNext
<1>3. QED
    BY <1>1, <1>2, PTL DEF ServerSpec, ImplementsGit, G!Spec

P == INSTANCE GitProvider_proofs WITH Matching <- Paths, cancelled <- (startToken = "cancelled")

\* What GitProvider_proofs shows of any clone holds in the server.
THEOREM ServerExplainsUnreported == ServerSpec => []G!UnreportedExplained
<1>1. P!Spec => []P!UnreportedExplained
    BY P!UnreportedIsExplained, ServerAssumption DEF G!EventKinds, P!EventKinds
<1>2. G!Init => P!Init
    BY DEF G!Init, P!Init, G!Trees, P!Trees
<1>3. [G!Next]_(G!vars) => [P!Next]_(P!vars)
    <2>1. (\E tree \in G!Trees : G!Commit(tree)) \/ G!Cancel => P!Next
        BY DEF P!Next, G!Commit, P!Commit, G!Cancel, P!Cancel, G!Trees, P!Trees, G!Spend, P!Spend, G!clone,
        P!clone, G!tasks, P!tasks, G!history, P!history
    <2>2. (\E t \in Tasks : G!TaskStep(t)) => P!Next
        BY DEF P!Next, G!TaskStep, P!TaskStep, G!Fetch, P!Fetch, G!Compare, P!Compare, G!UpdateLocal,
        P!UpdateLocal, G!FilterPaths, P!FilterPaths, G!FailTask, P!FailTask, G!Spend,
        P!Spend, G!Goto, P!Goto, G!Lose, P!Lose, G!Running, P!Running, G!Diff, P!Diff,
        G!Present, P!Present, G!ListPaths, P!ListPaths, G!clone, P!clone, G!history,
        P!history
    <2>3. G!Watch => P!Next
        BY DEF P!Next, G!Watch, P!Watch, G!StartTask, P!StartTask, G!TakeResult, P!TakeResult, G!TakeFault,
        P!TakeFault, G!TimeOut, P!TimeOut, G!OnChange, P!OnChange, G!FailOnChange,
        P!FailOnChange, G!Delay, P!Delay, G!Return, P!Return, G!Spend, P!Spend,
        G!Goto, P!Goto, G!Rest, P!Rest, G!Lose, P!Lose, G!Running, P!Running, G!clone,
        P!clone, G!tasks, P!tasks, G!history, P!history
    <2>4. UNCHANGED G!vars => UNCHANGED P!vars
        BY DEF G!vars, P!vars, G!clone, P!clone, G!tasks, P!tasks, G!history, P!history
    <2>5. QED
        BY <2>1, <2>2, <2>3, <2>4 DEF G!Next
<1>4. P!UnreportedExplained => G!UnreportedExplained
    BY DEF P!UnreportedExplained, G!UnreportedExplained, G!InFlight, P!InFlight
<1>5. QED
    BY ServerDrivesGit, <1>1, <1>2, <1>3, <1>4, PTL DEF ImplementsGit, G!Spec, P!Spec
===============================================================================
