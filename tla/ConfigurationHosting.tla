-------------------------- MODULE ConfigurationHosting --------------------------
(***************************************************************************)
(* HostedConfigurationService in its host, running ConfigurationService.     *)
(* Initialize over a provider.                                              *)
(*                                                                         *)
(* An async method runs on its caller's stack up to its first await that     *)
(* suspends: until then _executingTask is still null.  IProvider lets a         *)
(* provider suspend wherever it returns a task.  ExecuteAsync gives its        *)
(* work the token of StartAsync, which the host links to ApplicationStopping    *)
(* only while it starts its services; StopAsync cancels another one.         *)
(***************************************************************************)
EXTENDS FiniteSets

CONSTANTS
    Paths,        \* configuration files the provider lists
    Publisher,    \* the IPublisher given to the constructor
    Null

ASSUME PublisherAssumption == Publisher # Null

VARIABLES
    host,           \* what the generic host is doing with this service
    stopRequested,  \* ApplicationStopping
    startToken,     \* the token of StartAsync; "dead" when its source is disposed
    stoppingCts,    \* _stoppingCts is cancelled
    exec,           \* where ExecuteAsync is
    executingTask,  \* _executingTask has been assigned
    raising,        \* a FileSystemWatcher calls OnChange, on threads of its own
    failed,         \* an exception has reached the catch of ExecuteAsync
    terminated,     \* StopApplication was called by the service
    publisher,      \* ConfigurationService._publisher
    toPublish, published,  \* paths PublishChanges has left, and has published
    reported        \* paths the provider has given to OnChange
hosting == <<host, stopRequested, startToken, stoppingCts, executingTask>>
running == <<exec, raising, failed, terminated>>
service == <<publisher, toPublish, published, reported>>
vars == <<hosting, running, service>>

\* Mutant: the constructor falls back on a publisher of its own.
ConstructedDefault(given) == "default"

\* The constructor of ConfigurationService never assigns _publisher.
Constructed(given) == Null

Init ==
    /\ host = "created"
    /\ stopRequested = FALSE
    /\ startToken = "live"
    /\ stoppingCts = FALSE
    /\ exec = "none"
    /\ executingTask = FALSE
    /\ raising = FALSE
    /\ failed = FALSE
    /\ terminated = FALSE
    /\ publisher = Constructed(Publisher)
    /\ toPublish = {}
    /\ published = {}
    /\ reported = {}
-------------------------------------------------------------------------------
(***************************************************************************)
(* The host.                                                                 *)
(***************************************************************************)
StopApplication ==
    /\ stopRequested' = TRUE
    /\ startToken' = IF startToken = "live" THEN "cancelled" ELSE startToken

RequestStop ==
    /\ ~stopRequested
    /\ StopApplication
    /\ UNCHANGED <<host, stoppingCts, executingTask, running, service>>

StartAsync ==
    /\ host = "created"
    /\ host' = "starting"
    /\ exec' = "initialize"
    /\ UNCHANGED <<stopRequested, startToken, stoppingCts, executingTask, raising, failed, terminated, service>>

\* ExecuteAsync has suspended or completed: StartAsync gets its task and returns.
StartReturns ==
    /\ host = "starting" /\ (exec = "completed" \/ executingTask)
    /\ executingTask' = TRUE
    /\ IF startToken = "cancelled"
       THEN host' = "stopped" /\ stoppingCts' = TRUE /\ UNCHANGED startToken  \* disposed unstarted
       ELSE host' = "running" /\ startToken' = "dead" /\ UNCHANGED stoppingCts
    /\ UNCHANGED <<stopRequested, running, service>>

StopAsync ==
    /\ host = "running" /\ stopRequested
    /\ host' = "stopping"
    /\ stoppingCts' = TRUE
    /\ UNCHANGED <<stopRequested, startToken, executingTask, running, service>>

\* Mutant: StopAsync awaits the executing task, however long it takes.
StopAwaitsExecution ==
    /\ host = "stopping" /\ exec = "completed"
    /\ host' = "stopped"
    /\ UNCHANGED <<stopRequested, startToken, stoppingCts, executingTask, running, service>>

\* WhenAny: the executing task, or the end of the host's shutdown timeout.
StopReturns ==
    /\ host = "stopping"
    /\ host' = "stopped"
    /\ UNCHANGED <<stopRequested, startToken, stoppingCts, executingTask, running, service>>
-------------------------------------------------------------------------------
(***************************************************************************)
(* ExecuteAsync and ConfigurationService.Initialize.                         *)
(***************************************************************************)
Awaiting == exec \in {"list", "publish", "watch", "watching"}

\* The task awaited is not complete yet: control goes back to StartAsync.
Suspend ==
    /\ Awaiting /\ ~executingTask
    /\ executingTask' = TRUE
    /\ UNCHANGED <<host, stopRequested, startToken, stoppingCts, running, service>>

InitializeProvider ==
    /\ exec = "initialize"
    /\ exec' = "list"
    /\ UNCHANGED <<hosting, raising, failed, terminated, service>>

ListPaths ==
    /\ exec = "list"
    /\ exec' = "publish"
    /\ toPublish' = IF publisher = Null THEN {} ELSE Paths
    /\ UNCHANGED <<hosting, raising, failed, terminated, publisher, published, reported>>

PublishChanges ==
    /\ exec = "publish"
    /\ IF toPublish = {}
       THEN exec' = "watch" /\ UNCHANGED <<toPublish, published>>
       ELSE \E p \in toPublish :
               /\ toPublish' = toPublish \ {p}
               /\ published' = published \cup {p}
               /\ UNCHANGED exec
    /\ UNCHANGED <<hosting, raising, failed, terminated, publisher, reported>>

\* Watch turns a FileSystemWatcher on and returns, or polls until its token is
\* cancelled, as the Git provider does.
Watch ==
    /\ exec = "watch"
    /\ \/ exec' = "completed" /\ raising' = TRUE
       \/ exec' = "watching" /\ UNCHANGED raising
    /\ UNCHANGED <<hosting, failed, terminated, service>>

OnChange(paths) ==
    /\ exec = "watching" \/ raising
    /\ reported' = reported \cup paths
    /\ published' = IF publisher = Null THEN published ELSE published \cup paths
    /\ UNCHANGED <<hosting, running, publisher, toPublish>>

\* Mutant: the loop looks at no token.
WatchForever == FALSE

WatchEnds ==
    /\ exec = "watching" /\ startToken = "cancelled"
    /\ exec' = "completed"
    /\ UNCHANGED <<hosting, raising, failed, terminated, service>>

\* Mutant: the catch leaves when StopAsync has nothing to stop.
ThrowAndReturn ==
    /\ failed' = TRUE
    /\ IF executingTask
       THEN stoppingCts' = TRUE /\ exec' = "awaitingItself"
       ELSE exec' = "completed" /\ UNCHANGED stoppingCts
    /\ UNCHANGED <<host, stopRequested, startToken, executingTask, raising, terminated, service>>

\* The catch of ExecuteAsync awaits StopAsync, which returns at once if the task
\* is not assigned yet, and otherwise waits for the very task it runs in.
Throw ==
    /\ failed' = TRUE
    /\ IF executingTask
       THEN /\ stoppingCts' = TRUE
            /\ exec' = "awaitingItself"
            /\ UNCHANGED <<stopRequested, startToken, terminated>>
       ELSE /\ exec' = "completed"
            /\ terminated' = TRUE
            /\ StopApplication
            /\ UNCHANGED stoppingCts
    /\ UNCHANGED <<host, executingTask, raising, service>>

\* The provider throws; the delay between polls throws when its token is cancelled.
Fail ==
    /\ exec \in {"initialize", "list", "watch", "watching"}
    /\ Throw

\* Mutant: the wait in the catch is given no token.
StopNeverGivesUp == FALSE

\* The delay in WhenAny ends with the token ExecuteAsync passed on.
StopGivesUp ==
    /\ exec = "awaitingItself" /\ startToken = "cancelled"
    /\ exec' = "completed"
    /\ terminated' = TRUE
    /\ StopApplication
    /\ UNCHANGED <<host, stoppingCts, executingTask, raising, failed, service>>
-------------------------------------------------------------------------------
Execute ==
    \/ Suspend
    \/ InitializeProvider
    \/ ListPaths
    \/ PublishChanges
    \/ Watch
    \/ WatchEnds
    \/ StopGivesUp

Host == StartAsync \/ StartReturns \/ StopAsync \/ StopReturns

Next ==
    \/ Host
    \/ RequestStop
    \/ Execute
    \/ Fail
    \/ \E paths \in (SUBSET Paths) \ {{}} : OnChange(paths)

\* The host goes on and its shutdown timeout expires; an awaited call ends.
Fairness == WF_vars(Host) /\ WF_vars(Execute)

Spec == Init /\ [][Next]_vars
FairSpec == Spec /\ Fairness
-------------------------------------------------------------------------------
TypeOK ==
    /\ host \in {"created", "starting", "running", "stopping", "stopped"}
    /\ startToken \in {"live", "cancelled", "dead"}
    /\ exec \in {"none", "initialize", "list", "publish", "watch", "watching",
                 "awaitingItself", "completed"}
    /\ {stopRequested, stoppingCts, executingTask, raising, failed, terminated} \subseteq BOOLEAN
    /\ publisher \in {Publisher, Null}
    /\ {toPublish, published, reported} \subseteq SUBSET Paths

\* ExecuteAsync never swallows a failure: once it has completed after one, the
\* application has been asked to stop, and it asks for nothing else.
FailureTerminates ==
    /\ failed /\ exec = "completed" => terminated
    /\ terminated => failed /\ stopRequested

\* A stop requested while the host still starts its services reaches the watch
\* loop (and a failure's wait for itself) and ends ExecuteAsync.
StopWhileStartingEnds == (startToken = "cancelled" /\ exec # "none") ~> exec = "completed"

\* The service cannot keep the application from stopping.
HostStops == (stopRequested /\ host # "created") ~> host = "stopped"

\* Publish_Invoked_on_Change_for_Each_File: what OnChange is told is published.
PublishedOnChange == reported \subseteq published
===============================================================================
