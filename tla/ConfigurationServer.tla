--------------------------- MODULE ConfigurationServer ---------------------------
(***************************************************************************)
(* The configuration server: HostedConfigurationService over the Git provider, *)
(* the one of the file system, or any other IProvider.                       *)
(*                                                                         *)
(* The two of the repository list their paths and start to watch without ever  *)
(* suspending.  The first poll of the Git provider blocks the thread of         *)
(* StartAsync: _executingTask is null until the loop first delays.            *)
(***************************************************************************)
EXTENDS ConfigurationHosting, Naturals

CONSTANTS Files, Versions, Absent, Tasks, NoTask, Budget    \* of GitProvider

VARIABLES
    provider,   \* "git", "files" or "other"
    remote, tracked, head, loop, current, pc, changed, dirty, raced, dropped, budget
git == <<remote, tracked, head, loop, current, pc, changed, dirty, raced, dropped, budget>>
serverVars == <<vars, provider, git>>

G == INSTANCE GitProvider WITH Matching <- Paths, cancelled <- (startToken = "cancelled")

ASSUME ServerAssumption ==
    /\ Paths \subseteq Files /\ Absent \notin Versions /\ NoTask \notin Tasks
    /\ Budget \in [G!EventKinds -> Nat]

ServerInit ==
    /\ Init
    /\ provider \in {"git", "files", "other"}
    /\ G!Init
-------------------------------------------------------------------------------
HostStep == Host /\ UNCHANGED <<provider, git>>

Stop == RequestStop /\ UNCHANGED <<provider, git>>

ProviderWatch ==
    /\ Watch
    /\ provider = "git" => exec' = "watching"
    /\ provider = "files" => exec' = "completed"

ExecuteStep ==
    /\ \/ InitializeProvider \/ ListPaths \/ PublishChanges \/ ProviderWatch \/ StopGivesUp
       \/ provider = "other" /\ (Suspend \/ WatchEnds)
    /\ UNCHANGED <<provider, git>>

\* Watch of the Git provider catches what its polls throw.
FailStep ==
    /\ exec = "watching" => provider = "other"
    /\ Fail
    /\ UNCHANGED <<provider, git>>

Raise(paths) ==
    /\ provider # "git" /\ OnChange(paths)
    /\ UNCHANGED <<provider, git>>

\* There is a clone of the branch once the provider is initialized.
Commit(tree) ==
    /\ provider = "git" /\ exec \notin {"none", "initialize"}
    /\ UNCHANGED <<vars, provider>>
    /\ G!Commit(tree)
-------------------------------------------------------------------------------
(***************************************************************************)
(* ExecuteAsync in the loop of GitProvider.Watch.                            *)
(***************************************************************************)
Watching == provider = "git" /\ exec = "watching"

\* The interval between two polls is not zero: the delay has suspended.
Poll ==
    /\ Watching
    /\ UNCHANGED <<vars, provider>>
    /\ \/ \E t \in Tasks : G!StartTask(t)
       \/ G!TakeResult
       \/ G!TakeFault
       \/ G!TimeOut
       \/ startToken # "cancelled" /\ executingTask /\ G!Delay

\* The first delay gives the thread back to StartAsync.
FirstDelay ==
    /\ Watching /\ loop = "delay" /\ startToken # "cancelled"
    /\ Suspend
    /\ UNCHANGED <<provider, git>>

\* Mutant: the loop polls again at once after a change.
NotifyAndPoll ==
    /\ Watching /\ loop = "notify"
    /\ OnChange(changed[current])
    /\ loop' = "poll" /\ current' = NoTask
    /\ dirty' = dirty \ changed[current]
    /\ raced' = raced \ changed[current]
    /\ dropped' = dropped \ changed[current]
    /\ UNCHANGED <<provider, remote, tracked, head, pc, changed, budget>>

\* onChange is OnChange of ConfigurationService, which has no publisher to fail.
Notify ==
    /\ Watching /\ loop = "notify"
    /\ OnChange(changed[current])
    /\ UNCHANGED provider
    /\ G!OnChange

WatchReturns ==
    /\ Watching
    /\ WatchEnds
    /\ UNCHANGED provider
    /\ G!Return

\* Mutant: ExecuteAsync catches nothing once it has suspended.
WatchThrowsOut ==
    /\ Watching /\ startToken = "cancelled"
    /\ exec' = "completed" /\ failed' = TRUE
    /\ UNCHANGED <<hosting, raising, terminated, service, provider>>
    /\ G!Delay

\* The delay throws out of Watch into the catch of ExecuteAsync; a token that is
\* cancelled already makes the first one throw on the thread of StartAsync.
WatchThrows ==
    /\ Watching /\ startToken = "cancelled"
    /\ Throw
    /\ UNCHANGED provider
    /\ G!Delay

WatchStep == Poll \/ FirstDelay \/ Notify \/ WatchReturns \/ WatchThrows

\* Tasks run on, whatever has become of the loop.
TaskStep(t) == UNCHANGED <<vars, provider>> /\ G!TaskStep(t)

ServerNext ==
    \/ HostStep
    \/ Stop
    \/ ExecuteStep
    \/ FailStep
    \/ \E paths \in (SUBSET Paths) \ {{}} : Raise(paths)
    \/ \E tree \in G!Trees : Commit(tree)
    \/ WatchStep
    \/ \E t \in Tasks : TaskStep(t)

ServerFairness ==
    /\ WF_serverVars(HostStep)
    /\ WF_serverVars(ExecuteStep)
    /\ WF_serverVars(WatchStep)
    /\ \A t \in Tasks : WF_serverVars(TaskStep(t))

ServerSpec == ServerInit /\ [][ServerNext]_serverVars /\ ServerFairness
-------------------------------------------------------------------------------
\* The server does what ConfigurationHosting says of any provider, and to the
\* clone only what GitProvider does under a token of that life.
ImplementsHosting == FairSpec
ImplementsGit == G!Spec

\* "The application will be terminated": with the providers of the repository a
\* failure never waits for itself, as it comes before ExecuteAsync suspends, or from
\* a token that ends the wait as well.
KnownProvidersTerminate == (failed /\ provider # "other") ~> terminated

\* As long as the service watches, the server ends up serving what the remote
\* holds, whatever polls are late or fail.
ServesWhileWatching ==
    <>[](Watching => \A f \in G!Present(remote) : head[f] = remote[f])
===============================================================================
