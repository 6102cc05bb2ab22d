# Oluso in TLA+

Oluso is a set of C# libraries for applications on .NET. This directory holds
TLA+ models of the parts of it that keep state, run concurrently or have to
survive failures, the TLC configurations that check them, and theorems about
them that the TLA+ proof system checks. Paths below are relative to the
repository; `src/<Project>/` is one library.

## 1. The system

### Components

| Component | State | Operations | Hard about it |
|---|---|---|---|
| `Configuration.Hosting/HostedConfigurationService` | `_executingTask`, `_stoppingCts` | `StartAsync`, `StopAsync`, `ExecuteAsync` | which token stops what; a failure before or after the first suspension |
| `Configuration.Hosting/ConfigurationService` | `_publisher`, `_provider` | `Initialize`, `PublishChanges`, `OnChange` | runs inside the hosted service, called back by the provider |
| `GitProvider` | clone (head, tracked branch, working directory) | `Watch`, `ListChangedFiles`, `ListPaths`, `GetHash` | polls that time out run on; fetch, diff and pull are three looks at a moving remote |
| `FilesystemProvider` | `FileSystemWatcher`, `_onChange` | `Watch`, the event, `ListPaths` | events on their own threads, several for one write |
| Publishers and subscribers (RabbitMQ, Redis) | a connection | `Publish`, `Subscribe` | at most once delivery; the fanout exchange; the Redis handler gets the channel |
| Endpoints | none | list, file | answers with an error where there is no file |
| `Configuration.Client/RemoteConfigurationProvider` | `Hash`, `Data`, the lazy `HttpClient`, the parser | `Load`, the handler, `Dispose` | no lock; `Data` refers to the parser's buffer |
| Parsers (JSON, INI, XML) | JSON: `_data`, `_context`; the others clear and refill a dictionary | `Parse` | an exception part way; keys that coincide |
| `Data/UnitOfWork`, `BaseDbContext` | `_executionStrategy`, the tracker, the transaction | `ExecuteAsync`, `SaveEntitiesChangesAsync` | four paths to the database, retries, nested calls, failed commits |
| Repositories, paging, specifications | none | create, update, delete, find | what happens with and without a unit of work |
| `Plugins` | lists of plugins and middlewares | load, order, execute a chain | shared index of a running chain |
| `Core` | `Insist.Exceptions`; otherwise extensions | `Throw`, `RegisterException` | a registry keyed by time |
| `Notifier` | a singleton message | notify | the singleton is shared by concurrent calls |
| `HealthCheck`, `Email`, `Logger`, `SourceGenerators` | little or none | | mostly input and output |

### How they interact

A change of a file reaches an application in this order: a provider's `Watch`
finds it and calls `ConfigurationService.OnChange`; `PublishChanges` hashes the
file and publishes path and hash; the broker gives the message to the
subscribers of every client; the handler of `RemoteConfigurationProvider`
compares the hash with its own, loads the file through the endpoint (which reads
the provider's working directory), parses it and raises `OnReload`. Each arrow is
another thread or process, and none of them is acknowledged.

In `Data`, an application or a repository gives an operation to
`UnitOfWork.ExecuteAsync`, which runs it and `SaveEntitiesChangesAsync` in a
transaction of Entity Framework's execution strategy, unless there is a
transaction already, the database has none, or the unit of work was used before.

### What makes each part correct

- client: it ends up with what is served; hash, dictionary and event of one
  Load belong together; a change is never skipped because of a hash comparison.
- JSON parser: the result is the leaves of the document, each under its path; an
  exception exactly for a document it cannot represent; calls are independent.
- Git provider: every change that is served is reported, what is reported can be
  read, the clone follows the remote, and cancelling ends the loop.
- hosting: no failure is swallowed, the service never keeps the host from
  stopping, and what changes is published; the composed server does what each of its
  parts promises alone.
- unit of work: all or nothing, acknowledged means durable, no change of a business
  entity without its event, and every call ends; an operation takes effect once.
- chains of plugins: every middleware at most once and in order, the final function
  after all of them, nothing past the end; what runs was configured.
- notifier: a payload is that of its notification, and nothing that was sent is lost
  to a client that reads a later one.

## 2. The models

| Module | Models | Extended by |
|---|---|---|
| `RemoteConfigurationProvider` | the client, its subscriber, its parser's buffer; the service and the broker as its environment | `MCRemoteConfigurationProvider`, `RemoteConfigurationProvider_proofs` |
| `JsonConfigurationParser` | the JSON parser object over many calls | `MCJsonConfigurationParser`, `JsonConfigurationParser_proofs` |
| `GitProvider` | the polling loop, its tasks and the clone | `MCGitProvider`, `GitProvider_proofs` |
| `ConfigurationHosting` | `HostedConfigurationService` running `ConfigurationService` in the generic host | `ConfigurationHosting_proofs` |
| `ConfigurationServer` | the composition of `ConfigurationHosting` with `GitProvider`, the file system's provider or any other | `MCConfigurationServer`, `ConfigurationServer_proofs` |
| `UnitOfWork` | `ExecuteAsync<TResult>` and its save over one context | `MCUnitOfWork`, `UnitOfWork_proofs` |
| `TransactionalStore` | what a unit of work promises: the abstract specification `UnitOfWork` implements | |
| `UnitOfWorkAction` | the overload of `ExecuteAsync` for an `Action` | |
| `ResponsibilityChain` | one execution after another of the three chains | `PluginService` |
| `PluginService` | loading, configuration and the chain of an event, over `ResponsibilityChain` | `MCPluginService`, `PluginService_proofs` |
| `Notifier` | `SignalRNotifier` and the one `HandlerMessage` | `MCNotifier`, `Notifier_proofs` |

An operator preceded by a comment "Mutant:" is a plausible mistake in the
definition that follows it. It is used by nothing; `PROJECT.json` names the
property that fails when it takes that definition's place.

### RemoteConfigurationProvider

A thread is the application's (`Main`) or one of the broker client's
(`Handlers`). `pc` says where it is in `Load`: `request` (GetAsync), `hash`,
`clear` and `visit` (the parser), `assign` (`Data = ...`), `notify` (`OnReload`).
Each is a step of its own, because nothing in the class prevents another thread
from running in between. A document stands for its bytes and for its SHA-1.
`Data` is `"initial"`, `"null"` or `"parser"`: `Parse` returns the parser's own
dictionary, and `buffer` is what that holds, as pieces of documents: whole or
not, with the right path or with a prefix. A piece that is not whole disappears in
the whole of the same document under the same path, whose keys and values include its
own (`Entries`). `PassesHash` distinguishes RabbitMQ
(the handler gets the message) from Redis (it gets the channel name, which is
never equal to a hash, so every message reloads). `StickyContext` distinguishes
the JSON parser, which keeps its path stack when it throws.
Concurrent visits of a shared buffer are modelled by the outcomes they can have:
a piece with or without a prefix, an exception that leaves a piece or, if the first key
is there already, nothing, or nothing wrong.

`trusted` is a history variable: since the last answer was fetched no other Load
or handler has run during a Load, nothing has failed and no message was lost.

### JsonConfigurationParser

`VisitElement` and `VisitValue` recurse; here `todo` holds the calls still to make,
so that an exception can happen between any two and leave `data` and `context` as
they are. A call is about a place of the document: the sequence of elements (index,
name, value) that lead there from the root, which stands for the `JsonElement` the code
is given. A visit of a container puts the calls for its elements in its own place; the
visit of a scalar looks for its path and adds it or throws.

A name is the sequence of the path segments its text stands for, in one
case, which makes `"b:c"` and `b` containing `c` the same path, as in the
code. `residue` remembers what was on the stack when the call started. `MaxDepth` is the
nesting `JsonDocument` accepts, 64 unless its options say otherwise, and a parser here has
any. The reference (`Leaves`, `Key`) says which places are scalars and which names lead to
them, without a visit or an order.

### GitProvider

A tree maps paths to versions. `tracked` is the tracked branch, moved by a fetch
and by the fetch inside a pull; `head` is HEAD and the working directory. A task
runs `Fetch`, `Compare`, `UpdateLocal`, `FilterPaths`; `Watch` waits for it at most
60 seconds (`TimeOut`) and otherwise goes on without it. A task that was left
behind goes on, on the same clone. A pull that finds nothing to merge
throws when it reads the commit of its result (`FailTask`). `dirty`, `raced`
and `dropped` are history: files served but not told to `onChange`, and why. The
remote's history is not rewritten, so that a pull is a fast-forward.

### ConfigurationHosting

`exec` says where `ExecuteAsync` is, `executingTask` whether `_executingTask` has been
assigned: an asynchronous method runs on its caller's stack up to the first await
that suspends, and an exception before that finds the field null. `Suspend` is that
moment. `startToken` is the token the host passes to `StartAsync`: linked to
`ApplicationStopping` while the host starts, `"dead"` afterwards. `Watch` returns at
once (file system; `raising`) or polls (Git; `"watching"`). `IProvider` lets a provider
suspend wherever it returns a task, and so does the module.

### ConfigurationServer

Extends `ConfigurationHosting` and instantiates `GitProvider`, whose token is the start
token of the host. Its actions conjoin those of the two: `Poll` is a step of the loop
that leaves the host alone, `Notify` is `onChange` of the one and `OnChange` of the other,
`WatchThrows` is the cancelled delay that throws into the catch of `ExecuteAsync`.
What the composition knows, and neither part does, is when `ExecuteAsync` first
suspends. Both providers of the repository list their paths and start to watch
without suspending, and the first poll of Git blocks the thread of `StartAsync` (up to a
minute) until the loop delays. So a failure comes before `_executingTask` is assigned, or
is the delay's, whose token is cancelled and ends the wait of the catch for itself.
`provider = "other"` keeps everything `IProvider` allows. The polling interval is taken
to be above zero.

### UnitOfWork

`provider` is the database: in memory, without retries, or with a retrying
strategy. `mode` is `"transaction"` when the call has its own. Each entity has one change
(`Kind`: it is added, modified or deleted), which the `tracker` has not seen, holds
pending or has accepted as saved. An entity is `business` or not: line 405 of
`UnitOfWork.cs` keeps only those that are `IBusinessEntity` for the events (`Entries`),
while line 418 saves every tracked change (`Pending`), so that a change of any other, a
join row or an owned type, is saved without an event. `written` is what the current transaction has been
given, `database` what is durable. `SaveInside` is a save made by the operation, also
the one of a repository that calls `ExecuteAsync` again. A save raises its three
events in their order; their handlers, if an event is raised at all, may change other
entities, which the save then takes along (`Handlers`, `smuggled`) or, if it fails,
leaves to the next one. The inner `BeginTransaction` of the
code (lines 220-233) cannot be reached: `ExecuteInTransactionAsync` has begun the
transaction that line 214 finds. An exception may turn into a fatal one on its way,
because the catch blocks register it under the time and two of one tick make the
registry throw. History: `entrusted` (what the application changed
outside operations), `acknowledged` (entities whose call has returned), `forgotten` (entries
the context accepted in a transaction that was then rolled back) and `unverified`
(written by a commit that failed and was taken for a success, because
`verifySucceeded` always says true).

`TransactionalStore` is the contract: changes are durable, in the open transaction or
declared lost, and a transaction ends whole or not at all. The refinement mapping
(`ImplementsStore`) takes `database` for the durable changes, `written` for the open
transaction, `forgotten` and `unverified` for the lost, and `acknowledged` for what was
promised.

### UnitOfWorkAction

Three tasks share the context: the one of line 262, the one of line 274 and what
the async function does after it. Each looks for a transaction, runs the operation and
saves; a context that is used while it saves throws. No failure of the database is
modelled, so that whatever goes wrong is the overload's own doing. What unsynchronised
calls do to the change tracker's own structures is left out.

### ResponsibilityChain and PluginService

The function of an execution, its index and the function variable are shared by all
its middlewares (`index`, `func`); `frames` is the stack of middlewares, each with
the function it was given as its next, at the time it was given. `kind` selects what
differs: only `"async"` sorts and filters, `"types"` resolves a type, so that something
else than a middleware becomes a null task, after the index has moved. A middleware
returns, throws, or calls its next up to `MaxCalls` times, catching what it throws. A
stable sort is the one order that agrees with `Precede`.

`PluginService` loads the plugins of a directory in any order, stops at one that cannot
be loaded (and then configures none), calls `ConfigureServices` of those enabled, and
makes chains of those enabled at the time. Applications add plugins and switch them on
and off once there is a service, and chain middlewares of their own (`OwnLists`). The code
looks at `Enable` plugin by plugin while it configures them; the model takes what is
enabled when it starts, so that a `ConfigureServices` that switches another plugin is left
out.

### Notifier

Each step is one read or write of a field of the `Instance`, as nothing orders two
notifications. A field is represented by the notification it comes from. `source` is
what was given: a message with a `MessageData` (`"own"`), one that `New` makes, which has
none (`"new"`: all overloads for strings and data), or nothing (`"instance"`). A sorted
dictionary that two threads add to may lose either entry or, enumerated while it is
added to, throw. `SameTick` is a message that meets another in the same tick of the
clock: `Add` throws, or `ContainsKey` drops it. `overlapped` and `ticks` are history.
Left out are a clock that steps back, after which the last message inserted is not the last
of the sorted dictionary, and what changes between the two enumerations of the messages
that `AsHubMessage` makes: here it makes one.
Nothing is assumed fair, and nothing depends on delivery, which is the hub's.

## 3. The runs

| Run | Instance | Checks | States |
|---|---|---|---|
| `client` | optional source, JSON parser, RabbitMQ; 3 documents, one of which the parser rejects among its entries; 1 handler thread; each kind of event at least once | `TypeOK`, `CurrentWhenTrusted`, `NotifiedOfHash`, `EventuallyCurrent` | 831 000 |
| `json_parser` | 7 documents and a malformed text, 3 calls | `TypeOK`, `ReturnsTheLeaves`, `StackRestored`, `ThrowsOnlyOnAmbiguity`, `ParseEnds` | 1 045 |
| `git` | 2 files, one outside the pattern, 2 versions, 2 tasks, 2 commits, one time out, one failed task, one failed `onChange` | `TypeOK`, `UnreportedExplained`, `ReportedFilesExist`, `ServesRemote`, `CancelEndsWatch` | 1.0 million |
| `server` | 2 files, each provider; a commit, a late and a failed poll | `TypeOK`, `FailureTerminates`, `StopWhileStartingEnds`, `HostStops`, `KnownProvidersTerminate`, `ServesWhileWatching`, `ImplementsHosting`, `ImplementsGit` | 89 000 |
| `unit_of_work` | one entity to add, one to delete, each of them a business entity or not, 2 attempts, 2 transient failures, 1 fatal one | `TypeOK`, `AllOrNothing`, `Durable`, `EventsPrecedeSaves`, `ImplementsStore`, `CallsEnd` | 446 000 |
| `plugins` | 3 plugins in the directory (two of one event and level, one of none), one added later, one object that is no plugin; 3 own lists; 2 calls of next | `TypeOK`, `InOrder`, `LevelsAscend`, `FinalComesLast`, `OverrunExplained`, `WholeChainRuns`, `UnconfiguredExplained`, `ExecutionEnds` | 451 000 |
| `notifier` | 3 notifications, 2 at a time, symmetric | `TypeOK`, `OwnPayload`, `ThrowsExplained`, `LaterPayloadsInclude` | 450 000 |

Why these bounds are enough to be interesting. The client's failures need two
versions to confuse, one thread beside the application's, and each disturbance
once; the second change shows that a client recovers from the first. The
brokers' clients call a consumer's handler one message at a time, which is why one
handler thread is the real configuration. The parser's documents hold every
shape of node and each of the three ways to name a key twice (a `:` in a name,
case, an index); three calls show a residue and what follows it. Two tasks of
the Git provider are an abandoned one and the current one; two commits are one
to compare and one to slip in. In the unit of work two entities separate the one
saved by a nested call from the one that was not, or the one with an event from the one
without, and two transient failures let
a retry fail again. In the server every disturbance of the clone is already in the `git`
run; here one of each meets every phase of the host. Two calls of next are a
call and its retry; the own lists are an empty one, one without a plugin (which the
asynchronous chain indexes past its end) and a mixed one. Of three notifications two
overlap, before, after or around the third; their names are symmetric because no
definition tells them apart. The proofs of section 4 remove these bounds for the safety
properties.

Deadlock checking is off because each system really may stop: budgets are
spent, the host has stopped, the loop has returned, no call is under way.

Fairness. Only what the code and its environment do by themselves is fair: a Load
goes on (a request ends by `RequestTimeout`), a broker's thread takes what is
queued, a Git task goes on, `Watch` goes on (its waits have timeouts), the host goes on
and its shutdown timeout expires, an awaited call ends, an operation, a save, a
commit and the delay between attempts end, a parser goes on, a middleware returns, throws
or calls on. Changes, commits, reloads,
failures, losses, cancellation and requests to stop are never fair.

### Disagreements with the code's own words

Each of these runs expects TLC to find a violation, and `PROJECT.json` quotes the words.

- `client_overlap_loses_change`: the application's Load has the old document, the one of
  the notification the new. Both store their hash and clear the dictionary, the first
  fills it, and the second meets a key it has already and throws: the client is left with
  nothing to do, the old document's data and the new one's hash.
- `json_parser_residue`: after an exception for a duplicate key, the next document
  comes back under the path the exception left on the stack.
- `git_race_loses_change`: a commit between the fetch that is compared and the
  pull is served and never reported.
- `hosting_never_publishes`: `_publisher` is never assigned, so nothing is published.

- `unit_of_work_action`: on a relational database an `Action` given to `ExecuteAsync` may
  take effect two or three times, and the call may return before any of them.

Seen while modelling and not made into runs (those with words of the code's own to
disagree with are findings without a run):

- for a provider that suspends before it fails, the catch of `ExecuteAsync` awaits its
  own task and the application is not terminated; `server` shows, and
  `KnownProvidersDoNotHang` proves, that the two providers of the repository escape it;
- a message without a `MessageData`, which is what every string overload of the notifier
  makes, throws after the `Instance` was overwritten; `New` tests its exception the
  wrong way round;
- the final function of a chain is skipped by any middleware that throws or does not call
  next; only the asynchronous chain observes `Level`; `AddMiddleware` accepts exactly the
  types it should refuse; `Insist.Throw` of a list never throws;
- an optional source whose Load fails stores null as `Data`, and the next lookup throws;
  the Redis handler passes the channel, so that a repeated hash reloads; `StopAsync`
  cancels a source that nothing listens to; a poll that timed out is still running at
  the next one; with a unit of work `DeleteAsync` ignores `softDelete`.

## 4. The proofs

TLAPS checks the following for every value of the constants that satisfies the
named assumptions (sets of documents, threads, files, tasks and entities of any
size, budgets that are any natural numbers).

| Module | Theorem | Establishes |
|---|---|---|
| `RemoteConfigurationProvider_proofs` | `TypeCorrect`, `TrustedClientIsCurrent`, `NotifiesOfHash` | `[]TypeOK`, `[]CurrentWhenTrusted`, `NotifiedOfHash` |
| `JsonConfigurationParser_proofs` | `TypeCorrect`, `ReturnsEveryLeaf`, `StackIsRestored`, `ThrowsOnAmbiguity`, `UnambiguousAreParsedAlone` | `[]TypeOK`, `[]ReturnsTheLeaves`, `[]StackRestored`, `[]ThrowsOnlyOnAmbiguity`; `[]ParsesTheStream`, if no document gives one key to two scalars |
| `GitProvider_proofs` | `TypeCorrect`, `UnreportedIsExplained`, `ReportedFilesAreThere` | `[]TypeOK`, `[]UnreportedExplained`, `ReportedFilesExist` |
| `ConfigurationHosting_proofs` | `TypeCorrect`, `FailureIsNotSwallowed` | `[]TypeOK`, `[]FailureTerminates` |
| `ConfigurationServer_proofs` | `ServerIsAHosting`, `ServerDrivesGit`, `ServerSwallowsNoFailure`, `ServerExplainsUnreported`, `KnownProvidersDoNotHang` | the server's steps are steps of `ConfigurationHosting!Spec`; `ImplementsGit`; `[]FailureTerminates`; `[]UnreportedExplained` of its clone; a known provider waits for itself only under a cancelled token |
| `UnitOfWork_proofs` | `TypeCorrect`, `CallsAreAtomic`, `AcknowledgedIsDurable`, `EventsComeFirst`, `UnitOfWorkIsAStore`, `PromisesAreKept`, `TransactionsAreAtomic` | `[]TypeOK`, `[]AllOrNothing`, `[]Durable`, `[]EventsPrecedeSaves`, `ImplementsStore`; and, through that refinement, the invariant and the action property of the contract |
| `PluginService_proofs` | `TypeCorrect`, `MiddlewaresRunInOrder`, `LevelsAreObserved`, `FinalIsLast`, `OverrunsAreExplained`, `ChainsAreComplete`, `UnconfiguredAreExplained` | the seven invariants of `plugins` |
| `Notifier_proofs` | `TypeCorrect`, `PayloadsAreOwn`, `ThrowsAreExplained`, `LaterPayloadsKeep` | the four invariants of `notifier` |

None of the properties is inductive. What has to be added:

- client: while `trusted`, at most one Load is under way and the parser's stack is
  empty (`Serial`); the Load under way has done to hash and buffer what its place
  says (`Progress`); between fetches the buffer is the document of the hash
  (`HashNamesData`); and the served document is held, being fetched, about to be
  fetched, or in a message that will cause a fetch (`ServedIsComing`). The last is the
  heart of it: a message is skipped only when its hash is the client's, and then
  the client is where the message wants it.
- JSON parser, in the middle of a visit (`Visiting`): the calls still to make are links of a
  chain (`Chained`), each leaving the stack as the next one finds it and the last leaving it
  as the visit began, and the first finds on it the names of the place it starts from; no
  place that is still to be visited lies on the way to another (`Apart`), so that each
  scalar is visited by one call at most; and the dictionary has exactly the entries of the
  scalars that no call is about to visit (`Visited`), no two of which share a key. A
  visited container hands on what was `Pending` to its elements, a scalar moves from there
  to `Visited`. What is needed of sequences is in lemmas: `FlattenSeq` of a concatenation is
  the concatenation of the two results, which is why the residue of an exception is in front
  of every path and cannot decide whether two of them are equal; and of two lists of calls,
  one after the other, chain, apartness and what is pending follow from those of each.
- Git: the loop has a task exactly while it waits or notifies, and one that notifies
  has a task that is done (`LoopOwnsTask`), so that a file stays `InFlight` until it is
  reported or lost; and what is unreported is in the working directory
  (`DirtyIsPresent`), so that filtering a listing does not drop it. Until a wait times out
  the task waited for is the only one, so what it has listed stays (`OneTask`).
- hosting: only the catch waits for itself, and once a failure was caught nothing
  else of `ExecuteAsync` runs (`FailureIsCaught`).
- unit of work: what the context believes to be saved is saved or explained
  (`AcceptedIsKept`); a call that owns its transaction has it until it ends
  (`TransactionOfCall`); and what an operation has added is tracked
  (`OperationIsTracked`), from which `Durable` follows when the call returns. The
  refinement needs `Durable` itself: a promise the store makes must be there to keep.
- server: a service of a known provider that has suspended is in the loop, in the catch
  or done, and in the catch only under a cancelled token; the loop's task has listed
  files of the provider's own, which is what makes `Notify` a step of both parts.
  That the clone follows `GitProvider` needs no invariant, only that a cancelled token
  stays cancelled; with it the server has what `GitProvider_proofs` shows.
- plugins: the shared index is the number of middlewares run, the list stays as it was
  arranged, and each frame's next is the final function exactly when the frame is that
  of the last (`FinalIsDue`); `CallsFit` ties calls of next to the frames above, from which
  an index past the end needs a repeated call. That the arranged list ascends by level
  follows from the definition of the sort as the order `Precede` gives.
- notifier: a notification that has overlapped no other is the only one running
  (`Alone`); each field it has copied is its own, and its target is the Instance
  (`Undisturbed`). Once it is sent there is an Instance, which nobody is about to replace,
  and its messages, what is being inserted or enumerated and every payload under way
  hold the one that was sent (`Kept`). What is held and seen on the way is typed by place
  (`Placed`), from which an Instance that is read has a message.

The initial condition, the steps of each group of actions and the temporal
conclusion are separate lemmas, one step per action.

Only model-checked: every liveness property (`EventuallyCurrent`, `ParseEnds`,
`ServesRemote`, `CancelEndsWatch`, `StopWhileStartingEnds`, `HostStops`,
`KnownProvidersTerminate`, `ServesWhileWatching`, `CallsEnd`, `ExecutionEnds`) and the fairness
part of `ImplementsHosting`, because the prover does not handle `ENABLED`; and
`UnitOfWorkAction`, whose run shows a disagreement. The library's induction theorems take
an operator as a parameter and cannot be used here. What `JsonConfigurationParser_proofs`
needs of them, over numbers and over sequences, it has as lemmas about sets
(`NaturalInduction`, `SequenceInduction`), proved from the least element of a set of
numbers; `FlattenSeq`, whose definition is recursive, is reasoned about through them.

## 5. Not modelled

Logging, formatting and options that only select an implementation; the reflection that
finds the types of a plugin's assembly; expression trees of the specifications; Serilog's
and the SMTP clients' configuration; the source generator; samples, with the scripts of
their pages. Of the class library and of Entity Framework only what the code relies on is
stated, in definitions `PROJECT.json` marks external. The hub of the notifier is SignalR's:
what happens to a payload after the call of its clients is not modelled. `PROJECT.json` lists
every component with its status, and the hazards that no property covers yet.

## 6. Plan

Done: the client, the JSON parser, the Git provider, hosting, the server composed of the
last two, the unit of work with its contract and both overloads, the plugins and the
notifier. Next:

1. `IniConfigurationParser` and `XmlConfigurationParser`, with the JSON parser against one
   abstract parser (a document to its leaves, or an exception).
2. `ConfigurationDelivery`: an abstract register that is eventually read, implemented by
   the client, and by the client behind `ConfigurationServer` as the source of changes.
3. `FilesystemProvider`: events during a write, the `~` names, topics made from paths.
4. The rest of `Data`: soft deletion without a unit of work, paging.
5. `HealthCheck` (the start-up flag).
6. Proofs: that a refinement mapping of 2 maps every step.

Runs are kept few, one for each question: modules that share a question (the parsers,
the chains) share a run.
