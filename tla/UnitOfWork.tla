------------------------------- MODULE UnitOfWork -------------------------------
(***************************************************************************)
(* UnitOfWork.ExecuteAsync<TResult> over one DbContext: an operation of the   *)
(* application and SaveEntitiesChangesAsync, in a transaction that the        *)
(* execution strategy opens, commits and, if it is a retrying one, repeats.    *)
(* Only the first call on a unit of work gets the strategy; a later one, and    *)
(* the nested one a repository makes inside an operation, runs and saves as is.  *)
(*                                                                         *)
(* An operation adds, modifies or deletes entities; each entity has the one     *)
(* change that is made to it, which the tracker has not seen, holds pending, or   *)
(* has accepted as saved.  The context, its tracker and the strategies are those *)
(* of Entity Framework, as the code uses them.                               *)
(***************************************************************************)
EXTENDS Naturals

CONSTANTS
    Entities,
    Kind,          \* what is done to each entity
    MaxAttempts,   \* how often a retrying strategy runs an operation
    Budget         \* how many failures of each kind may happen

Failures == {"transient", "fatal"}
Providers == {"inMemory", "nonRetrying", "retrying"}

\* SaveEntitiesChangesAsync raises its events in this order.
Kinds == <<"Added", "Modified", "Deleted">>

ASSUME KindAssumption == Kind \in [Entities -> {Kinds[i] : i \in 1..3}]
ASSUME MaxAttemptsAssumption == MaxAttempts \in Nat \ {0}
ASSUME BudgetAssumption == Budget \in [Failures -> Nat]

VARIABLES
    provider,      \* the database provider, by its support of transactions and retries
    business,      \* the entities that are IBusinessEntity
    strategy,      \* _executionStrategy is not null
    tx,            \* Database.CurrentTransaction: "none", the "strategy"'s or the "user"'s
    database,      \* entities that are durable
    written,       \* entities the current transaction has inserted
    tracker,       \* whether the context tracks the change of each entity
    announced,     \* entities OnEntitiesAdded, -Updated or -Deleted was raised for
    pc, mode,      \* where the call is, and whether it owns a transaction
    operation, todo,  \* the entities its operation changes, and those it has left
    attempt, failure,
    before,        \* history: the database as the call found it
    entrusted,     \* history: entities the application has changed outside operations
    acknowledged,  \* history: entities whose call has returned since they were changed
    forgotten,     \* history: entries accepted in a transaction that was rolled back
    unverified,    \* history: of a commit that failed and was taken for a success
    smuggled,      \* history: entities a handler of the events has changed
    budget
setting == <<provider, business>>
context == <<tx, database, written, tracker, announced>>
call == <<pc, mode, operation, todo, attempt, failure, before>>
history == <<entrusted, acknowledged, forgotten, unverified, smuggled>>
vars == <<setting, strategy, context, call, history, budget>>

Pending == {e \in Entities : tracker[e] = "pending"}
Spend(k) == budget[k] > 0 /\ budget' = [budget EXCEPT ![k] = @ - 1]

Init ==
    /\ provider \in Providers
    /\ business \in SUBSET Entities
    /\ strategy = FALSE
    /\ tx = "none"
    /\ database = {} /\ written = {} /\ announced = {}
    /\ tracker = [e \in Entities |-> "untouched"]
    /\ pc = "idle" /\ mode = "plain"
    /\ operation = {} /\ todo = {}
    /\ attempt = 1 /\ failure = "fatal"
    /\ before = {}
    /\ entrusted = {} /\ acknowledged = {} /\ forgotten = {} /\ unverified = {}
    /\ smuggled = {}
    /\ budget = Budget
-------------------------------------------------------------------------------
(***************************************************************************)
(* The application between its calls.  A retrying strategy refuses a           *)
(* transaction begun outside it, and the in-memory provider has none.          *)
(***************************************************************************)
Track(e) ==
    /\ pc = "idle" /\ tracker[e] = "untouched"
    /\ tracker' = [tracker EXCEPT ![e] = "pending"]
    /\ entrusted' = entrusted \cup {e}
    /\ UNCHANGED <<setting, strategy, tx, database, written, announced, call,
                   acknowledged, forgotten, unverified, smuggled, budget>>

BeginTransaction ==
    /\ pc = "idle" /\ tx = "none" /\ provider = "nonRetrying"
    /\ tx' = "user"
    /\ UNCHANGED <<setting, strategy, database, written, tracker, announced, call, history, budget>>

Committed == database \cup written

\* Mutant: what an ended transaction had written goes on being seen.
KeepWritten == tx' = "none" /\ UNCHANGED written

CloseTransaction == tx' = "none" /\ written' = {}

CommitTransaction ==
    /\ pc = "idle" /\ tx = "user"
    /\ database' = Committed
    /\ CloseTransaction
    /\ UNCHANGED <<setting, strategy, tracker, announced, call, history, budget>>

RollbackTransaction ==
    /\ pc = "idle" /\ tx = "user"
    /\ CloseTransaction
    /\ forgotten' = forgotten \cup (written \ database)
    /\ UNCHANGED <<setting, strategy, database, tracker, announced, call,
                   entrusted, acknowledged, unverified, smuggled, budget>>
-------------------------------------------------------------------------------
(***************************************************************************)
(* ExecuteAsync.                                                             *)
(***************************************************************************)
\* A second call, an in-memory database or a transaction that is already open
\* leave the operation and the save without a transaction of their own.
Owns == ~strategy /\ provider # "inMemory" /\ tx = "none"

ExecuteAsync(entities) ==
    /\ pc = "idle"
    /\ pc' = "operation"
    /\ operation' = entities /\ todo' = entities
    /\ strategy' = TRUE
    /\ mode' = IF Owns THEN "transaction" ELSE "plain"
    /\ tx' = IF Owns THEN "strategy" ELSE tx
    /\ attempt' = 1 /\ before' = database
    /\ acknowledged' = acknowledged \ entities
    /\ UNCHANGED <<setting, database, written, tracker, announced, failure,
                   entrusted, forgotten, unverified, smuggled, budget>>

\* AddAsync, Update or Remove of Entity Framework, as the repositories call them.
ChangeEntity(e) ==
    /\ pc = "operation" /\ e \in todo
    /\ todo' = todo \ {e}
    /\ tracker' = [tracker EXCEPT ![e] = "pending"]
    /\ forgotten' = forgotten \ {e}
    /\ unverified' = unverified \ {e}
    /\ UNCHANGED <<setting, strategy, tx, database, written, announced, pc, mode, operation,
                   attempt, failure, before, entrusted, acknowledged, smuggled, budget>>

\* The pending entries SaveEntitiesChangesAsync raises its events from; what else
\* the context tracks is saved all the same.
Entries == Pending \cap business

\* The entities of the events raised by the time n kinds were processed.
Raised(n) == {e \in Entries : \E i \in 1..n : Kind[e] = Kinds[i]}
Announce(n) == announced' = announced \cup Raised(n)

\* What a handler tracks while the events are raised, if any is, is not in the
\* array of entries they are raised from.
Handlers == {S \in SUBSET {e \in Entities : tracker[e] = "untouched"} : Entries = {} => S = {}}
Smuggle(S) == smuggled' = smuggled \cup S

Accept(S) == tracker' = [e \in Entities |-> IF e \in S THEN "accepted" ELSE tracker[e]]

\* Mutant: every save commits, transaction or not.
SaveAndCommit(S) ==
    /\ Accept(S)
    /\ database' = database \cup S
    /\ UNCHANGED written

\* SaveChanges is atomic, and accepts the changes it has written.
SaveChanges(S) ==
    /\ Accept(S)
    /\ IF tx = "none"
       THEN database' = database \cup S /\ UNCHANGED written
       ELSE written' = written \cup S /\ UNCHANGED database

\* Mutant: the events of deleted entities are not raised.
SaveWithoutDeleted(S) == Announce(2) /\ Smuggle(S) /\ SaveChanges(Pending \cup S)

\* SaveEntitiesChangesAsync, whose handlers track S.
SaveEntitiesChanges(S) == Announce(3) /\ Smuggle(S) /\ SaveChanges(Pending \cup S)

\* The operation saves itself, or calls ExecuteAsync as CommandRepository does.
SaveInside ==
    /\ pc = "operation" /\ Pending # {}
    /\ \E S \in Handlers : SaveEntitiesChanges(S)
    /\ UNCHANGED <<setting, strategy, tx, call, entrusted, acknowledged, forgotten, unverified, budget>>

Return ==
    /\ pc' = "idle"
    /\ acknowledged' = acknowledged \cup operation \cup entrusted

\* Mutant: a call without a transaction of its own returns without saving.
SaveIfOwner ==
    /\ pc = "operation" /\ todo = {}
    /\ IF mode = "plain"
       THEN Return /\ UNCHANGED <<announced, tracker, database, written, smuggled>>
       ELSE SaveEntitiesChanges({}) /\ pc' = "commit" /\ UNCHANGED acknowledged
    /\ UNCHANGED <<setting, strategy, tx, mode, operation, todo, attempt, failure, before,
                   entrusted, forgotten, unverified, budget>>

Save ==
    /\ pc = "operation" /\ todo = {}
    /\ \E S \in Handlers : SaveEntitiesChanges(S)
    /\ IF mode = "plain" THEN Return ELSE pc' = "commit" /\ UNCHANGED acknowledged
    /\ UNCHANGED <<setting, strategy, tx, mode, operation, todo, attempt, failure, before,
                   entrusted, forgotten, unverified, budget>>

\* The operation throws, or a save of its changes does, once the events of some
\* kinds were raised, whose handlers may have tracked other entities.  A repository
\* registers the exception it passes on under the time, and a second one of the same
\* tick makes it throw another, fatal one.
Fail(kind) ==
    /\ pc = "operation"
    /\ Spend(kind)
    /\ failure' \in {kind, "fatal"}
    /\ pc' = "failed"
    /\ \E n \in 0..3, S \in Handlers :
          /\ Raised(n) = {} => S = {}
          /\ Announce(n)
          /\ tracker' = [e \in Entities |-> IF e \in S THEN "pending" ELSE tracker[e]]
    /\ UNCHANGED <<setting, strategy, tx, database, written, mode, operation, todo,
                   attempt, before, history>>

Commit ==
    /\ pc = "commit"
    /\ database' = Committed
    /\ CloseTransaction
    /\ Return
    /\ UNCHANGED <<setting, strategy, tracker, announced, mode, operation, todo, attempt,
                   failure, before, entrusted, forgotten, unverified, smuggled, budget>>

\* The connection is lost in the commit, which may have taken place. A retrying
\* strategy asks verifySucceeded, and the function it was given says true.
FailCommit(kind) ==
    /\ pc = "commit"
    /\ Spend(kind)
    /\ CloseTransaction
    /\ database' \in {database, Committed}
    /\ IF provider = "retrying" /\ kind = "transient"
       THEN /\ Return
            /\ unverified' = unverified \cup (written \ database')
            /\ UNCHANGED forgotten
       ELSE /\ pc' = "idle"
            /\ forgotten' = forgotten \cup (written \ database')
            /\ UNCHANGED <<acknowledged, unverified>>
    /\ UNCHANGED <<setting, strategy, tracker, announced, mode, operation, todo, attempt,
                   failure, before, entrusted, smuggled>>
-------------------------------------------------------------------------------
\* Mutant: attempts are not limited.
CanAlwaysRetry == mode = "transaction" /\ provider = "retrying" /\ failure = "transient"

CanRetry ==
    /\ mode = "transaction" /\ provider = "retrying"
    /\ failure = "transient" /\ attempt < MaxAttempts

\* The transaction is disposed, and the operation runs in a new one; what the
\* tracker has accepted stays accepted.
Retry ==
    /\ pc = "failed" /\ CanRetry
    /\ pc' = "operation"
    /\ todo' = operation
    /\ attempt' = attempt + 1
    /\ written' = {}
    /\ forgotten' = forgotten \cup (written \ database)
    /\ UNCHANGED <<setting, strategy, tx, database, tracker, announced, mode, operation,
                   failure, before, entrusted, acknowledged, unverified, smuggled, budget>>

\* Mutant: the strategy only gives up where it never retries.
GiveUpUnlessRetrying ==
    /\ pc = "failed" /\ ~CanRetry /\ provider # "retrying"
    /\ pc' = "idle"
    /\ IF mode = "transaction"
       THEN CloseTransaction /\ forgotten' = forgotten \cup (written \ database)
       ELSE UNCHANGED <<tx, written, forgotten>>
    /\ UNCHANGED <<setting, strategy, database, tracker, announced, mode, operation, todo,
                   attempt, failure, before, entrusted, acknowledged, unverified, smuggled, budget>>

\* The exception leaves ExecuteAsync; its own transaction is rolled back.
GiveUp ==
    /\ pc = "failed" /\ ~CanRetry
    /\ pc' = "idle"
    /\ IF mode = "transaction"
       THEN CloseTransaction /\ forgotten' = forgotten \cup (written \ database)
       ELSE UNCHANGED <<tx, written, forgotten>>
    /\ UNCHANGED <<setting, strategy, database, tracker, announced, mode, operation, todo,
                   attempt, failure, before, entrusted, acknowledged, unverified, smuggled, budget>>
-------------------------------------------------------------------------------
Application ==
    \/ \E e \in Entities : Track(e)
    \/ BeginTransaction
    \/ CommitTransaction
    \/ RollbackTransaction
    \/ \E entities \in SUBSET (Entities \ Committed) \ {{}} : ExecuteAsync(entities)

Running ==
    \/ \E e \in Entities : ChangeEntity(e)
    \/ Save
    \/ Commit
    \/ Retry
    \/ GiveUp

Next ==
    \/ Application
    \/ Running
    \/ SaveInside
    \/ \E kind \in Failures : Fail(kind) \/ FailCommit(kind)

\* An operation goes on, and saves, commits and delays between retries end.
Spec == Init /\ [][Next]_vars
FairSpec == Spec /\ WF_vars(Running)
-------------------------------------------------------------------------------
TypeOK ==
    /\ provider \in Providers
    /\ business \subseteq Entities
    /\ strategy \in BOOLEAN
    /\ tx \in {"none", "user", "strategy"}
    /\ tracker \in [Entities -> {"untouched", "pending", "accepted"}]
    /\ {database, written, announced, operation, todo, before} \subseteq SUBSET Entities
    /\ {entrusted, acknowledged, forgotten, unverified, smuggled} \subseteq SUBSET Entities
    /\ pc \in {"idle", "operation", "commit", "failed"}
    /\ mode \in {"plain", "transaction"}
    /\ attempt \in 1..MaxAttempts
    /\ failure \in Failures
    /\ budget \in [Failures -> Nat]

\* A call that owns a transaction makes nothing durable before it commits,
\* whatever its operation and the calls nested in it save and however often it runs.
AllOrNothing == mode = "transaction" /\ pc # "idle" => database = before

\* What a call that returned was given is durable, or in the application's own
\* transaction, unless its commit failed and was not looked into, or it was saved
\* in an attempt that was rolled back and no later attempt has made it again.
Durable == acknowledged \subseteq Committed \cup unverified \cup forgotten

\* No change of a business entity reaches the database without its event before it,
\* other than those that the handlers of the events make themselves.  The changes of
\* other entities are saved beside them, without an event.
EventsPrecedeSaves == Committed \cap business \subseteq announced \cup smuggled

\* The unit of work is a transactional store: what was forgotten or not verified
\* is all it may lose, and nothing of a transaction is durable before its end.
Store == INSTANCE TransactionalStore WITH
    durable <- database,
    open <- written,
    lost <- forgotten \cup unverified,
    promised <- acknowledged,
    inTransaction <- tx # "none"
ImplementsStore == Store!Spec

\* Every call returns or throws.
CallsEnd == pc # "idle" ~> pc = "idle"
===============================================================================
