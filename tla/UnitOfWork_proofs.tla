--------------------------- MODULE UnitOfWork_proofs ---------------------------
(***************************************************************************)
(* The safety of the unit of work, and that it implements TransactionalStore,   *)
(* for any entities, any number of attempts and any number of failures.        *)
(***************************************************************************)
EXTENDS UnitOfWork, TLAPS

Accepted == {e \in Entities : tracker[e] = "accepted"}
Tracked == Accepted \cup Pending

\* What the context believes to be saved is saved, or one of the two histories
\* says why it is not.
AcceptedIsKept == Accepted \subseteq Committed \cup unverified \cup forgotten

\* A call that owns a transaction has it until it ends; nothing is written
\* without a transaction.
TransactionOfCall ==
    /\ pc # "idle" /\ mode = "transaction" => tx = "strategy"
    /\ pc = "commit" => mode = "transaction" /\ Pending = {} /\ todo = {}
    /\ tx = "none" => written = {}

\* What the operation has added so far, and what was added outside it, is tracked;
\* nothing of it counts as acknowledged before the call returns.
OperationIsTracked ==
    /\ todo \subseteq operation
    /\ entrusted \subseteq Tracked
    /\ pc \in {"operation", "commit"} => operation \ todo \subseteq Tracked
    /\ pc # "idle" => operation \cap acknowledged = {}

IInv ==
    /\ TypeOK
    /\ AcceptedIsKept
    /\ TransactionOfCall
    /\ OperationIsTracked
    /\ AllOrNothing
    /\ Durable
    /\ EventsPrecedeSaves
-------------------------------------------------------------------------------
\* The invariant holds before anything is tracked.
LEMMA InitIInv == Init => IInv
<1> SUFFICES ASSUME Init
             PROVE  IInv
    OBVIOUS
<1>1. TypeOK
    <2>1. attempt \in 1..MaxAttempts
        BY MaxAttemptsAssumption DEF Init
    <2>2. /\ {database, written, announced, operation, todo, before} \subseteq SUBSET Entities
          /\ {entrusted, acknowledged, forgotten, unverified} \subseteq SUBSET Entities
        BY DEF Init
    <2>3. strategy \in BOOLEAN
        BY DEF Init
    <2>4. QED
        BY <2>1, <2>2, <2>3, BudgetAssumption DEF Init, TypeOK, Failures
<1>2. Accepted = {} /\ Pending = {}
    BY DEF Init, Accepted, Pending
<1>3. AcceptedIsKept /\ Durable /\ EventsPrecedeSaves
    BY <1>2 DEF Init, AcceptedIsKept, Durable, EventsPrecedeSaves, Committed
<1>4. TransactionOfCall /\ OperationIsTracked /\ AllOrNothing
    BY <1>2 DEF Init, TransactionOfCall, OperationIsTracked, AllOrNothing
<1>5. QED
    BY <1>1, <1>3, <1>4 DEF IInv

USE DEF AcceptedIsKept, TransactionOfCall, OperationIsTracked, AllOrNothing, Durable,
        EventsPrecedeSaves, Accepted, Tracked, Pending, Committed
USE DEF setting
USE MaxAttemptsAssumption

\* When a save has processed every kind, every pending change of a business entity
\* was announced.
LEMMA AllRaised == Raised(3) = Pending \cap business
  BY KindAssumption DEF Raised, Entries

\* What the application does between calls preserves it.
LEMMA ApplicationStep == IInv /\ Application => IInv'
<1> SUFFICES ASSUME IInv, Application
             PROVE  IInv'
    OBVIOUS
<1>1. ASSUME NEW e \in Entities, Track(e)
      PROVE  IInv'
    BY <1>1 DEF IInv, TypeOK, Track, call
<1>2. CASE BeginTransaction
    BY <1>2 DEF IInv, TypeOK, BeginTransaction, call, history
<1>3. CASE CommitTransaction
    BY <1>3 DEF IInv, TypeOK, CommitTransaction, CloseTransaction, call, history
<1>4. CASE RollbackTransaction
    BY <1>4 DEF IInv, TypeOK, RollbackTransaction, CloseTransaction, call
<1>5. ASSUME NEW S \in SUBSET (Entities \ Committed), ExecuteAsync(S)
      PROVE  IInv'
    <2>1. TypeOK'
        BY <1>5 DEF IInv, TypeOK, ExecuteAsync, Owns
    <2>2. TransactionOfCall' /\ AllOrNothing'
        BY <1>5 DEF IInv, TypeOK, ExecuteAsync, Owns
    <2>3. AcceptedIsKept' /\ OperationIsTracked' /\ Durable' /\ EventsPrecedeSaves'
        BY <1>5 DEF IInv, TypeOK, ExecuteAsync
    <2>4. QED
        BY <2>1, <2>2, <2>3 DEF IInv
<1>6. QED
    BY <1>1, <1>2, <1>3, <1>4, <1>5 DEF Application

\* So does every step of a call.
LEMMA RunningStep == IInv /\ Running => IInv'
<1> SUFFICES ASSUME IInv, Running
             PROVE  IInv'
    OBVIOUS
<1>1. ASSUME NEW e \in Entities, ChangeEntity(e)
      PROVE  IInv'
    BY <1>1 DEF IInv, TypeOK, ChangeEntity
<1>2. CASE Save
    <2>1. TypeOK'
        BY <1>2 DEF IInv, TypeOK, Save, SaveEntitiesChanges, Announce, Raised, Entries, Smuggle,
            SaveChanges, Accept, Handlers, Return
    <2>2. TransactionOfCall' /\ AllOrNothing'
        BY <1>2 DEF IInv, TypeOK, Save, SaveEntitiesChanges, SaveChanges, Accept, Handlers, Return
    <2>3. AcceptedIsKept' /\ EventsPrecedeSaves'
        BY <1>2, AllRaised DEF IInv, TypeOK, Save, SaveEntitiesChanges, Announce, Smuggle,
            SaveChanges, Accept, Handlers
    <2>4. OperationIsTracked'
        BY <1>2 DEF IInv, TypeOK, Save, SaveEntitiesChanges, SaveChanges, Accept, Handlers, Return
    <2>5. Durable'
        BY <1>2, <2>3 DEF IInv, TypeOK, Save, SaveEntitiesChanges, SaveChanges, Accept, Handlers, Return
    <2>6. QED
        BY <2>1, <2>2, <2>3, <2>4, <2>5 DEF IInv
<1>3. CASE Commit
    BY <1>3 DEF IInv, TypeOK, Commit, CloseTransaction, Return
<1>4. CASE Retry
    BY <1>4 DEF IInv, TypeOK, Retry, CanRetry
<1>5. CASE GiveUp
    BY <1>5 DEF IInv, TypeOK, GiveUp, CloseTransaction
<1>6. QED
    BY <1>1, <1>2, <1>3, <1>4, <1>5 DEF Running

\* So do the saves of an operation, and what fails.
LEMMA OtherStep ==
    ASSUME IInv, SaveInside \/ \E kind \in Failures : Fail(kind) \/ FailCommit(kind)
    PROVE  IInv'
<1>1. CASE SaveInside
    <2>1. TypeOK'
        BY <1>1 DEF IInv, TypeOK, SaveInside, SaveEntitiesChanges, Announce, Raised, Entries, Smuggle,
            SaveChanges, Accept, Handlers, call, history
    <2>2. TransactionOfCall' /\ AllOrNothing' /\ OperationIsTracked'
        BY <1>1 DEF IInv, TypeOK, SaveInside, SaveEntitiesChanges, SaveChanges, Accept, Handlers, call, history
    <2>3. AcceptedIsKept' /\ EventsPrecedeSaves' /\ Durable'
        BY <1>1, AllRaised DEF IInv, TypeOK, SaveInside, SaveEntitiesChanges, Announce, Smuggle,
            SaveChanges, Accept, Handlers, call, history
    <2>4. QED
        BY <2>1, <2>2, <2>3 DEF IInv
<1>2. ASSUME NEW kind \in Failures, Fail(kind)
      PROVE  IInv'
    <2>1. PICK n \in 0..3, S \in Handlers :
            /\ Announce(n)
            /\ tracker' = [e \in Entities |-> IF e \in S THEN "pending" ELSE tracker[e]]
        BY <1>2 DEF Fail
    <2>2. Accepted' = Accepted /\ Pending \subseteq Pending'
        BY <2>1 DEF Handlers
    <2>3. TypeOK'
        <3>1. tracker' \in [Entities -> {"untouched", "pending", "accepted"}]
            BY <2>1 DEF IInv, TypeOK
        <3>2. announced' \subseteq Entities
            BY <2>1 DEF IInv, TypeOK, Announce, Raised, Entries
        <3>3. QED
            BY <1>2, <3>1, <3>2 DEF IInv, TypeOK, Fail, Spend, Failures, history
    <2>4. AcceptedIsKept' /\ TransactionOfCall' /\ OperationIsTracked'
        BY <1>2, <2>2 DEF IInv, TypeOK, Fail, history
    <2>5. AllOrNothing' /\ Durable' /\ EventsPrecedeSaves'
        BY <1>2, <2>1 DEF IInv, TypeOK, Fail, Announce, history
    <2>6. QED
        BY <2>3, <2>4, <2>5 DEF IInv
<1>3. ASSUME NEW kind \in Failures, FailCommit(kind)
      PROVE  IInv'
    <2>1. TypeOK'
        BY <1>3 DEF IInv, TypeOK, FailCommit, CloseTransaction, Return, Spend
    <2>2. TransactionOfCall' /\ AllOrNothing' /\ OperationIsTracked' /\ EventsPrecedeSaves'
        BY <1>3 DEF IInv, TypeOK, FailCommit, CloseTransaction, Return
    <2>3. AcceptedIsKept' /\ Durable'
        BY <1>3 DEF IInv, TypeOK, FailCommit, CloseTransaction, Return
    <2>4. QED
        BY <2>1, <2>2, <2>3 DEF IInv
<1>4. QED
    BY <1>1, <1>2, <1>3

LEMMA NextIInv == IInv /\ [Next]_vars => IInv'
<1> SUFFICES ASSUME IInv, [Next]_vars
             PROVE  IInv'
    OBVIOUS
<1>1. CASE Next
    BY <1>1, ApplicationStep, RunningStep, OtherStep DEF Next
<1>2. CASE UNCHANGED vars
    BY <1>2 DEF IInv, TypeOK, vars, context, call, history
<1>3. QED
    BY <1>1, <1>2

LEMMA Invariance == Spec => []IInv
  BY InitIInv, NextIInv, PTL DEF Spec
-------------------------------------------------------------------------------
\* Every state is of its type.
THEOREM TypeCorrect == Spec => []TypeOK
<1>1. IInv => TypeOK
    BY DEF IInv
<1>2. QED
    BY Invariance, <1>1, PTL

\* A call that owns its transaction leaves the database alone until it commits.
THEOREM CallsAreAtomic == Spec => []AllOrNothing
<1>1. IInv => AllOrNothing
    BY DEF IInv
<1>2. QED
    BY Invariance, <1>1, PTL

\* What a call acknowledged is durable, but for the two causes Durable names.
THEOREM AcknowledgedIsDurable == Spec => []Durable
<1>1. IInv => Durable
    BY DEF IInv
<1>2. QED
    BY Invariance, <1>1, PTL

\* The events of a business entity come before its change is written, unless a
\* handler of the events has made the change.
THEOREM EventsComeFirst == Spec => []EventsPrecedeSaves
<1>1. IInv => EventsPrecedeSaves
    BY DEF IInv
<1>2. QED
    BY Invariance, <1>1, PTL
-------------------------------------------------------------------------------
(***************************************************************************)
(* Every step of the unit of work is one of the store, or a stutter.          *)
(***************************************************************************)
USE DEF Store!vars, Store!MayPromise

LEMMA InitStore == Init => Store!Init
  BY DEF Init, Store!Init

\* What the application does between its calls.
LEMMA ApplicationStores == IInv /\ Application => [Store!Next]_Store!vars
<1> SUFFICES ASSUME IInv, Application
             PROVE  [Store!Next]_Store!vars
    OBVIOUS
<1>1. ASSUME NEW e \in Entities, Track(e)
      PROVE  UNCHANGED Store!vars
    BY <1>1 DEF Track, call
<1>2. CASE BeginTransaction
    BY <1>2 DEF BeginTransaction, history, Store!Next, Store!Submit
<1>3. CASE CommitTransaction
    BY <1>3 DEF IInv, TypeOK, CommitTransaction, CloseTransaction, history, Store!Next, Store!Close
<1>4. CASE RollbackTransaction
    BY <1>4 DEF IInv, TypeOK, RollbackTransaction, CloseTransaction, Store!Next, Store!Close
<1>5. ASSUME NEW S \in SUBSET (Entities \ Committed), ExecuteAsync(S)
      PROVE  Store!Submit(S)
    BY <1>5 DEF ExecuteAsync, Owns, Store!Submit
<1>6. QED
    BY <1>1, <1>2, <1>3, <1>4, <1>5 DEF Application, Store!Next

\* A call.  What it changes again was lost, and is acknowledged to nobody.
LEMMA RunningStores == IInv /\ Running => [Store!Next]_Store!vars
<1> SUFFICES ASSUME IInv, Running
             PROVE  [Store!Next]_Store!vars
    OBVIOUS
<1>1. ASSUME NEW e \in Entities, ChangeEntity(e)
      PROVE  Store!Retract({e})
    BY <1>1 DEF IInv, ChangeEntity, Store!Retract
<1>2. CASE Save
    <2>1. PICK S \in Handlers : SaveEntitiesChanges(S)
        BY <1>2 DEF Save
    <2>2. Pending \cup S \in SUBSET Entities
        BY <2>1 DEF Handlers
    <2>3. Durable'
        BY <1>2, RunningStep DEF IInv, Running
    <2>4. Store!Write(Pending \cup S)
        BY <1>2, <2>1, <2>3 DEF Save, SaveEntitiesChanges, SaveChanges, Return, Store!Write
    <2>5. QED
        BY <2>2, <2>4 DEF Store!Next
<1>3. CASE Commit
    <2>1. Durable'
        BY <1>3, RunningStep DEF IInv, Running
    <2>2. QED
        BY <1>3, <2>1 DEF IInv, Commit, CloseTransaction, Return, Store!Next, Store!Close
<1>4. CASE Retry
    BY <1>4 DEF IInv, Retry, CanRetry, Store!Next, Store!Close
<1>5. CASE GiveUp
    BY <1>5 DEF IInv, GiveUp, CloseTransaction, Store!Next, Store!Close
<1>6. QED
    BY <1>1, <1>2, <1>3, <1>4, <1>5 DEF Running, Store!Next

\* The saves of an operation, and what fails.
LEMMA OtherStores ==
    ASSUME IInv, SaveInside \/ \E kind \in Failures : Fail(kind) \/ FailCommit(kind)
    PROVE  [Store!Next]_Store!vars
<1>1. CASE SaveInside
    <2>1. PICK S \in Handlers : SaveEntitiesChanges(S)
        BY <1>1 DEF SaveInside
    <2>2. Pending \cup S \in SUBSET Entities
        BY <2>1 DEF Handlers
    <2>3. Store!Write(Pending \cup S)
        BY <1>1, <2>1 DEF SaveInside, SaveEntitiesChanges, SaveChanges, call, Store!Write
    <2>4. QED
        BY <2>2, <2>3 DEF Store!Next
<1>2. ASSUME NEW kind \in Failures, Fail(kind)
      PROVE  UNCHANGED Store!vars
    BY <1>2 DEF Fail, history
<1>3. ASSUME NEW kind \in Failures, FailCommit(kind)
      PROVE  Store!Close
    <2>1. Durable'
        BY <1>3, OtherStep DEF IInv
    <2>2. QED
        BY <1>3, <2>1 DEF IInv, FailCommit, CloseTransaction, Return, Store!Close
<1>4. QED
    BY <1>1, <1>2, <1>3 DEF Store!Next

LEMMA StepStores == IInv /\ [Next]_vars => [Store!Next]_Store!vars
<1> SUFFICES ASSUME IInv, [Next]_vars
             PROVE  [Store!Next]_Store!vars
    OBVIOUS
<1>1. CASE Next
    BY <1>1, ApplicationStores, RunningStores, OtherStores DEF Next
<1>2. CASE UNCHANGED vars
    BY <1>2 DEF vars, context, history
<1>3. QED
    BY <1>1, <1>2

\* The unit of work implements the transactional store.
THEOREM UnitOfWorkIsAStore == Spec => ImplementsStore
<1>1. QED
    BY StepStores, InitStore, Invariance, PTL DEF Spec, ImplementsStore, Store!Spec

\* What a store promises follows from its steps, whatever changes it is given.
LEMMA StoreKeeps == Store!Kept /\ [Store!Next]_Store!vars => Store!Kept'
<1> SUFFICES ASSUME Store!Kept, [Store!Next]_Store!vars
             PROVE  Store!Kept'
    OBVIOUS
<1>1. ASSUME NEW S \in SUBSET Entities, Store!Submit(S)
      PROVE  Store!Kept'
    BY <1>1 DEF Store!Kept, Store!Submit
<1>2. ASSUME NEW S \in SUBSET Entities, Store!Retract(S)
      PROVE  Store!Kept'
    BY <1>2 DEF Store!Kept, Store!Retract
<1>3. ASSUME NEW S \in SUBSET Entities, Store!Write(S)
      PROVE  Store!Kept'
    BY <1>3 DEF Store!Kept, Store!Write
<1>4. CASE Store!Close
    BY <1>4 DEF Store!Kept, Store!Close
<1>5. CASE UNCHANGED Store!vars
    BY <1>5 DEF Store!Kept
<1>6. QED
    BY <1>1, <1>2, <1>3, <1>4, <1>5 DEF Store!Next

\* What a caller was told is done is in the database or the open transaction, or
\* its loss is known: rolled back, or without an answer to the commit.
THEOREM PromisesAreKept == Spec => []Store!Kept
<1>1. Init => Store!Kept
    BY InitStore DEF Store!Init, Store!Kept
<1>2. QED
    BY <1>1, StoreKeeps, StepStores, Invariance, PTL DEF Spec

\* Nothing durable is undone, and a transaction of the unit of work becomes durable
\* whole or not at all.
THEOREM TransactionsAreAtomic == Spec => Store!Atomic
<1>1. ASSUME [Store!Next]_Store!vars
      PROVE  [/\ database \subseteq database'
              /\ tx # "none" => database' \in {database, database \cup written}]_Store!vars
    BY <1>1 DEF Store!Next, Store!Submit, Store!Retract, Store!Write, Store!Close
<1>2. QED
    BY <1>1, StepStores, Invariance, PTL DEF Spec, Store!Atomic
===============================================================================
