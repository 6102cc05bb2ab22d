----------------------- MODULE ConfigurationHosting_proofs -----------------------
(***************************************************************************)
(* No failure of the hosted service is swallowed, for any paths.             *)
(***************************************************************************)
EXTENDS ConfigurationHosting, TLAPS

\* Only the catch of ExecuteAsync waits for itself, and nothing of Initialize runs
\* once the catch has been reached; nothing runs before StartAsync.
FailureIsCaught ==
    /\ host = "created" => exec = "none"
    /\ failed => exec \in {"awaitingItself", "completed"}
    /\ exec = "awaitingItself" => failed

IInv == TypeOK /\ FailureIsCaught /\ FailureTerminates
-------------------------------------------------------------------------------
LEMMA InitIInv == Init => IInv
<1> SUFFICES ASSUME Init
             PROVE  IInv
    OBVIOUS
<1>1. {toPublish, published, reported} \subseteq SUBSET Paths
    BY DEF Init
<1>2. {stopRequested, stoppingCts, executingTask, raising, failed, terminated} \subseteq BOOLEAN
    BY DEF Init
<1>3. QED
    BY <1>1, <1>2 DEF Init, IInv, TypeOK, FailureIsCaught, FailureTerminates, Constructed

USE DEF IInv, TypeOK, FailureIsCaught, FailureTerminates

\* The host asks for the stop, and touches nothing of ExecuteAsync.
LEMMA HostKeepsIInv == IInv /\ (Host \/ RequestStop) => IInv'
<1> SUFFICES ASSUME IInv, Host \/ RequestStop
             PROVE  IInv'
    OBVIOUS
<1>1. CASE RequestStop
    BY <1>1 DEF RequestStop, StopApplication, running, service
<1>2. CASE StartAsync
    BY <1>2 DEF StartAsync, service
<1>3. CASE StartReturns
    BY <1>3 DEF StartReturns, running, service
<1>4. CASE StopAsync
    BY <1>4 DEF StopAsync, running, service
<1>5. CASE StopReturns
    BY <1>5 DEF StopReturns, running, service
<1>6. QED
    BY <1>1, <1>2, <1>3, <1>4, <1>5 DEF Host

\* ExecuteAsync leaves its catch by StopApplication only.
LEMMA ExecuteKeepsIInv == IInv /\ (Execute \/ Fail) => IInv'
<1> SUFFICES ASSUME IInv, Execute \/ Fail
             PROVE  IInv'
    OBVIOUS
<1>1. CASE Suspend
    BY <1>1 DEF Suspend, Awaiting, running, service
<1>2. CASE InitializeProvider
    BY <1>2 DEF InitializeProvider, hosting, service
<1>3. CASE ListPaths
    BY <1>3 DEF ListPaths, hosting
<1>4. CASE PublishChanges
    BY <1>4 DEF PublishChanges, hosting
<1>5. CASE Watch
    BY <1>5 DEF Watch, hosting, service
<1>6. CASE WatchEnds
    BY <1>6 DEF WatchEnds, hosting, service
<1>7. CASE StopGivesUp
    BY <1>7 DEF StopGivesUp, StopApplication, service
<1>8. CASE Fail
    BY <1>8 DEF Fail, Throw, StopApplication, service
<1>9. QED
    BY <1>1, <1>2, <1>3, <1>4, <1>5, <1>6, <1>7, <1>8 DEF Execute

LEMMA NextIInv == IInv /\ [Next]_vars => IInv'
<1> SUFFICES ASSUME IInv, [Next]_vars
             PROVE  IInv'
    OBVIOUS
<1>1. ASSUME NEW paths \in SUBSET Paths, OnChange(paths)
      PROVE  IInv'
    BY <1>1 DEF OnChange, hosting, running
<1>2. CASE UNCHANGED vars
    BY <1>2 DEF vars, hosting, running, service
<1>3. QED
    BY <1>1, <1>2, HostKeepsIInv, ExecuteKeepsIInv DEF Next

LEMMA Invariance == Spec => []IInv
  BY InitIInv, NextIInv, PTL DEF Spec
-------------------------------------------------------------------------------
\* Every state is of its type.
THEOREM TypeCorrect == Spec => []TypeOK
<1>1. IInv => TypeOK
    OBVIOUS
<1>2. QED
    BY Invariance, <1>1, PTL

\* Once ExecuteAsync has completed after a failure, it has asked the application
\* to stop; and it asks only then.
THEOREM FailureIsNotSwallowed == Spec => []FailureTerminates
<1>1. IInv => FailureTerminates
    OBVIOUS
<1>2. QED
    BY Invariance, <1>1, PTL
===============================================================================
