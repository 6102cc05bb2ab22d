----------------------------- MODULE UnitOfWorkAction -----------------------------
(***************************************************************************)
(* The overload of UnitOfWork.ExecuteAsync for an operation without a result.  *)
(*                                                                         *)
(* On a relational database it starts a task that nobody awaits, and gives     *)
(* the strategy an async function that it does not await either: up to three    *)
(* tasks look for a transaction, and run and save the operation, over one       *)
(* context.  Nothing fails here but what they do to one another.              *)
(***************************************************************************)
EXTENDS Naturals

\* The task of line 262, that of line 274 and what the async function does after it.
Tasks == {"outer", "inner", "rest"}

VARIABLES
    caller,     \* where the call is
    tx,         \* Database.CurrentTransaction: "none", the "user"'s, the "strategy"'s, "own"
    pc,         \* where each task is
    saving,     \* the task that is inside SaveChangesAsync, or "none"
    pending,    \* runs of the operation the tracker holds
    batch,      \* those that are being saved
    written,    \* runs saved in the current transaction
    durable     \* runs the database holds
runs == <<pending, batch, written, durable>>
vars == <<caller, tx, pc, saving, runs>>

Goto(t, step) == pc' = [pc EXCEPT ![t] = step]

Init ==
    /\ caller \in {"in memory", "start"}
    /\ tx \in IF caller = "in memory" THEN {"none"} ELSE {"none", "user"}
    /\ pc = [t \in Tasks |-> "none"]
    /\ saving = "none"
    /\ pending = 0 /\ batch = 0 /\ written = 0 /\ durable = 0
-------------------------------------------------------------------------------
\* The save of the in-memory provider does not suspend.
ExecuteInMemory ==
    /\ caller = "in memory"
    /\ caller' = "returned"
    /\ durable' = durable + 1
    /\ UNCHANGED <<tx, pc, saving, pending, batch, written>>

StartOuter ==
    /\ caller = "start"
    /\ caller' = "begin"
    /\ Goto("outer", "check")
    /\ UNCHANGED <<tx, saving, runs>>

\* ExecuteInTransaction; a connection has one transaction.
BeginStrategy ==
    /\ caller = "begin"
    /\ IF tx = "none"
       THEN caller' = "operation" /\ tx' = "strategy"
       ELSE caller' = "threw" /\ UNCHANGED tx
    /\ UNCHANGED <<pc, saving, runs>>

\* The async function suspends at its first await, and the strategy commits.
StartInner ==
    /\ caller = "operation"
    /\ caller' = "commit"
    /\ Goto("inner", "check")
    /\ UNCHANGED <<tx, saving, runs>>

Close == tx' = "none" /\ written' = 0

CommitStrategy ==
    /\ caller = "commit"
    /\ caller' = "returned"
    /\ durable' = durable + written
    /\ Close
    /\ UNCHANGED <<pc, saving, pending, batch>>

ExecuteAsync == ExecuteInMemory \/ StartOuter \/ BeginStrategy \/ StartInner \/ CommitStrategy
-------------------------------------------------------------------------------
\* Only the end of the inner task lets the async function go on.
End(t) == pc' = IF t = "inner" THEN [pc EXCEPT !.inner = "done", !.rest = "begin"] ELSE [pc EXCEPT ![t] = "done"]

Check(t) ==
    /\ pc[t] = "check"
    /\ IF tx = "none" THEN End(t) ELSE Goto(t, "operation")
    /\ UNCHANGED <<caller, tx, saving, runs>>

BeginOwn ==
    /\ pc["rest"] = "begin"
    /\ IF tx = "none"
       THEN tx' = "own" /\ Goto("rest", "operation")
       ELSE UNCHANGED tx /\ Goto("rest", "threw")
    /\ UNCHANGED <<caller, saving, runs>>

Operation(t) ==
    /\ pc[t] = "operation"
    /\ pending' = pending + 1
    /\ Goto(t, "save")
    /\ UNCHANGED <<caller, tx, saving, batch, written, durable>>

StartSave(t) ==
    /\ pc[t] = "save" /\ saving = "none"
    /\ saving' = t
    /\ batch' = pending /\ pending' = 0
    /\ Goto(t, "saving")
    /\ UNCHANGED <<caller, tx, written, durable>>

\* The context throws if it is used while it saves: the task of the async function
\* rolls back its transaction, and nobody sees the exception.
RefuseSave(t) ==
    /\ pc[t] = "save" /\ saving # "none"
    /\ Goto(t, "threw")
    /\ IF t = "rest" THEN Close ELSE UNCHANGED <<tx, written>>
    /\ UNCHANGED <<caller, saving, pending, batch, durable>>

\* What the tracker held goes into the transaction there is, if there is one still.
EndSave(t) ==
    /\ pc[t] = "saving"
    /\ saving' = "none"
    /\ IF tx = "none"
       THEN durable' = durable + batch /\ UNCHANGED written
       ELSE written' = written + batch /\ UNCHANGED durable
    /\ batch' = 0
    /\ IF t = "rest" THEN Goto(t, "commit") ELSE End(t)
    /\ UNCHANGED <<caller, tx, pending>>

CommitOwn ==
    /\ pc["rest"] = "commit"
    /\ durable' = durable + written
    /\ Close
    /\ Goto("rest", "done")
    /\ UNCHANGED <<caller, saving, pending, batch>>

Task(t) == Check(t) \/ Operation(t) \/ StartSave(t) \/ RefuseSave(t) \/ EndSave(t)

Next == ExecuteAsync \/ BeginOwn \/ CommitOwn \/ \E t \in Tasks : Task(t)

Spec == Init /\ [][Next]_vars
-------------------------------------------------------------------------------
Quiet == caller = "returned" /\ \A t \in Tasks : pc[t] \in {"none", "done", "threw"}

\* "execute an operation in a resilient environment": when a call has returned and
\* its tasks have ended, the operation has taken effect, and has done so once.
EffectOnce == Quiet => durable = 1
===============================================================================
