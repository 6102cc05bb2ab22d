--------------------------- MODULE TransactionalStore ---------------------------
(***************************************************************************)
(* What a unit of work promises of its database.  Changes are written into    *)
(* a transaction, which ends whole or not at all, or straight into the        *)
(* database if there is none.  A change whose caller was told that it is done   *)
(* stays in one of the two until the store says that it has lost it.           *)
(***************************************************************************)
CONSTANT Entities   \* each with the one change that is made to it

VARIABLES
    durable,        \* changes the database holds
    open,           \* changes written in the transaction under way
    lost,           \* changes of a transaction that has ended without them
    promised,       \* changes somebody was told are done
    inTransaction
vars == <<durable, open, lost, promised, inTransaction>>

Init ==
    /\ durable = {} /\ open = {} /\ lost = {} /\ promised = {}
    /\ inTransaction = FALSE

\* Only what is there, or is known to be lost, is promised.
MayPromise == promised \subseteq promised' /\ promised' \subseteq promised \cup durable' \cup open' \cup lost'

\* Changes are to be made, perhaps again, in the transaction there is or a new one.
Submit(S) ==
    /\ promised' = promised \ S
    /\ inTransaction' \in {inTransaction, TRUE}
    /\ UNCHANGED <<durable, open, lost>>

\* What was lost, and nobody relies on, is on its way again.
Retract(S) ==
    /\ S \cap promised = {}
    /\ lost' = lost \ S
    /\ UNCHANGED <<durable, open, promised, inTransaction>>

Write(S) ==
    /\ IF inTransaction
       THEN open' = open \cup S /\ UNCHANGED durable
       ELSE durable' = durable \cup S /\ UNCHANGED open
    /\ MayPromise
    /\ UNCHANGED <<lost, inTransaction>>

\* The transaction ends, and another may follow.
Close ==
    /\ inTransaction
    /\ durable' \in {durable, durable \cup open}
    /\ open' = {}
    /\ lost' = lost \cup (open \ durable')
    /\ MayPromise
    /\ inTransaction' \in BOOLEAN

Next ==
    \/ \E S \in SUBSET Entities : Submit(S) \/ Retract(S) \/ Write(S)
    \/ Close

Spec == Init /\ [][Next]_vars
-------------------------------------------------------------------------------
TypeOK ==
    /\ {durable, open, lost, promised} \subseteq SUBSET Entities
    /\ inTransaction \in BOOLEAN

\* A promise is kept, or the store says that it is not.
Kept == promised \subseteq durable \cup open \cup lost

\* What is durable stays so, and a transaction adds to it everything or nothing.
Atomic ==
    [][/\ durable \subseteq durable'
       /\ inTransaction => durable' \in {durable, durable \cup open}]_vars
===============================================================================
