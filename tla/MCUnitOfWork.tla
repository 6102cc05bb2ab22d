------------------------------ MODULE MCUnitOfWork ------------------------------
(***************************************************************************)
(* UnitOfWork for TLC: two transient failures, so that a strategy can retry    *)
(* and still fail, and a fatal one; an entity to add and one to delete.       *)
(***************************************************************************)
EXTENDS UnitOfWork, TLC

CONSTANTS e1, e2

TwoKinds == (e1 :> "Added" @@ e2 :> "Deleted")
SomeFailures == [transient |-> 2, fatal |-> 1]
===============================================================================
