--------------------- MODULE MCRemoteConfigurationProvider ---------------------
(***************************************************************************)
(* Instances of RemoteConfigurationProvider for TLC: budgets that let every  *)
(* kind of disturbance happen, alone and with others.                        *)
(***************************************************************************)
EXTENDS RemoteConfigurationProvider

Events(c, f, l, r, s) ==
    [change |-> c, failure |-> f, loss |-> l, reload |-> r, stray |-> s]

\* Two changes and every disturbance once.
AllEvents == Events(2, 1, 1, 1, 1)
\* No failure and no loss: what overlap alone does.
OnlyOverlap == Events(1, 0, 0, 1, 0)
===============================================================================
