-------------------------- MODULE MCConfigurationServer --------------------------
(***************************************************************************)
(* ConfigurationServer for TLC: two files, with one version each.                         *)
(***************************************************************************)
EXTENDS ConfigurationServer

\* A commit, a poll that is late and one that fails.
Events == [commit |-> 1, timeout |-> 1, taskFailure |-> 1, onChangeFailure |-> 0]
===============================================================================
