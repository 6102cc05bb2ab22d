----------------------------- MODULE MCGitProvider -----------------------------
(***************************************************************************)
(* Instances of GitProvider for TLC: two files, one of which SearchPattern    *)
(* may leave out, over a few commits.                                        *)
(***************************************************************************)
EXTENDS GitProvider

Events(c, t, f, o) ==
    [commit |-> c, timeout |-> t, taskFailure |-> f, onChangeFailure |-> o]

\* Two commits, and each thing that loses a report once.
Disturbed == Events(2, 1, 1, 1)
\* Nothing fails and nothing is late.
Calm == Events(2, 0, 0, 0)
===============================================================================
