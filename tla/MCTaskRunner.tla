---------------------------- MODULE MCTaskRunner ----------------------------
(* Instances of TaskRunner for TLC. *)
EXTENDS TaskRunner

Limits == {-1, 0, 2}    \* no limit, no cycle at all, two cycles
=============================================================================
