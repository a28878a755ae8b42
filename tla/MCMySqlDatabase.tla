-------------------------- MODULE MCMySqlDatabase ---------------------------
(* Instances of MySqlDatabase for TLC. *)
EXTENDS MySqlDatabase

CONSTANTS t1, t2, a, b

TwoTasks == {t1, t2}
OneName  == {a}
=============================================================================
