------------------------------ MODULE MCBGTasks ------------------------------
(* BGTasks for TLC: every constant is given in the configurations. *)
EXTENDS BGTasks
=============================================================================
