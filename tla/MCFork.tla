------------------------------- MODULE MCFork -------------------------------
(* fork with three processes: siblings, or a child that forks in its turn. *)
EXTENDS Fork

MCProc == 1 .. 3
=============================================================================
