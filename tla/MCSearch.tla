------------------------------ MODULE MCSearch ------------------------------
(* SearchRun on every device of MaxParam parameters. *)
EXTENDS SearchRun

\* 1, 2, 4, ... up to the ceiling.
MCDoubles == {1, 2, 4, 8}
=============================================================================
