------------------------------ MODULE TestPlan ------------------------------
(***************************************************************************)
(* What a run of all the tests promises (AllTestsActivity's class comment): *)
(* the units of the plan, one algorithm with one block size each, are       *)
(* tested one after the other on one DSP thread, each gives one row of      *)
(* results, in the plan's order, and the run ends when all are stored or    *)
(* when the user breaks it off.                                             *)
(***************************************************************************)
EXTENDS Integers

CONSTANT Units      \* how many units the plan has, a natural number

VARIABLES
    stored,     \* rows stored so far
    tested,     \* TRUE when a test of unit stored + 1 has been launched
    ended       \* TRUE when the run is over

planVars == <<stored, tested, ended>>

Init ==
    /\ stored = 0
    /\ tested = FALSE
    /\ ended = FALSE

\* One more test of the unit under way: phase 2 launches several.
Launch ==
    /\ ~ended
    /\ stored < Units
    /\ tested' = TRUE
    /\ UNCHANGED <<stored, ended>>

\* The unit's row.
Store ==
    /\ ~ended
    /\ tested
    /\ stored' = stored + 1
    /\ tested' = FALSE
    /\ UNCHANGED ended

\* All rows are there, or the user broke off.
End ==
    /\ ~ended
    /\ ended' = TRUE
    /\ UNCHANGED <<stored, tested>>

Next == Launch \/ Store \/ End

Spec == Init /\ [][Next]_planVars

=============================================================================
