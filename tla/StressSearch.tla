---------------------------- MODULE StressSearch ----------------------------
(***************************************************************************)
(* The parameter search of phase 2 of the tests (AllTestsActivity.java,    *)
(* TestControlThread.run): for one algorithm and one block size, look for  *)
(* the largest stress parameter the device can process in time.  The       *)
(* parameter is doubled until a test fails (or the ceiling is reached) and  *)
(* the bracket m..M is then bisected.                                      *)
(*                                                                         *)
(* This module has no state: a search is a record of the four locals of    *)
(* the loop, and the operators are the pieces of the loop's body.          *)
(***************************************************************************)
EXTENDS Integers

CONSTANTS
    MaxParam,   \* (int) Math.pow(2,14): the first value of M
    Doubles     \* the values doubling visits from 1: {1, 2, 4, ..., MaxParam}

ASSUME SearchAssumption ==
    /\ MaxParam \in Nat /\ MaxParam > 2
    /\ Doubles \subseteq 1..MaxParam
    /\ 1 \in Doubles
    /\ \A d \in Doubles : d # MaxParam => 2 * d \in Doubles

Params == 1..MaxParam

Searches == [m : Params, M : Params, stressParam : Params, reachedPeak : BOOLEAN]

\* Before the first iteration.
Fresh == [m |-> 1, M |-> MaxParam, stressParam |-> 1, reachedPeak |-> FALSE]

\* A bug: the loop ends one step early.
SearchingShort(s) == s.m < s.M - 2

\* The loop's condition.
Searching(s) == s.m < s.M - 1

\* The next parameter to try: doubled until the first failure, then the middle
\* of the bracket (the cast to int truncates).
NextParam(s) ==
    IF s.reachedPeak THEN s.m + (s.M - s.m) \div 2 ELSE 2 * s.stressParam

\* A bug: bisecting from M instead of m.
ProbedFromTop(s) ==
    [s EXCEPT !.stressParam = IF s.reachedPeak THEN s.M - (s.M - s.m) \div 4
                                               ELSE 2 * s.stressParam]

\* The top half of the body: choose the parameter.
Probed(s) == [s EXCEPT !.stressParam = NextParam(s)]

\* A bug: a failed test does not lower M, so the bracket never closes.
JudgedKeepM(s, feasible) ==
    IF feasible THEN [s EXCEPT !.m = s.stressParam]
                ELSE [s EXCEPT !.reachedPeak = TRUE]

\* A bug: the two outcomes are swapped.
JudgedSwapped(s, feasible) ==
    IF feasible THEN [s EXCEPT !.M = s.stressParam, !.reachedPeak = TRUE]
                ELSE [s EXCEPT !.m = s.stressParam]

\* A bug: the first failure is not remembered, so doubling goes on.
JudgedNoPeak(s, feasible) ==
    IF feasible THEN [s EXCEPT !.m = s.stressParam]
                ELSE [s EXCEPT !.M = s.stressParam]

\* The bottom half: what one test's outcome does to the bracket.
Judged(s, feasible) ==
    IF feasible THEN [s EXCEPT !.m = s.stressParam]
                ELSE [s EXCEPT !.M = s.stressParam, !.reachedPeak = TRUE]

=============================================================================
