----------------------------- MODULE SearchRun ------------------------------
(***************************************************************************)
(* One search of phase 2 run to its end against a device.  The device is    *)
(* the set of parameters it can process in time, chosen at the start: any   *)
(* set, so nothing here assumes that a harder test is never easier to pass. *)
(***************************************************************************)
EXTENDS StressSearch

VARIABLES
    search,     \* the locals of the loop
    testing,    \* TRUE while the test of search.stressParam runs
    tried,      \* history: the parameters tested so far
    capable     \* the parameters the device processes in time

vars == <<search, testing, tried, capable>>

TypeOK ==
    /\ search \in Searches
    /\ testing \in BOOLEAN
    /\ tried \subseteq Params
    /\ capable \subseteq Params

Init ==
    /\ search = Fresh
    /\ testing = FALSE
    /\ tried = {}
    /\ capable \in SUBSET Params

\* Launch the test of the next parameter.
Probe ==
    /\ ~testing
    /\ Searching(search)
    /\ search' = Probed(search)
    /\ testing' = TRUE
    /\ UNCHANGED <<tried, capable>>

\* The test ends and its mean callback time is compared with the block period.
Judge ==
    /\ testing
    /\ search' = Judged(search, search.stressParam \in capable)
    /\ testing' = FALSE
    /\ tried' = tried \cup {search.stressParam}
    /\ UNCHANGED capable

Done == ~testing /\ ~Searching(search)

Next == Probe \/ Judge \/ (Done /\ UNCHANGED vars)

\* The control thread runs on until the search ends.
Spec == Init /\ [][Next]_vars /\ WF_vars(Probe \/ Judge)

-----------------------------------------------------------------------------
(* Properties *)

\* The bracket is what the loop's comment means where the loop can know it: m
\* is 1 or was found feasible, M is the ceiling or was found infeasible, and
\* once a test has failed M is always a failed one.
Bracketed ==
    /\ search.m <= search.M
    /\ search.m = 1 \/ search.m \in tried \cap capable
    /\ search.M = MaxParam \/ search.M \in tried \ capable
    /\ search.reachedPeak => search.M \in tried \ capable

\* No test is wasted: the parameter under test was never tested before and
\* splits the bracket (or is the ceiling itself).
NoWastedTest ==
    testing => /\ search.stressParam \notin tried
               /\ search.m < search.stressParam
               /\ search.stressParam < search.M \/ search.stressParam = MaxParam

\* What the finished search has established: the answer is the ceiling, or its
\* successor was tested and failed.
AnswerIsEdge ==
    Done => \/ search.m = MaxParam
            \/ search.M = search.m + 1 /\ search.M \in tried \ capable

\* On a device for which harder is never easier, and which manages parameter 1,
\* the stored answer is the device's limit.
FindsLimit ==
    \A limit \in Params : Done /\ capable = 1..limit => search.m = limit

\* The search of every device ends.
Terminates == <>Done

=============================================================================
