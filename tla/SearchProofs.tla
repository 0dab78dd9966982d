---------------------------- MODULE SearchProofs ----------------------------
(***************************************************************************)
(* What holds of the search for every ceiling and every device.            *)
(***************************************************************************)
EXTENDS SearchRun, TLAPS

\* The bracket is proper until the ceiling itself is found feasible.
Proper == search.m < search.M \/ search.m = MaxParam

\* While every test has passed, the loop is doubling: m is one of the values
\* doubling visits, nothing above it was tested and M is still the ceiling.
Doubling ==
    ~search.reachedPeak =>
        /\ search.M = MaxParam
        /\ search.m \in Doubles
        /\ \A p \in tried : p <= search.m
        /\ IF testing THEN search.m # MaxParam /\ search.stressParam = 2 * search.m
                      ELSE search.stressParam = search.m

\* After a failure the loop bisects: M is a failed parameter, nothing strictly
\* inside the bracket was tested, and the one under test is inside.
Bisecting ==
    search.reachedPeak =>
        /\ search.m < search.M
        /\ search.M \in tried \ capable
        /\ \A p \in tried : p <= search.m \/ search.M <= p
        /\ testing => search.m < search.stressParam /\ search.stressParam < search.M

\* The inductive invariant.
Inv == TypeOK /\ Bracketed /\ Proper /\ Doubling /\ Bisecting

-----------------------------------------------------------------------------

LEMMA InitInv == Init => Inv
<1> SUFFICES ASSUME Init PROVE Inv
  OBVIOUS
<1>1. 1 \in Params /\ MaxParam \in Params
  BY SearchAssumption DEF Params
<1>2. TypeOK
  BY <1>1 DEF Init, TypeOK, Fresh, Searches
<1>3. /\ search.m = 1 /\ search.M = MaxParam
      /\ search.stressParam = 1 /\ search.reachedPeak = FALSE
  BY DEF Init, Fresh
<1>4. Bracketed /\ Proper /\ Doubling /\ Bisecting
  BY <1>3, SearchAssumption DEF Init, Bracketed, Proper, Doubling, Bisecting
<1> QED
  BY <1>2, <1>4 DEF Inv

\* The parameter doubling tries next exists and is above every tested one.
LEMMA DoublingStays ==
  ASSUME NEW d \in Doubles, d < MaxParam - 1
  PROVE  2 * d \in Doubles /\ 2 * d \in Params /\ d < 2 * d
  BY SearchAssumption DEF Params

\* The middle of a bracket with room inside is strictly inside.
LEMMA MiddleIsInside ==
  ASSUME NEW lo \in Nat, NEW hi \in Nat, lo < hi - 1
  PROVE  LET mid == lo + (hi - lo) \div 2
         IN  mid \in Nat /\ lo < mid /\ mid < hi
  OBVIOUS

LEMMA ProbeInv == Inv /\ Probe => Inv'
<1> SUFFICES ASSUME Inv, Probe PROVE Inv'
  OBVIOUS
<1> DEFINE next == NextParam(search)
<1>1. /\ search.m \in Params /\ search.M \in Params
      /\ search.stressParam \in Params /\ search.reachedPeak \in BOOLEAN
  BY DEF Inv, TypeOK, Searches
<1>2. search.m < search.M - 1
  BY DEF Probe, Searching
<1>3. search' = [search EXCEPT !.stressParam = next]
  BY DEF Probe, Probed
<1>4. UNCHANGED <<tried, capable>> /\ testing' = TRUE /\ testing = FALSE
  BY DEF Probe, Inv, TypeOK
<1>5. CASE search.reachedPeak
  <2>1. next \in Nat /\ search.m < next /\ next < search.M
    BY <1>1, <1>2, <1>5, MiddleIsInside, SearchAssumption DEF NextParam, Params
  <2>2. next \in Params
    BY <2>1, <1>1, SearchAssumption DEF Params
  <2> HIDE DEF next
  <2>3. /\ search'.m = search.m /\ search'.M = search.M
        /\ search'.reachedPeak = search.reachedPeak /\ search'.stressParam = next
        /\ search' \in Searches
    BY <1>1, <1>3, <2>2 DEF Inv, TypeOK, Searches
  <2> QED
    BY <1>4, <1>5, <2>1, <2>3 DEF Inv, TypeOK, Bracketed, Proper, Doubling, Bisecting
<1>6. CASE ~search.reachedPeak
  <2>1. /\ search.M = MaxParam /\ search.m \in Doubles
        /\ search.stressParam = search.m
    BY <1>4, <1>6 DEF Inv, Doubling
  <2>2. next = 2 * search.m /\ next \in Params
    BY <1>2, <1>6, <2>1, DoublingStays DEF NextParam
  <2> HIDE DEF next
  <2>3. /\ search'.m = search.m /\ search'.M = search.M
        /\ search'.reachedPeak = search.reachedPeak /\ search'.stressParam = next
        /\ search' \in Searches
    BY <1>1, <1>3, <2>2 DEF Inv, TypeOK, Searches
  <2>4. search.m # MaxParam
    BY <1>1, <1>2, <2>1 DEF Params
  <2> QED
    BY <1>4, <1>6, <2>1, <2>2, <2>3, <2>4
       DEF Inv, TypeOK, Bracketed, Proper, Doubling, Bisecting
<1> QED
  BY <1>1, <1>5, <1>6

LEMMA JudgeInv == Inv /\ Judge => Inv'
<1> SUFFICES ASSUME Inv, Judge PROVE Inv'
  OBVIOUS
<1> DEFINE p == search.stressParam
<1>1. /\ search.m \in Params /\ search.M \in Params
      /\ p \in Params /\ search.reachedPeak \in BOOLEAN
  BY DEF Inv, TypeOK, Searches
<1>2. testing /\ testing' = FALSE /\ capable' = capable /\ tried' = tried \cup {p}
  BY DEF Judge
<1>3. search' \in Searches /\ tried' \subseteq Params /\ search'.stressParam = p
  BY <1>1, <1>2 DEF Judge, Judged, Inv, TypeOK, Searches
<1>4. ~search.reachedPeak => /\ search.M = MaxParam /\ search.m \in Doubles
                             /\ search.m # MaxParam /\ p = 2 * search.m
                             /\ \A q \in tried : q <= search.m
  BY <1>2 DEF Inv, Doubling
<1>5. search.reachedPeak => /\ search.m < p /\ p < search.M /\ search.M \in tried \ capable
                            /\ \A q \in tried : q <= search.m \/ search.M <= q
  BY <1>2 DEF Inv, Bisecting
<1>6. \A q \in tried : q \in Params
  BY DEF Inv, TypeOK
<1>7. search.m < p
  BY <1>1, <1>4, <1>5, SearchAssumption DEF Params
<1>8. CASE p \in capable
  <2>1. /\ search'.m = p /\ search'.M = search.M
        /\ search'.reachedPeak = search.reachedPeak
    BY <1>1, <1>8 DEF Judge, Judged, Inv, TypeOK, Searches
  <2>2. ~search.reachedPeak => p \in Doubles
    BY <1>4, SearchAssumption
  <2>3. p <= MaxParam
    BY <1>1 DEF Params
  <2>4. Bracketed'
    BY <1>1, <1>2, <1>4, <1>5, <1>8, <2>1, <2>3 DEF Inv, Bracketed, Params
  <2>5. Proper' /\ Doubling' /\ Bisecting'
    BY <1>1, <1>2, <1>3, <1>4, <1>5, <1>6, <1>7, <2>1, <2>2, <2>3, SearchAssumption
       DEF Proper, Doubling, Bisecting, Params
  <2> QED
    BY <1>2, <1>3, <2>4, <2>5 DEF Inv, TypeOK
<1>9. CASE p \notin capable
  <2>1. search'.m = search.m /\ search'.M = p /\ search'.reachedPeak = TRUE
    BY <1>1, <1>9 DEF Judge, Judged, Inv, TypeOK, Searches
  <2>2. Bracketed'
    BY <1>1, <1>2, <1>7, <1>9, <2>1 DEF Inv, Bracketed, Params
  <2>3. \A q \in tried' : q <= search'.m \/ search'.M <= q
    BY <1>1, <1>2, <1>4, <1>5, <1>6, <2>1 DEF Params
  <2>4. Proper' /\ Doubling' /\ Bisecting'
    BY <1>1, <1>2, <1>7, <1>9, <2>1, <2>3 DEF Proper, Doubling, Bisecting, Params
  <2> QED
    BY <1>2, <1>3, <2>2, <2>4 DEF Inv, TypeOK
<1> QED
  BY <1>8, <1>9

\* The inductive invariant holds in every reachable state.
THEOREM SearchInvariant == Spec => []Inv
<1>1. Inv /\ [Next]_vars => Inv'
  <2>1. ASSUME Inv, UNCHANGED vars PROVE Inv'
    BY <2>1 DEF vars, Inv, TypeOK, Bracketed, Proper, Doubling, Bisecting
  <2> QED
    BY <2>1, ProbeInv, JudgeInv DEF Next
<1> QED
  BY InitInv, <1>1, PTL DEF Spec

\* m and M mean what the loop's comment means, as far as tests have shown.
THEOREM SearchBracketed == Spec => []Bracketed
<1>1. Inv => Bracketed
  BY DEF Inv
<1> QED
  BY <1>1, SearchInvariant, PTL

LEMMA InvNoWastedTest == Inv => NoWastedTest
<1> SUFFICES ASSUME Inv, testing PROVE NoWastedTest
  BY DEF NoWastedTest
<1>1. /\ search.m \in 1..MaxParam /\ search.M \in 1..MaxParam
      /\ search.stressParam \in 1..MaxParam
      /\ \A q \in tried : q \in 1..MaxParam
  BY DEF Inv, TypeOK, Searches, Params
<1>2. CASE search.reachedPeak
  BY <1>1, <1>2, SearchAssumption DEF Inv, Bisecting, NoWastedTest
<1>3. CASE ~search.reachedPeak
  BY <1>1, <1>3, SearchAssumption DEF Inv, Doubling, NoWastedTest
<1> QED
  BY <1>2, <1>3

\* No parameter is tested twice, and each test splits the bracket.
THEOREM SearchWastesNoTest == Spec => []NoWastedTest
  BY InvNoWastedTest, SearchInvariant, PTL

\* Doubling cannot step over the ceiling.
LEMMA DoublesBelowCeiling ==
  ASSUME NEW d \in Doubles
  PROVE  d = MaxParam \/ 2 * d <= MaxParam
<1>1. CASE d # MaxParam
  <2>1. 2 * d \in Doubles
    BY <1>1, SearchAssumption
  <2>2. 2 * d \in 1..MaxParam
    BY <2>1, SearchAssumption
  <2> QED
    BY <2>2
<1> QED
  BY <1>1

LEMMA InvAnswerIsEdge == Inv => AnswerIsEdge
<1> SUFFICES ASSUME Inv, Done PROVE AnswerIsEdge
  BY DEF AnswerIsEdge
<1>1. /\ search.m \in 1..MaxParam /\ search.M \in 1..MaxParam
      /\ ~(search.m < search.M - 1)
  BY DEF Inv, TypeOK, Searches, Params, Done, Searching
<1>2. CASE search.reachedPeak
  BY <1>1, <1>2, SearchAssumption DEF Inv, Bisecting, AnswerIsEdge
<1>3. CASE ~search.reachedPeak
  <2>1. search.M = MaxParam /\ search.m \in Doubles
    BY <1>3 DEF Inv, Doubling
  <2>2. search.m = MaxParam \/ 2 * search.m <= MaxParam
    BY <2>1, DoublesBelowCeiling
  <2>3. search.m = MaxParam
    BY <1>1, <2>1, <2>2, SearchAssumption
  <2> QED
    BY <2>3 DEF AnswerIsEdge
<1> QED
  BY <1>2, <1>3

\* The finished search stands on an edge of the device's ability.
THEOREM SearchAnswerIsEdge == Spec => []AnswerIsEdge
  BY InvAnswerIsEdge, SearchInvariant, PTL

LEMMA InvFindsLimit == Inv => FindsLimit
<1> SUFFICES ASSUME Inv, NEW limit \in Params, Done, capable = 1..limit
             PROVE  search.m = limit
  BY DEF FindsLimit
<1> DEFINE m == search.m
           M == search.M
<1>1. m \in 1..MaxParam /\ M \in 1..MaxParam /\ limit \in 1..MaxParam
  BY DEF Inv, TypeOK, Searches, Params
<1>2. m = 1 \/ m \in 1..limit
  BY DEF Inv, Bracketed
<1>3. m = MaxParam \/ (M = m + 1 /\ M \notin 1..limit)
  BY InvAnswerIsEdge DEF AnswerIsEdge
<1> HIDE DEF m, M
<1>4. m <= limit
  BY <1>1, <1>2
<1>5. limit <= m
  BY <1>1, <1>3, SearchAssumption
<1>6. m = limit
  BY <1>1, <1>4, <1>5
<1> QED
  BY <1>6 DEF m

\* On a device with a limit the search finds it, whatever the ceiling.
THEOREM SearchFindsLimit == Spec => []FindsLimit
  BY InvFindsLimit, SearchInvariant, PTL

\* Every variable of a search keeps its type: the bracket and the parameter under
\* test stay between 1 and the ceiling, so what is launched can be configured.
THEOREM SearchTypeCorrect == Spec => []TypeOK
<1>1. Inv => TypeOK
  BY DEF Inv
<1> QED
  BY <1>1, SearchInvariant, PTL
=============================================================================
