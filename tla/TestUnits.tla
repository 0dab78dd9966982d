----------------------------- MODULE TestUnits ------------------------------
(***************************************************************************)
(* The plan of the tests as one list of units: the two nested loops of each *)
(* phase in AllTestsActivity.java, TestControlThread.run.                   *)
(***************************************************************************)
EXTENDS Integers, Sequences

CONSTANTS
    Phase1, Phase2,     \* the algorithms of the two phases, in order
    BlockSizes          \* START_BLOCK_SIZE, ..., END_BLOCK_SIZE

ASSUME UnitsAssumption ==
    /\ Phase1 \in Seq(STRING) /\ Phase2 \in Seq(STRING)
    /\ BlockSizes \in Seq(Nat) /\ BlockSizes # <<>>

UnitCount == (Len(Phase1) + Len(Phase2)) * Len(BlockSizes)
AlgOf(i) == (Phase1 \o Phase2)[((i - 1) \div Len(BlockSizes)) + 1]
BlockOf(i) == BlockSizes[((i - 1) % Len(BlockSizes)) + 1]
InPhase2(i) == i > Len(Phase1) * Len(BlockSizes)

=============================================================================
