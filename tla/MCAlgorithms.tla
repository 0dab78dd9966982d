---------------------------- MODULE MCAlgorithms ----------------------------
(* Algorithms with one object per kind of setter in the tests and all twelve   *)
(* live.  The ceiling of the search and the tables are scaled down together,   *)
(* so that the search can pass the end of the tables, and the FFT's limit is   *)
(* between two of the live screen's block sizes.                               *)
EXTENDS Algorithms

MCPhase1 == <<"LOOPBACK", "FFT_ALGORITHM">>
MCPhase2 == <<"CONVOLUTION", "ADD_SYNTH_SINE", "ADD_SYNTH_LOOKUP_TABLE_LINEAR">>
MCBlockSizes == <<16, 32>>
MCDoubles == {1, 2, 4, 8, 16, 32}
=============================================================================
