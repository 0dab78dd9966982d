------------------------------- MODULE MCDsp --------------------------------
(* DspThread under its most general clients, with either source: the Owner is *)
(* the UI thread, the other client is the tests' control thread.              *)
EXTENDS DspThread

\* Configurations are told apart by their block size alone.
MCBlock(c) == c
=============================================================================
