------------------------------- MODULE MCRing -------------------------------
(* A microphone's buffer of three blocks, and ints wide enough for its reads.  *)
EXTENDS SampleRing
=============================================================================
