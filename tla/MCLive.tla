------------------------------- MODULE MCLive -------------------------------
(* LiveSession with two block sizes.  In MCLive one of them is too short for   *)
(* a WAV stream; in MCLiveStop neither is.                                     *)
EXTENDS LiveSession

\* Configurations are told apart by their block size alone.
MCBlock(c) == c
=============================================================================
