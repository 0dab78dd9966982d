------------------------------ MODULE MCTests -------------------------------
(* AllTests with one algorithm of phase 1 and, in phase 2, one with a table   *)
(* behind one without.                                                        *)
EXTENDS AllTests

MCBlock(c) == c.block
MCPhase1 == <<"LOOPBACK">>
MCPhase2 == <<"ADD_SYNTH_SINE", "ADD_SYNTH_LOOKUP_TABLE_LINEAR">>
MCTableAlgs == {"ADD_SYNTH_LOOKUP_TABLE_LINEAR"}
MCTableOnly == <<"ADD_SYNTH_LOOKUP_TABLE_LINEAR">>
MCOneBlock == <<16>>
MCTwoBlocks == <<16, 32>>
MCDoubles == {1, 2, 4}
MCConfigs ==
    {Config(a, b, s) : a \in {"LOOPBACK", "ADD_SYNTH_SINE", "ADD_SYNTH_LOOKUP_TABLE_LINEAR"},
                       b \in {16, 32}, s \in 0..4}

\* A state without what only RowsFaithful reads of it: no step looks at the
\* statistics of a row or at the configurations performed.
MCView ==
    <<audioSource, fields, streams, pool, locals, pc, op, stopped, parked,
      ctlVars, queue, ui, replying, inputStream, dt, screenVars, launched,
      [i \in 1..Len(results) |-> results[i].unit]>>
=============================================================================
