----------------------------- MODULE MCIngestion -----------------------------
(***************************************************************************)
(* Instances of Ingestion for TLC.                                          *)
(***************************************************************************)
EXTENDS Ingestion, TLC

CONSTANTS p1, p2, s1, s2, k1, k2

MCBatch == 2
MCKeys == {k1, k2}
MCOneKey == {k1}

\* A shell of its own for each source.
MCProcs == {p1, p2}
MCSources == {s1, s2}
MCOwnSource == (p1 :> s1) @@ (p2 :> s2)

\* Two shells on one source.
MCSharedSources == {s1}
MCSharedSource == (p1 :> s1) @@ (p2 :> s1)

\* One shell.
MCSoloProcs == {p1}
MCSoloSource == (p1 :> s1)

\* Two batches, one batch, an empty file.
MCOwnSize == <<2, 1, 0>>

MCSmallSize == <<2, 1>>

\* Version 1 needs two INSERT batches, version 2 one.
MCTwoSizes == <<3, 1>>
==============================================================================
