---------------------------- MODULE MCRagRequest ----------------------------
(***************************************************************************)
(* An instance of RagRequest for TLC: one file, ingested twice, as one chunk *)
(* of one section or of another; one query or two, hence two or four        *)
(* searches that rank two candidates, of which one is kept.  A section that  *)
(* is not in the context serves as an invented citation.                    *)
(***************************************************************************)
EXTENDS RagRequest

CONSTANTS a, x, y

MCSources   == {a}
MCSections  == {x, y}
MCLayouts   == {<<x>>, <<y>>}
MCSeparated == [p \in MCSources \X MCSections |-> p]
MCCounts    == {1, 2}
=============================================================================
