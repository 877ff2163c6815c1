------------------------- MODULE MCRetrievalService -------------------------
(***************************************************************************)
(* Instances of RetrievalService for TLC: two files that ingests move       *)
(* between two corpora, no corpus, two languages and two times, and one     *)
(* request of each kind.                                                    *)
(***************************************************************************)
EXTENDS RetrievalService

CONSTANTS a, b, x, y

MCSources   == {a, b}
MCSections  == {x, y}
MCLayouts   == {<<x, x>>, <<x, y>>}
MCSeparated == [p \in MCSources \X MCSections |-> p]
MCOne       == {1}

Label(c, l, t) == [corpus |-> c, language |-> l, at |-> t]

MCLabels == {Label("sop", "en", 1), Label("sop", Unset, 2),
             Label("hr", "en", 2), Label(Unset, "en", 1)}

MCAllowed == {"sop", "legal"}

Asks(c, s, l, f, t) == [defects |-> {}, corpus |-> c, sources |-> s,
                        language |-> l, from |-> f, to |-> t]

MCRequests ==
    {Asks("sop", MCSources, Unset, 0, 0), Asks("sop", {a}, "en", 0, 0),
     Asks("sop", {b}, Unset, 2, 0), Asks("sop", {a}, Unset, 0, 1),
     Asks("hr", MCSources, Unset, 0, 0), Asks(Unset, MCSources, Unset, 0, 0)}
    \cup {[Asks("sop", MCSources, Unset, 0, 0) EXCEPT !.defects = D] :
             D \in {{"unreadable", "oversize"}, {"oversize", "schema"},
                    {"malformed"}, {"schema"}}}
=============================================================================
