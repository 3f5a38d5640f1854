------------------------ MODULE MCSemanticQualification ------------------------
(***************************************************************************)
(* Two runs of the command and a route qualifier share one output path,    *)
(* or two route qualifiers do; two workloads with two cases each.          *)
(***************************************************************************)
EXTENDS SemanticQualification, TLC

CONSTANTS r1, r2, q1, q2

MCRuns       == {r1, r2}
NoRuns       == {}
MCWriters    == MCRuns \cup {q1}
Qualifiers   == {q1, q2}
MCWorkloadOf == <<"text", "text", "macro", "macro">>

Interchangeable == Permutations(MCRuns)
=============================================================================
