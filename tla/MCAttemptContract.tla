-------------------------- MODULE MCAttemptContract --------------------------
(***************************************************************************)
(* Two attempt identities compete for the first sample, and one has the    *)
(* second sample to itself.                                                *)
(***************************************************************************)
EXTENDS AttemptContract, TLC

CONSTANTS a1, a2, a3, s1, s2

MCAttempts == {a1, a2, a3}
MCSamples  == {s1, s2}
MCSampleOf == (a1 :> s1) @@ (a2 :> s1) @@ (a3 :> s2)

\* a1 and a2 are interchangeable: both belong to s1.
Interchangeable == Permutations({a1, a2})
=============================================================================
