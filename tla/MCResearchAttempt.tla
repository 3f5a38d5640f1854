-------------------------- MODULE MCResearchAttempt --------------------------
(***************************************************************************)
(* Two observers race for one attempt identity and a third one comes with  *)
(* another source set for the same sample, hence another identity.         *)
(***************************************************************************)
EXTENDS ResearchAttempt, TLC

CONSTANTS o1, o2, o3, a1, a2, s1

MCObservers == {o1, o2, o3}
MCAttempts  == {a1, a2}
MCSamples   == {s1}
MCSampleOf  == [a \in MCAttempts |-> s1]
MCTarget    == (o1 :> a1) @@ (o2 :> a1) @@ (o3 :> a2)
=============================================================================
