-------------------------- MODULE MCResearchReplay --------------------------
(***************************************************************************)
(* Two observers of different identities of one sample, and one replay of  *)
(* each identity.                                                          *)
(***************************************************************************)
EXTENDS ResearchReplay, TLC

CONSTANTS o1, o2, r1, r2, a1, a2, s1

MCObservers == {o1, o2}
MCReplays   == {r1, r2}
MCAttempts  == {a1, a2}
MCSamples   == {s1}
MCSampleOf  == [a \in MCAttempts |-> s1]
MCTarget    == (o1 :> a1) @@ (o2 :> a2)
MCReplayTarget == (r1 :> a1) @@ (r2 :> a2)
=============================================================================
