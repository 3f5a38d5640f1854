------------------------------ MODULE MCCampaign ------------------------------
(***************************************************************************)
(* One window and two schedulers.                                          *)
(***************************************************************************)
EXTENDS Campaign, TLC

CONSTANTS s1, s2

MCSchedulers == {s1, s2}

Interchangeable == Permutations(MCSchedulers)
=============================================================================
