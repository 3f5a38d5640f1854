---------------------------- MODULE MCQualification ----------------------------
(***************************************************************************)
(* One route of each provider, two samples of each: a header, a backend or *)
(* a failure of the first sample meets another one of the second.          *)
(***************************************************************************)
EXTENDS Qualification

MCSelected   == <<"scout", "critic">>
MCProviderOf == [w \in {"scout", "critic"} |-> IF w = "scout" THEN "openai" ELSE "deepseek"]
MCCeiling    == [w \in {"scout", "critic"} |-> IF w = "scout" THEN 1 ELSE 2]
=============================================================================
