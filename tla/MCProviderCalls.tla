-------------------------- MODULE MCProviderCalls --------------------------
(* What the model-checked instances of ProviderCalls need besides           *)
(* constants.  The calls bind one schema; the other is watched only.        *)
EXTENDS ProviderCalls

CONSTANTS s1, s2

MCSchemaOf == [c \in Calls |-> s1]
=============================================================================
