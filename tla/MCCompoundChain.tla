-------------------------- MODULE MCCompoundChain --------------------------
(***************************************************************************)
(* Compound chains for TLC: the connections that may fail are those of the *)
(* integrator only, or of all agents.                                      *)
(***************************************************************************)
EXTENDS CompoundChain

CONSTANTS api, docs, tests

\* Only the connections of the integrator fail.
Integrators == {"integrator"}
=============================================================================
