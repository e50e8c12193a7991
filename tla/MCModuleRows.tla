---------------------------- MODULE MCModuleRows ----------------------------
(* A chain of two modules beside a single module, each with a guarded step. *)
EXTENDS ModuleRows

CONSTANTS a, b, c

MCUnits == {<<a, b>>, <<c>>}
MCGuarded == {b, c}
=============================================================================
