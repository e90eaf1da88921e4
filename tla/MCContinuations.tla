--------------------------- MODULE MCContinuations ---------------------------
(* The continuation chain on a small arena. *)
EXTENDS ContinuationProps

CONSTANTS Get

MCEffects == {Get}
MCClauseSets == {{Get}, {}}
=============================================================================
