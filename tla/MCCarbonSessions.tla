-------------------------- MODULE MCCarbonSessions --------------------------
(***************************************************************************)
(* Instances of CarbonSessions for TLC.                                    *)
(***************************************************************************)
EXTENDS CarbonSessions, TLC

CONSTANTS a1, a2, f1, f2, t1

FeslSymmetry == Permutations(Fesl)
=============================================================================
