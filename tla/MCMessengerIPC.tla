--------------------------- MODULE MCMessengerIPC ---------------------------
(***************************************************************************)
(* Instances of MessengerIPC for TLC.                                      *)
(***************************************************************************)
EXTENDS MessengerIPC, TLC

CONSTANTS t1, t2, c1, c2

TokenSymmetry == Permutations(Token)
ConnSymmetry == Permutations(Conn)
Symmetry == TokenSymmetry \union ConnSymmetry
=============================================================================
