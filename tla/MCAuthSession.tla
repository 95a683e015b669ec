--------------------------- MODULE MCAuthSession ---------------------------
(***************************************************************************)
(* AuthSession for TLC: the requests are interchangeable.                   *)
(***************************************************************************)
EXTENDS AuthSession, TLC

CallSymmetry == Permutations(Calls)
============================================================================
