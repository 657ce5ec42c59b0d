-------------------------- MODULE MCSocketProvider --------------------------
(***************************************************************************)
(* SocketProvider for TLC.  The calls, and the ids they choose, are         *)
(* interchangeable.                                                         *)
(***************************************************************************)
EXTENDS SocketProvider, TLC

Symmetry == Permutations(Callers) \cup Permutations(CallerIds)

=============================================================================
