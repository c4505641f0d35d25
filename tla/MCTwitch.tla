------------------------------ MODULE MCTwitch ------------------------------
(***************************************************************************)
(* TwitchSession for TLC: the symmetry of the invocations of commands,     *)
(* which only differ in name.                                              *)
(***************************************************************************)
EXTENDS TwitchSession, TLC

CommandSymmetry == Permutations(Commands)
=============================================================================
