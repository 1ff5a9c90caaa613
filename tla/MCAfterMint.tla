---------------------------- MODULE MCAfterMint ----------------------------
(***************************************************************************)
(* Small instances of AfterMint for TLC.                                   *)
(***************************************************************************)
EXTENDS AfterMint, TLC

CONSTANT First      \* the holder who owns every asset at first

AllFirst == [p \in Minted |-> First]

Symmetry == Permutations(Caller)
=============================================================================
