---------------------------- MODULE MCTokenLedger ----------------------------
(***************************************************************************)
(* Small instances of TokenLedger for TLC.                                 *)
(***************************************************************************)
EXTENDS TokenLedger, TLC

CONSTANT Busy   \* the processes that overlapping calls use

\* Of requests at the same time: those that add to or take from one holder, of one arx.
BusyRequests == [op : {"mint", "remint", "burn"}, pid : Busy, holder : Holder, amount : {1}]

Symmetry == Permutations(Caller) \cup Permutations(Holder)
=============================================================================
