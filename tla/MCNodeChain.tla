----------------------------- MODULE MCNodeChain -----------------------------
(* Instances of NodeChain for TLC: all callers are alike.                  *)
EXTENDS NodeChain, TLC

CallerSymmetry == Permutations(Caller)
=============================================================================
