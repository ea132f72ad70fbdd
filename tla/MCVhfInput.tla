----------------------------- MODULE MCVhfInput -----------------------------
(* Model values for VhfInput: threads of a kind and discrete states are      *)
(* interchangeable.  Used for safety only.                                   *)
EXTENDS VhfInput, TLC

Symmetry ==
  Permutations(Workers) \cup Permutations(ReadyThreads)
    \cup Permutations(Discrete)
=============================================================================
