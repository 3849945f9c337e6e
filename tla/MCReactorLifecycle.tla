------------------------ MODULE MCReactorLifecycle ------------------------
(***************************************************************************)
(* ReactorLifecycle for TLC: the host tasks are interchangeable.           *)
(***************************************************************************)
EXTENDS ReactorLifecycle, TLC

CallerSymmetry == Permutations(Callers)
=============================================================================
