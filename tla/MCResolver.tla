----------------------------- MODULE MCResolver ------------------------------
(***************************************************************************)
(* Resolver for TLC: every program with two names within the bounds.       *)
(***************************************************************************)
EXTENDS Resolver, TLC

Symmetry == Permutations(Names \ Natives)
=============================================================================
