-------------------------- MODULE MCSideEffects --------------------------
(* Small instances of SideEffects for TLC. *)
EXTENDS SideEffects, TLC

SlotSymmetry == Permutations(Workers)
==========================================================================
