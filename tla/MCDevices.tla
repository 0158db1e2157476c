----------------------------- MODULE MCDevices -----------------------------
(***************************************************************************)
(* Devices for TLC: nothing tells the slots apart, and every property      *)
(* checked is an invariant or speaks of single steps.                      *)
(***************************************************************************)
EXTENDS Devices, TLC

Symmetric == Permutations(Proc)
=============================================================================
