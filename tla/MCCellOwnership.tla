-------------------------- MODULE MCCellOwnership --------------------------
(* Instances of CellOwnership for TLC. *)
EXTENDS CellOwnership, TLC

NodeSymmetry == Permutations(Node)

============================================================================
