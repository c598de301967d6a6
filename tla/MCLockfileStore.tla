-------------------------- MODULE MCLockfileStore --------------------------
(***************************************************************************)
(* LockfileStore with three writes and a reader.  The writers are          *)
(* interchangeable.                                                        *)
(***************************************************************************)
EXTENDS LockfileStore, TLC

StoreSymmetry == Permutations(Writer)
=============================================================================
