------------------------------ MODULE MCTrans ------------------------------
(***************************************************************************)
(* K2HTrans with pools of every size up to two.                             *)
(***************************************************************************)
EXTENDS K2HTrans
=============================================================================
