-------------------------- MODULE MCNodeLifecycle ---------------------------
(***************************************************************************)
(* Model-checking instance of NodeLifecycle: two nodes, numbered in slug   *)
(* order.                                                                  *)
(***************************************************************************)
EXTENDS NodeLifecycle
=============================================================================
