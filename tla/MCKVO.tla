---------------------------------- MODULE MCKVO ----------------------------------
(***************************************************************************)
(* The KVO observer registry for TLC, with client threads, two observers  *)
(* and the notifyKinds New and New | Initialize.                          *)
(***************************************************************************)
EXTENDS KVO

=============================================================================
