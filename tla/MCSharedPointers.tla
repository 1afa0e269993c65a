--------------------------- MODULE MCSharedPointers ---------------------------
(***************************************************************************)
(* The shared pointers alone, for the question whether a moved-from        *)
(* SharedPtr still holds a reference.                                      *)
(***************************************************************************)
EXTENDS SharedPointers
=============================================================================
