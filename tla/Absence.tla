------------------------------- MODULE Absence --------------------------------
(***************************************************************************)
(* The value that stands for null, undefined and "none yet" in every       *)
(* module about the browser.                                               *)
(***************************************************************************)
CONSTANT None
=============================================================================
