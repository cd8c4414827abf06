------------------------------ MODULE MCQuoting -----------------------------
(***************************************************************************)
(* The instance of Quoting that TLC checks.                                *)
(***************************************************************************)
EXTENDS Quoting, TLC

Symmetry == Permutations(Requests) \union Permutations(Bends) \union Permutations(Quotes)
              \union Permutations(Drawings)
=============================================================================
