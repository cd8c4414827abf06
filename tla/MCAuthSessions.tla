---------------------------- MODULE MCAuthSessions ---------------------------
(***************************************************************************)
(* The instance of AuthSessions that TLC checks.                           *)
(***************************************************************************)
EXTENDS AuthSessions, TLC

Symmetry == Permutations(Requests) \union Permutations(Tokens) \union Permutations(Emails)
              \union Permutations(Passwords)
=============================================================================
