-------------------------- MODULE MCBrowserSession --------------------------
(* An instance of BrowserSession for TLC; see the .cfg files for the runs.   *)
EXTENDS BrowserSession, TLC

\* Tabs, calls other than Me and tokens are interchangeable; used where no
\* liveness is checked.
Symmetry == Permutations(Tabs) \union Permutations(Calls \ {Me}) \union Permutations(Tokens)
=============================================================================
