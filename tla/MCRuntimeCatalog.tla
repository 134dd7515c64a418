-------------------------- MODULE MCRuntimeCatalog --------------------------
(* One check after another, or two requests that overlap.                  *)
EXTENDS RuntimeCatalog
CONSTANTS c1, c2
MCOneCheck == {c1}
MCTwoChecks == {c1, c2}
=============================================================================
