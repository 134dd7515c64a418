-------------------------- MODULE MCRuntimeInstall --------------------------
(* Two versions, one of them built in, two packages of each online.          *)
EXTENDS RuntimeInstall, TLC

CONSTANTS v1, v2, p1, p2, l1

MCVersions == {v1, v2}
MCCatalog == {p1, p2}
MCLocal == {l1}
MCBundled == {v1}
Alike == Permutations(MCCatalog)
=============================================================================
