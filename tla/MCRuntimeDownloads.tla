------------------------ MODULE MCRuntimeDownloads ------------------------
(* Three operations, two of them of one Runtime, and room for two.          *)
EXTENDS RuntimeDownloads, TLC

CONSTANTS o1, o2, o3, php, node

MCOps == {o1, o2, o3}
MCKeys == {php, node}
MCIdentity == (o1 :> php) @@ (o2 :> php) @@ (o3 :> node)
=============================================================================
