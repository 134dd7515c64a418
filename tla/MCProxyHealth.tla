---------------------------- MODULE MCProxyHealth ----------------------------
(* One connection to a running Proxy is enough to hold the health record     *)
(* that its accepting task waits for.                                        *)
EXTENDS ProxyHealth
CONSTANT client
MCClients == {client}
=============================================================================
