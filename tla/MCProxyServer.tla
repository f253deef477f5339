--------------------------- MODULE MCProxyServer ---------------------------
(* Two connections, of which one makes requests of every kind and the      *)
(* other at most a bad one, and two concurrent calls of Close.             *)
EXTENDS ProxyServer, TLC

CONSTANTS c1, c2, k1, k2

MCKinds == (c1 :> {"connect", "plain", "socks"}) @@ (c2 :> {})
=============================================================================
