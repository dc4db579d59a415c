---------------------------- MODULE MCRateLimiter ----------------------------
(* Instances of RateLimiter for TLC: the requests of one client that come in   *)
(* directly, through a proxy and through a chain of proxies.                   *)
EXTENDS RateLimiter, TLC
CONSTANTS r1, r2, r3, ipA, ipB

Direct(ip)  == [xff |-> <<>>, xri |-> NoIP, remote |-> ip]
Real(ip)    == [xff |-> <<>>, xri |-> ip, remote |-> ipB]
Chained(ip) == [xff |-> <<NoIP, ip, ipB>>, xri |-> ipB, remote |-> ipB]

Headers == r1 :> Direct(ipA) @@ r2 :> Real(ipA) @@ r3 :> Chained(ipA)
ThreeWays == [r \in Reqs |-> Headers[r]]
=============================================================================
