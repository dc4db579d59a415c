---------------------------- MODULE MCMemoryStore ----------------------------
(* An instance of MemoryStore for TLC: the calls of one request ID.            *)
EXTENDS MemoryStore, TLC
CONSTANTS i1, g1, g2, g3, p1, p2

OneIDGets == g1 :> i1 @@ g2 :> i1 @@ g3 :> i1
OneIDPuts == p1 :> i1 @@ p2 :> i1
=============================================================================
