---------------------------- MODULE MCKeyedQueue ----------------------------
(* An instance of KeyedQueue for TLC: every call races to create the queue k1. *)
EXTENDS KeyedQueue, TLC
CONSTANTS k0, k1, r1, r2, r3, p1, p2

ReqKeys     == [r \in Reqs |-> k1]
PullKeys    == [p \in Pulls |-> k1]
BatchSizes  == p1 :> 2 @@ p2 :> 1
ReqSymmetry == Permutations({r1, r2, r3})
=============================================================================
