---------------------------- MODULE MCHubRouter ----------------------------
(* An instance of HubRouter for TLC: an asynchronous submission r1, polled     *)
(* once, and a synchronous one, r2, polled after its 202, compete for the one  *)
(* slot of a queue; a worker pulls once and pushes a result for each.          *)
EXTENDS HubRouter, TLC
CONSTANTS key1, r1, r2, g1, g2, g3, q1, q2, p1

OneSync  == r2 :> g2
MixGets  == g1 :> r1 @@ g2 :> r2 @@ g3 :> r2
MixPuts  == q1 :> r1 @@ q2 :> r2
OneKey   == r1 :> key1 @@ r2 :> key1
OnePull  == p1 :> key1
AskThree == p1 :> 3
=============================================================================
