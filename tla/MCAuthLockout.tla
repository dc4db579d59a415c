---------------------------- MODULE MCAuthLockout ----------------------------
(* Instances of AuthLockout for TLC: three requests of one address, one of them *)
(* with a valid key, beside a request of another address; and three failing     *)
(* requests of one address.                                                     *)
EXTENDS AuthLockout, TLC
CONSTANTS r1, r2, r3, r4, ipA, ipB

AddressOf == [r \in Reqs |-> IF r = r4 THEN ipB ELSE ipA]
=============================================================================
