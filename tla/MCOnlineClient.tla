--------------------------- MODULE MCOnlineClient ---------------------------
(* An instance of OnlineClient for TLC: one call, of any of the three methods,  *)
(* whose application waits for the result twice.  Calls share no state, in the  *)
(* client or in what Broker says of the hub, so that one shows what each does.  *)
EXTENDS OnlineClient
CONSTANT c1

AllMethods == {"Submit", "DoSync", "Do"}
=============================================================================
