----------------------------- MODULE MCRpcConn -----------------------------
(* Two vats; the constants of the runs. *)
EXTENDS RpcConn, TLC

CONSTANTS alice, bob
Vats == {alice, bob}
OnlyBob == {bob}
Nobody == {}
Calls30 == alice :> 3 @@ bob :> 0
Calls31 == alice :> 3 @@ bob :> 1
Calls40 == alice :> 4 @@ bob :> 0
=============================================================================
