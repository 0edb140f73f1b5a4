-------------------------------- MODULE MCTunnel --------------------------------
(* Instance of Tunnel: the chains of both platforms.  Where the server does not *)
(* read, the client writes enough to fill every buffer up to its own.           *)
EXTENDS Tunnel

MCSetups ==
  {[chain |-> <<"tokio">>, reads |-> Ends, max |-> [up |-> 2, down |-> 2]],
   [chain |-> <<"pump", "tokio", "tokio">>, reads |-> Ends, max |-> [up |-> 2, down |-> 1]],
   [chain |-> <<"pump", "tokio", "tokio">>, reads |-> {"client"},
    max |-> [up |-> 7, down |-> 1]]}
=============================================================================
