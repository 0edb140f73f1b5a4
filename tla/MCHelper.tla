------------------------------- MODULE MCHelper -------------------------------
(* TLC instance of Helper: two of the three routes, one spare port. *)
EXTENDS Helper

TwoRoutes == <<"HTTP_PROXY", "HTTPS_PROXY">>
ThreePorts == {"p1", "p2", "p3"}
AllNetworks == {"Allowed", "Blocked", "Proxied"}
=============================================================================
