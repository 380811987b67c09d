----------------------------- MODULE MCProxied ------------------------------
(* A small instance of Proxied: a registration, and a query made by the     *)
(* callback of a notification.                                             *)
EXTENDS Proxied, TLC

CONSTANTS u1, cb1, n1

\* The flights of TLS 1.3.
MCFlights  == <<"client", "down", "client">>
MCCallback == n1 :> cb1
=============================================================================
