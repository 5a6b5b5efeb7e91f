---------------------------- MODULE MCQueryGateway ----------------------------
(* Two requests over each way of registration.                             *)
EXTENDS QueryGateway

MCRequests == {"r1", "r2"}
MCWays == {"server", "client", "endpoint"}

=============================================================================
