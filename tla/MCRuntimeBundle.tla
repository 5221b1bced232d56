--------------------------- MODULE MCRuntimeBundle ---------------------------
(* An instance of RuntimeBundle for TLC: two managers of one server.           *)
EXTENDS RuntimeBundle

CONSTANTS shell, remote

OneServer == [m \in Managers |-> {remote}]
===============================================================================
