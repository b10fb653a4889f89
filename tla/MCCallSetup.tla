---------------------------- MODULE MCCallSetup ----------------------------
(***************************************************************************)
(* Executions of talk at a server's address and at client addresses.       *)
(***************************************************************************)
EXTENDS CallSetup

\* The executions of the client follow each other at one address, and so do
\* those of the server.
Successive == [e \in Endpoints |-> IF e \in Servers THEN "S" ELSE "A"]

\* Every client has an address of its own: they compete for the server.
Separate == [e \in Endpoints |-> IF e \in Servers THEN "S" ELSE e]
=============================================================================
