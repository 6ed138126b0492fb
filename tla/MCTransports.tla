---------------------------- MODULE MCTransports ----------------------------
(* Every transport on small sets of requests and chunks.                   *)
EXTENDS Transports

CONSTANTS t1, t2, a, b
=============================================================================
