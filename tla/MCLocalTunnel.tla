--------------------------- MODULE MCLocalTunnel ----------------------------
(* The session of the local strategy with a mover that prints two lines and  *)
(* opens a connection: enough for a write nobody reads and for a proxy that  *)
(* outlives the accept loop.                                                 *)
EXTENDS LocalTunnel

=============================================================================
