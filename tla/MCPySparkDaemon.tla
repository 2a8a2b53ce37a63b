-------------------------- MODULE MCPySparkDaemon --------------------------
(* A pool of two workers and a few connections.                            *)
EXTENDS PySparkDaemon
=============================================================================
