-------------------------- MODULE MCSparkService --------------------------
(* The rotation with its five logs, a respawn limit that is reached.       *)
EXTENDS SparkService
=============================================================================
