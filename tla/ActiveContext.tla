--------------------------- MODULE ActiveContext ---------------------------
(***************************************************************************)
(* Which SparkContext is the active one, what of each context runs, and    *)
(* how the two belong together.  DriverContext has the steps.              *)
(***************************************************************************)
VARIABLES
    active,   \* SparkContext._active_spark_context
    jsc,      \* jsc[t]: the attribute _jsc, and the context in the JVM
    server,   \* server[t]: the attribute _accumulatorServer, and its thread
    stray     \* a stop reset the active context although it was another one

(* Whatever lives in the JVM or listens for updates belongs to the active  *)
(* context, in every interleaving of constructors that raise and stops     *)
(* that raise; only a late stop (a second call, or __del__ of a context    *)
(* stopped before) can end that.                                           *)
ActiveOwnsAll ==
    ~stray => \A t \in DOMAIN jsc : jsc[t] = "up" \/ server[t] = "up" => active = t
=============================================================================
