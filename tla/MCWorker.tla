------------------------------ MODULE MCWorker ------------------------------
(* A task in a PySpark worker: the streams between the JVM and main() of   *)
(* worker.py, and what becomes of the accumulator updates behind the data. *)
(* A behaviour is one of either part, chosen in the initial state; the     *)
(* variables of the other part keep their initial values.                  *)
EXTENDS Accumulators, WorkerStreams

VARIABLES part, pos, broadcasts, todo, items, at, flushed, rpos

accumVars  == vars
streamVars == <<sent, cut, pos, broadcasts, todo, items, used, at, out,
                flushed, rpos, got, status>>

(* One include, two broadcast variables or a list that lost the first of   *)
(* them, four frames of two records, results in batches of three.          *)
Stream == INSTANCE WorkerTask WITH
            Needed <- {"b1", "b2"}, Broadcasts <- {<<"b1", "b2">>, <<"b2">>},
            NumFrames <- 4, OutBatch <- 3,
            loaded <- broadcasts, pc <- at
ASSUME StreamAssumption == Stream!Sizes
-----------------------------------------------------------------------------
MCInit == /\ Init
          /\ \/ part = "stream" /\ Stream!Init
             \/ part = "accumulators" /\ Stream!Init /\ sent = <<"b2">> /\ cut = 0

MCNext == /\ \/ part = "stream" /\ Stream!Next /\ UNCHANGED accumVars
             \/ part = "accumulators" /\ Next /\ UNCHANGED streamVars
          /\ UNCHANGED part

MCSpec == MCInit /\ [][MCNext]_<<part, accumVars, streamVars>>
=============================================================================
