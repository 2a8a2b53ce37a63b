---------------------------- MODULE MCAppDeploy ----------------------------
(* Two shells in one application directory, two servers.                   *)
EXTENDS AppDeploy, TLC

CONSTANTS dev, ops, v1, v2

MCShells  == {dev, ops}
MCServers == {v1, v2}
MCAll     == <<v1, v2>>

Deploy == <<"assembly", "sync", "start">>

(* dev deploys and kills, ops re-synchronises, deploys and fetches output. *)
MCInvocations ==
    [s \in {dev, ops} |->
       IF s = dev THEN {Deploy, <<"kill">>}
                  ELSE {<<"sync", "start">>, <<"getOutput">>}]

ASSUME FetcherAssumption == OneFetcher

DriverSymmetry == Permutations(DriverIds)
=============================================================================
