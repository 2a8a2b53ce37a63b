----------------------------- MODULE MCProgress -----------------------------
(* What must come to an end, under the fairness of each component: the     *)
(* commands of spark_ec2.py, the reports to the accumulators' server, the  *)
(* constructors of SparkContext, and takeSample.  A behaviour belongs to   *)
(* one of them, chosen in the initial state; the variables of the others   *)
(* keep their initial values.                                              *)
EXTENDS Ec2Cluster, RddSample

CONSTANTS Accs, Tasks, Threads, NoContext
VARIABLES turn,
          nextId, pc, loaded, aid, registry, value, adder, task, copy, found,
          stale, batch, server, due, raced, cnt,               \* Accumulators
          gateway, active, files, phase, jsc, listener, stop, held,
          stray,                                               \* DriverContext
          samples                                              \* RddSampling

Command(c, spot, reuse, delete) ==
    [cmd |-> c, spot |-> spot, reuse |-> reuse, delete |-> delete]
AllOptions ==
    {Command("launch", s, r, FALSE) : s \in BOOLEAN, r \in BOOLEAN}
    \cup {Command(c, FALSE, FALSE, FALSE) : c \in {"resume", "stop", "start"}}
    \cup {Command("destroy", FALSE, FALSE, TRUE)}

Accum == INSTANCE Accumulators WITH
           Together <- FALSE, MaxAdd <- 1, MaxDriver <- 1,
           MaxRuns <- 1, MaxReloads <- 1, MaxErrors <- 1
Driver == INSTANCE DriverContext WITH
            Faults <- FALSE, None <- NoContext, server <- listener

(* Empty, with one element, and with two partitions of several.            *)
MCRdds == {<<<<>>, <<>>>>, <<<<1>>, <<>>>>, <<<<1, 2>>, <<3>>>>,
           <<<<1, 2, 3, 4>>, <<5, 6, 7>>>>}
Sampling == INSTANCE RddSampling WITH
              Elements <- 1..7, Rdds <- MCRdds, MAXINT <- 1000, MaxNum <- 4,
              MaxCopies <- 4, MaxReplaced <- 1
ASSUME RddsDistinct == Sampling!DistinctElements
-----------------------------------------------------------------------------
accumVars    == <<nextId, pc, loaded, aid, registry, value, adder, task, copy, found,
                  stale, batch, server, due, raced, cnt>>
driverVars   == <<gateway, active, files, phase, jsc, listener, stop, held, stray>>
samplingVars == <<rdd, withReplacement, num, at, samples, result>>

(* One initial state of RddSampling for the behaviours of the others.      *)
NoSample == rdd = <<<<1>>, <<>>>> /\ ~withReplacement /\ num = 0

MCInit == /\ turn \in {"ec2", "accumulators", "driver", "sampling"}
          /\ Init /\ Accum!Init /\ Driver!Init /\ Sampling!Init
          /\ turn # "sampling" => NoSample

MCNext ==
    /\ \/ turn = "ec2" /\ Next /\ UNCHANGED <<accumVars, driverVars, samplingVars>>
       \/ turn = "accumulators" /\ Accum!Next
          /\ UNCHANGED <<vars, driverVars, samplingVars>>
       \/ turn = "driver" /\ Driver!Next /\ UNCHANGED <<vars, accumVars, samplingVars>>
       \/ turn = "sampling" /\ Sampling!Next /\ UNCHANGED <<vars, accumVars, driverVars>>
    /\ UNCHANGED turn

(* The fairness of each component (its FairSpec), in its own turn.         *)
MCSpec ==
    /\ MCInit /\ [][MCNext]_<<turn, vars, accumVars, driverVars, samplingVars>>
    /\ \A o \in Operators : WF_vars(turn = "ec2" /\ Step(o))
    /\ \A i \in Ids : WF_vars(turn = "ec2" /\ Settles(i))
    /\ WF_accumVars(turn = "accumulators" /\ Accum!DriverWrite)
    /\ \A t \in Tasks : WF_accumVars(turn = "accumulators" /\ Accum!Serve(t))
    /\ \A t \in Threads : /\ WF_driverVars(turn = "driver" /\ Driver!InitSteps(t))
                          /\ WF_driverVars(turn = "driver" /\ Driver!StopSteps(t))
                          /\ WF_driverVars(turn = "driver" /\ Driver!StopOnce(t))
    /\ WF_samplingVars(turn = "sampling" /\ (Sampling!takeSample \/ Sampling!shuffle))
    /\ SF_samplingVars(turn = "sampling" /\ Sampling!LargeEnough)
-----------------------------------------------------------------------------
(* accumulators.py: every report is acknowledged or ended by an error.     *)
ReportsEnd ==
    \A t \in Tasks : task[t] = "reported" ~> task[t] = "over"

(* context.py: a thread that keeps calling the constructor gets its        *)
(* context once the others stop theirs, unless one lets go of a running    *)
(* context without stopping it.                                            *)
GetsContext ==
    \A t \in Threads :
        <>(turn = "driver" => phase[t] = "done" \/ \E u \in Threads : Driver!Forgotten(u))

(* rdd.py: takeSample does not go on sampling for ever.                    *)
SampleEnds == <>(turn = "sampling" => at \in {"done", "raised"})
=============================================================================
