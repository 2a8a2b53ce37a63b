---------------------------- MODULE MCDeployment ----------------------------
(* The three ways the repository's scripts bring up and take down a        *)
(* cluster: the Fabric tasks on two hosts, two operators who run           *)
(* spark-daemon.sh for one instance of a daemon, and spark_ec2.py.  A      *)
(* behaviour is a behaviour of one of them, chosen in the initial state;   *)
(* the variables of the others keep their initial values.                  *)
EXTENDS ClusterDeploy, SparkDaemons, Ec2Instances

CONSTANT Operator

VARIABLES tool,                                         \* which of the three
          file, newpid, spoilt,                         \* spark-daemon.sh
          next, groups, rules, given, interrupts        \* EC2

fabricVars == vars
scriptVars == <<file, proc, owner, pc, instance, newpid, stray, due, spoilt>>
ec2Vars    == <<inst, next, groups, rules, conf, op, orphans, given, interrupts>>
-----------------------------------------------------------------------------
MCHosts        == <<"node1", "node2">>
MCWithin(a, b) == a = b
MCCommands     == {<<"init">>, Start, StopHdfs, <<"stopSparkWorkers", "stopSparkMaster">>}

Script == INSTANCE SparkDaemonScript WITH Reuse <- TRUE

Command(c, spot, reuse, delete) ==
    [cmd |-> c, spot |-> spot, reuse |-> reuse, delete |-> delete]
AllOptions ==
    {Command("launch", s, r, FALSE) : s \in BOOLEAN, r \in BOOLEAN}
    \cup {Command(c, FALSE, FALSE, FALSE) : c \in {"resume", "stop", "start"}}
    \cup {Command("destroy", FALSE, FALSE, TRUE)}
Ec2 == INSTANCE Ec2Cluster WITH
         Operators <- {Operator}, NumZones <- 2, NumInst <- 5, NumRules <- 1,
         Options <- AllOptions, MaxCommands <- 3, MaxInterrupts <- 2

ASSUME Hypotheses == NamesApart /\ Ec2!OneOperator /\ Ec2!Bounds
-----------------------------------------------------------------------------
MCInit == tool \in {"fabric", "script", "ec2"} /\ Init /\ Script!Init /\ Ec2!Init

MCNext == /\ \/ tool = "fabric" /\ Next /\ UNCHANGED <<scriptVars, ec2Vars>>
             \/ tool = "script" /\ Script!Next /\ UNCHANGED <<fabricVars, ec2Vars>>
             \/ tool = "ec2" /\ Ec2!Next /\ UNCHANGED <<fabricVars, scriptVars>>
          /\ UNCHANGED tool

MCSpec == MCInit /\ [][MCNext]_<<tool, fabricVars, scriptVars, ec2Vars>>
=============================================================================
