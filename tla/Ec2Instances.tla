---------------------------- MODULE Ec2Instances ----------------------------
(***************************************************************************)
(* The instances and spot requests of one cluster name, what an operator's *)
(* run of ec2/spark_ec2.py knows of them, and what the script promises     *)
(* about them.  Ec2Cluster has the steps.                                  *)
(***************************************************************************)
EXTENDS FiniteSets

CONSTANT Slaves    \* opts.slaves

VARIABLES inst,    \* EC2: each instance or spot request
          conf,    \* the slave list deployed on each master
          op,      \* each operator's process
          orphans  \* spot requests a launch made and lost sight of

Setup == {"key", "read", "keys", "clone", "rsync", "run", "done"}

(* is_active counts stopping and stopped; a request is no instance yet.    *)
IsActive(i) == inst[i].state \in {"pending", "running", "stopping", "stopped"}
GetExistingCluster(r) == {i \in DOMAIN inst : IsActive(i) /\ inst[i].role = r}

(* A launch sets up as many slaves as were asked for, whatever the zones,  *)
(* and a master.                                                           *)
LaunchSizes ==
    \A o \in DOMAIN op :
        op[o].cmd = "launch" /\ op[o].pc \in {"wait"} \cup Setup =>
            Cardinality(op[o].ss) = Slaves /\ op[o].ms # {}

(* When launch (or its resumption after any failure) reports Done, every   *)
(* slave it set up holds the key of the master that starts it by ssh.      *)
KeysMatch ==
    \A o \in DOMAIN op :
        op[o].pc = "done" /\ op[o].cmd \in {"launch", "resume"} =>
            \A s \in op[o].ss : inst[s].key = inst[op[o].m].key

(* The slave list on the master misses no active slave when the script     *)
(* reports Done, but for those of requests it lost sight of.               *)
ConfigComplete ==
    \A o \in DOMAIN op :
        op[o].pc = "done" /\ orphans = {} =>
            GetExistingCluster("slaves") \subseteq conf[op[o].m]

(* spark_ec2.py: when launch, or its resumption, reports Done, it has the  *)
(* slaves that were asked for and a master, each slave holds the key of    *)
(* the master that starts it, and the slave list on the master misses no   *)
(* active slave, but for lost spot requests.                               *)
DoneIsComplete == LaunchSizes /\ KeysMatch /\ ConfigComplete

(* spark_ec2.py: once destroy has made its terminate calls nothing in the  *)
(* groups runs, is about to run or will be granted, but for lost spot      *)
(* requests.                                                               *)
DestroyLeavesNothing ==
    \A o \in DOMAIN op :
        op[o].pc \in {"revoke", "delete"} =>
            \A i \in DOMAIN inst \ orphans : inst[i].state \in
                {"none", "cancelled", "shutting-down", "terminated"}
=============================================================================
