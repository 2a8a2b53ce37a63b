----------------------------- MODULE Ec2Cluster -----------------------------
(***************************************************************************)
(* ec2/spark_ec2.py: the commands launch, launch --resume, destroy, stop   *)
(* and start, run by operators against one cluster name.  One step is one  *)
(* call to EC2 or one ssh.  A spot request and the instance it is granted  *)
(* share one number, so a request is an instance in state "open".          *)
(***************************************************************************)
EXTENDS Ec2Instances, Integers

CONSTANTS Operators,     \* people running the script
          NumZones,      \* zones the slaves are spread over
          NumInst,       \* bound: instances and requests ever made
          NumRules,      \* rules authorised in each group
          Options,       \* command lines an operator may give
          MaxCommands,   \* bound: commands given in all
          MaxInterrupts  \* bound: exceptions and Ctrl-C

Cmds   == {"launch", "resume", "destroy", "stop", "start"}
Bounds ==
    /\ Slaves \in Nat \ {0} /\ NumZones \in Nat \ {0} /\ NumRules \in Nat \ {0}
    /\ NumInst \in Nat /\ MaxCommands \in Nat /\ MaxInterrupts \in Nat
    /\ Options \subseteq [cmd : Cmds, spot : BOOLEAN, reuse : BOOLEAN, delete : BOOLEAN]
ASSUME Ec2Assumption == Bounds

(* One person runs the script at a time.                                   *)
OneOperator == \E o \in Operators : Operators = {o}

VARIABLES next,    \* EC2: the number of the last one made
          groups,  \* EC2: the security groups that exist
          rules,   \* EC2: the rules authorised in each group
          given, interrupts

vars == <<inst, next, groups, rules, conf, op, orphans, given, interrupts>>

Ids      == 1..NumInst
Roles    == {"master", "slaves"}
States   == {"none", "open", "cancelled", "pending", "running", "stopping",
             "stopped", "shutting-down", "terminated"}
Pcs      == {"idle", "find", "group", "auth", "check", "slaves", "spot", "cancel",
             "master", "wait", "terminate", "stop", "start", "revoke",
             "delete"} \cup Setup

Instance == [state : States, role : Roles, spot : BOOLEAN, key : 0..NumInst]
Process  == [pc : Pcs, cmd : Cmds, spot : BOOLEAN, reuse : BOOLEAN, delete : BOOLEAN,
             role : Roles, fresh : SUBSET Roles, n : Nat, m : 0..NumInst,
             ms : SUBSET Ids, ss : SUBSET Ids, todo : SUBSET Ids, tries : 0..6]

TypeOK ==
    /\ inst \in [Ids -> Instance]
    /\ next \in 0..NumInst
    /\ groups \subseteq Roles /\ rules \in [Roles -> SUBSET (1..NumRules)]
    /\ conf \in [Ids -> SUBSET Ids]
    /\ orphans \subseteq Ids /\ op \in [Operators -> Process]

Idle == [pc |-> "idle", cmd |-> "stop", spot |-> FALSE, reuse |-> FALSE,
         delete |-> FALSE, role |-> "master", fresh |-> {}, n |-> 0, m |-> 0,
         ms |-> {}, ss |-> {}, todo |-> {}, tries |-> 0]

Init ==
    /\ inst = [i \in Ids |-> [state |-> "none", role |-> "slaves",
                              spot |-> FALSE, key |-> 0]]
    /\ next = 0 /\ groups = {} /\ rules = [r \in Roles |-> {}]
    /\ conf = [i \in Ids |-> {}]
    /\ op = [o \in Operators |-> Idle]
    /\ orphans = {} /\ given = 0 /\ interrupts = 0

cloud == <<inst, next, groups, rules, conf>>
rest  == <<orphans, given, interrupts>>

At(o, pc)     == op[o].pc = pc
Goto(o, pc)   == op' = [op EXCEPT ![o].pc = pc]
Exit(o)       == op' = [op EXCEPT ![o] = Idle]
SetState(i, s) == inst' = [inst EXCEPT ![i].state = s]

GetPartition(total, parts, current) ==
    (total \div parts) + (IF (total % parts) - current > 0 THEN 1 ELSE 0)

(* image.run and request_spot_instances: n new instances or requests.      *)
Allocate(n, role, spot, state) ==
    /\ next + n <= NumInst
    /\ next' = next + n
    /\ inst' = [i \in Ids |-> IF i \in (next + 1)..(next + n)
                              THEN [state |-> state, role |-> role,
                                    spot |-> spot, key |-> 0]
                              ELSE inst[i]]
New(n) == (next + 1)..(next + n)

-----------------------------------------------------------------------------
(* real_main: the prompt of destroy and stop answered with y.              *)
Begin(o) ==
    /\ At(o, "idle") \/ At(o, "done")
    /\ given < MaxCommands
    /\ given' = given + 1
    /\ \E c \in Options :
         op' = [op EXCEPT ![o] =
                  [Idle EXCEPT !.pc = IF c.cmd = "launch" THEN "group" ELSE "find",
                               !.cmd = c.cmd, !.spot = c.spot, !.reuse = c.reuse,
                               !.delete = c.delete]]
    /\ UNCHANGED <<cloud, orphans, interrupts>>

(* get_existing_cluster for all commands but launch; resume and start die  *)
(* without a master.                                                       *)
Find(o) ==
    LET ms == GetExistingCluster("master")  ss == GetExistingCluster("slaves")
        c == op[o].cmd
    IN /\ At(o, "find")
       /\ IF ms = {} /\ c \in {"resume", "start"}
          THEN Exit(o)
          ELSE op' = [op EXCEPT ![o].ms = ms, ![o].ss = ss,
                        ![o].todo = IF c = "resume" THEN {} ELSE ms \cup ss,
                        ![o].pc = CASE c = "resume"  -> "key"
                                    [] c = "destroy" -> "terminate"
                                    [] OTHER         -> c]
       /\ UNCHANGED <<cloud, rest>>

(* get_or_make_group, master first.  The rules are those of the answer:    *)
(* fresh holds the groups seen without any.                                *)
GetOrMakeGroup(o) ==
    LET r == op[o].role
    IN /\ At(o, "group")
       /\ groups' = groups \cup {r}
       /\ op' = [op EXCEPT
                   ![o].fresh = IF rules[r] = {} THEN @ \cup {r} ELSE @,
                   ![o].role = IF r = "master" THEN "slaves" ELSE "master",
                   ![o].pc = IF r = "master" THEN "group" ELSE "auth"]
       /\ UNCHANGED <<inst, next, rules, conf, rest>>

(* The authorize calls of one group, only when it was seen without rules;  *)
(* a rule that exists by now, or a group that is gone, is an error.        *)
Authorize(o) ==
    LET r == op[o].role  k == op[o].n + 1
        last == r \notin op[o].fresh \/ k = NumRules
    IN /\ At(o, "auth")
       /\ IF r \in op[o].fresh /\ (r \notin groups \/ k \in rules[r])
          THEN Exit(o) /\ UNCHANGED rules
          ELSE /\ rules' = [rules EXCEPT ![r] =
                              IF r \in op[o].fresh THEN @ \cup {k} ELSE @]
               /\ op' = [op EXCEPT
                           ![o].n = IF last THEN 0 ELSE k,
                           ![o].role = IF last THEN "slaves" ELSE r,
                           ![o].pc = IF last /\ r = "slaves" THEN "check" ELSE @]
       /\ UNCHANGED <<inst, next, groups, conf, rest>>

(* The check for instances in the groups, and the AMI, which may be        *)
(* unknown.                                                                *)
MutRefuses(o) == ~op[o].reuse /\ \E r \in Roles : GetExistingCluster(r) # {}
Refuses(o) ==
    \/ GetExistingCluster("slaves") # {}
    \/ GetExistingCluster("master") # {} /\ ~op[o].reuse
CheckExisting(o) ==
    /\ At(o, "check")
    /\ \/ Exit(o)
       \/ /\ ~Refuses(o)
          /\ op' = [op EXCEPT ![o].ms = GetExistingCluster("master"),
                              ![o].pc = "slaves"]
    /\ UNCHANGED <<cloud, rest>>

(* One zone: run the instances, or request them when there is a price.     *)
LaunchSlaves(o) ==
    LET n == GetPartition(Slaves, NumZones, op[o].n)
        last == op[o].n + 1 = NumZones
    IN /\ At(o, "slaves") /\ "slaves" \in groups
       /\ Allocate(n, "slaves", op[o].spot,
                   IF op[o].spot THEN "open" ELSE "pending")
       /\ op' = [op EXCEPT ![o].ss = @ \cup New(n), ![o].n = @ + 1,
                   ![o].pc = IF ~last THEN @
                             ELSE IF op[o].spot THEN "spot" ELSE "master"]
       /\ UNCHANGED <<groups, rules, conf, rest>>

(* The polling loop ends when as many requests are active as slaves were   *)
(* asked for.                                                              *)
SpotGranted(o) ==
    /\ At(o, "spot")
    /\ Cardinality({i \in op[o].ss : inst[i].state \in {"pending", "running"}})
         = Slaves
    /\ Goto(o, "master")
    /\ UNCHANGED <<cloud, rest>>

(* Any exception in the loop, Ctrl-C too, leads to its handler, which      *)
(* cancels the requests that are still open.                               *)
SpotRaises(o) ==
    /\ At(o, "spot") /\ interrupts < MaxInterrupts
    /\ interrupts' = interrupts + 1
    /\ Goto(o, "cancel")
    /\ UNCHANGED <<cloud, orphans, given>>

MutSpotCancel(o) ==
    /\ At(o, "cancel") /\ Exit(o)
    /\ UNCHANGED <<cloud, rest>>
SpotCancel(o) ==
    /\ At(o, "cancel") /\ Exit(o)
    /\ inst' = [i \in Ids |-> IF i \in op[o].ss /\ inst[i].state = "open"
                              THEN [inst[i] EXCEPT !.state = "cancelled"]
                              ELSE inst[i]]
    /\ UNCHANGED <<next, groups, rules, conf, rest>>

LaunchMaster(o) ==
    /\ At(o, "master")
    /\ IF op[o].ms # {}
       THEN /\ op' = [op EXCEPT ![o].pc = "start", ![o].todo = op[o].ms]
            /\ UNCHANGED <<inst, next>>
       ELSE /\ "master" \in groups
            /\ Allocate(1, "master", FALSE, "pending")
            /\ op' = [op EXCEPT ![o].ms = New(1), ![o].pc = "wait"]
    /\ UNCHANGED <<groups, rules, conf, rest>>

-----------------------------------------------------------------------------
(* terminate, stop and start, one instance at a time: start takes the      *)
(* slaves first, the others the masters.  A call EC2 refuses ends the      *)
(* script where it stands.                                                 *)
After(o) ==
    CASE At(o, "start") -> Goto(o, "wait")
      [] At(o, "terminate") /\ op[o].delete -> Goto(o, "revoke")
      [] OTHER -> Exit(o)

Turn(o) ==
    LET first == {i \in op[o].todo : inst[i].role =
                    IF At(o, "start") THEN "slaves" ELSE "master"}
    IN IF first # {} THEN first ELSE op[o].todo

Terminated(i) == IF inst[i].state = "stopped" THEN "terminated"
                 ELSE "shutting-down"

(* EC2's answer: the state after the call, or "refused".                   *)
Outcome(o, i) ==
    LET s == inst[i].state  dead == {"shutting-down", "terminated"}
    IN CASE At(o, "terminate") -> IF s \in dead THEN s ELSE Terminated(i)
         [] At(o, "stop") /\ inst[i].spot ->
                                  IF s \in dead THEN s ELSE Terminated(i)
         [] At(o, "stop") /\ s = "running" -> "stopping"
         [] At(o, "stop") /\ s \in {"stopping", "stopped"} -> s
         [] At(o, "start") /\ ~inst[i].spot /\ s = "stopped" -> "pending"
         [] At(o, "start") /\ ~inst[i].spot /\ s \in {"pending", "running"} -> s
         [] OTHER -> "refused"

ForEach(o) ==
    /\ op[o].pc \in {"terminate", "stop", "start"}
    /\ \/ op[o].todo = {} /\ After(o) /\ UNCHANGED inst
       \/ \E i \in Turn(o) :
            IF Outcome(o, i) = "refused" THEN Exit(o) /\ UNCHANGED inst
            ELSE /\ SetState(i, Outcome(o, i))
                 /\ op' = [op EXCEPT ![o].todo = @ \ {i}]
    /\ UNCHANGED <<next, groups, rules, conf, rest>>

(* destroy --delete-groups, an attempt: revoke the rules of the groups     *)
(* found (a revoke that did nothing answers True as well), wait, delete.   *)
MutNextAttempt(n) == 1
NextAttempt(n) == n + 1
Revoke(o) ==
    /\ At(o, "revoke")
    /\ \E left \in [groups -> SUBSET (1..NumRules)] :
         /\ \A r \in groups : left[r] \subseteq rules[r]
         /\ rules' = [r \in Roles |-> IF r \in groups THEN left[r] ELSE rules[r]]
    /\ op' = [op EXCEPT ![o].fresh = groups, ![o].n = NextAttempt(@),
                        ![o].pc = "delete"]
    /\ UNCHANGED <<inst, next, groups, conf, rest>>

InUse(r) == \E i \in Ids : inst[i].role = r /\ inst[i].state \notin
                             {"none", "open", "cancelled", "terminated"}

DeleteGroups(o) ==
    /\ At(o, "delete")
    /\ \E gone \in SUBSET {r \in op[o].fresh : ~InUse(r)} :
         /\ groups' = groups \ gone
         /\ rules' = [r \in Roles |-> IF r \in gone THEN {} ELSE rules[r]]
         /\ IF gone = op[o].fresh \/ op[o].n = 3 THEN Exit(o)
            ELSE Goto(o, "revoke")
    /\ UNCHANGED <<inst, next, conf, rest>>

-----------------------------------------------------------------------------
(* wait_for_cluster, then setup_cluster: the master's key on every slave   *)
(* (not for start), the clone, the files with the slave list, setup.sh.    *)
WaitForCluster(o) ==
    /\ At(o, "wait")
    /\ \A i \in op[o].ms \cup op[o].ss : inst[i].state # "pending"
    /\ Goto(o, IF op[o].cmd = "start" THEN "clone" ELSE "key")
    /\ UNCHANGED <<cloud, rest>>

Up(i) == inst[i].state = "running"

SetupKey(o) ==
    /\ \/ /\ At(o, "key")
          /\ \E m \in op[o].ms : Up(m)
               /\ inst' = [inst EXCEPT ![m].key = IF @ = 0 THEN m ELSE @]
               /\ op' = [op EXCEPT ![o].m = m, ![o].pc = "read", ![o].tries = 0]
       \/ /\ At(o, "read") /\ UNCHANGED inst
          /\ IF Up(op[o].m)
             THEN op' = [op EXCEPT ![o].todo = op[o].ss, ![o].pc = "keys"]
             ELSE Exit(o)
       \/ /\ At(o, "keys") /\ op[o].todo # {}
          /\ \E s \in op[o].todo : Up(s)
               /\ inst' = [inst EXCEPT ![s].key = inst[op[o].m].key]
               /\ op' = [op EXCEPT ![o].todo = @ \ {s}, ![o].tries = 0]
       \/ At(o, "keys") /\ op[o].todo = {} /\ Goto(o, "clone") /\ UNCHANGED inst
    /\ UNCHANGED <<next, groups, rules, conf, rest>>

DeployFiles(o) ==
    /\ \/ /\ At(o, "clone") /\ UNCHANGED conf
          /\ \E m \in op[o].ms : Up(m) /\ op[o].m \in {0, m}
               /\ op' = [op EXCEPT ![o].m = m, ![o].pc = "rsync", ![o].tries = 0]
       \/ /\ At(o, "rsync")
          /\ IF Up(op[o].m)
             THEN conf' = [conf EXCEPT ![op[o].m] = op[o].ss] /\ Goto(o, "run")
             ELSE Exit(o) /\ UNCHANGED conf
       \/ /\ At(o, "run") /\ Up(op[o].m) /\ UNCHANGED conf
          /\ op' = [op EXCEPT ![o].pc = "done", ![o].tries = 0]
    /\ UNCHANGED <<inst, next, groups, rules, rest>>

(* ssh and ssh_write: a failed attempt is tried again until tries > 5.     *)
GiveUp(o) == Exit(o)
TriesSpent(tries) == tries > 5
SshFails(o) ==
    /\ \/ op[o].pc \in {"key", "clone", "run"}
       \/ At(o, "keys") /\ op[o].todo # {}
    /\ IF TriesSpent(op[o].tries) THEN GiveUp(o)
       ELSE op' = [op EXCEPT ![o].tries = @ + 1]
    /\ UNCHANGED <<cloud, rest>>

(* Any other call raises, or Ctrl-C: the process is gone.  Spot requests   *)
(* made before the polling loop's try are not cancelled, nor those whose   *)
(* cancelling itself fails or is interrupted.                              *)
Interrupt(o) ==
    /\ op[o].pc \notin {"idle", "done", "spot"}
    /\ interrupts < MaxInterrupts
    /\ interrupts' = interrupts + 1
    /\ orphans' = orphans \cup
                     (IF At(o, "cancel") \/ (At(o, "slaves") /\ op[o].spot)
                      THEN op[o].ss ELSE {})
    /\ Exit(o)
    /\ UNCHANGED <<cloud, given>>

(* EC2 on its own: requests granted, instances that start, fail, stop and  *)
(* go, spot instances taken back.                                          *)
Cloud(i) ==
    /\ \/ inst[i].state = "open" /\ SetState(i, "pending")
       \/ inst[i].state = "running" /\ inst[i].spot /\ SetState(i, "shutting-down")
       \/ inst[i].state = "pending" /\ \E s \in {"running", "terminated"} : SetState(i, s)
       \/ inst[i].state = "stopping" /\ SetState(i, "stopped")
       \/ inst[i].state = "shutting-down" /\ SetState(i, "terminated")
    /\ UNCHANGED <<next, groups, rules, conf, op, rest>>

Step(o) == \/ Find(o) \/ GetOrMakeGroup(o) \/ Authorize(o) \/ CheckExisting(o)
           \/ LaunchSlaves(o) \/ SpotGranted(o) \/ SpotCancel(o) \/ LaunchMaster(o)
           \/ ForEach(o) \/ Revoke(o) \/ DeleteGroups(o) \/ WaitForCluster(o)
           \/ SetupKey(o) \/ DeployFiles(o) \/ SshFails(o)

Next == \/ \E o \in Operators : Begin(o) \/ Step(o) \/ SpotRaises(o) \/ Interrupt(o)
        \/ \E i \in Ids : Cloud(i)

Spec == Init /\ [][Next]_vars

-----------------------------------------------------------------------------
(* launch_cluster's comment: it fails if there are already instances in    *)
(* the cluster's groups.  So no slave is added next to another's.          *)
LaunchFailsIfRunning ==
    [][\A o \in Operators :
         At(o, "slaves") /\ op'[o].ss # op[o].ss =>
             GetExistingCluster("slaves") \subseteq op[o].ss]_vars

(* launch_cluster's comment: the groups are set up before instances are    *)
(* started in them.                                                        *)
GroupsSetUp ==
    \A o \in Operators : op[o].pc \in {"slaves", "spot", "master", "wait"}
                         /\ op[o].cmd = "launch" =>
        \A r \in Roles : rules[r] = 1..NumRules

(* The comment of ssh: a command is retried up to five times.              *)
AtMostFiveRetries == \A o \in Operators : op[o].tries <= 5

(* Calls return and EC2 finishes what it started (a request may stay open  *)
(* for ever).                                                              *)
Settles(i) == inst[i].state \notin {"open", "running"} /\ Cloud(i)
FairSpec == /\ Spec
            /\ \A o \in Operators : WF_vars(Step(o))
            /\ \A i \in Ids : WF_vars(Settles(i))

(* Every command ends, or waits for spot instances to be granted.          *)
CommandEnds ==
    \A o \in Operators :
        op[o].pc \notin {"idle", "done"} ~> op[o].pc \in {"idle", "done", "spot"}
=============================================================================
