--------------------------- MODULE ClusterDeploy ---------------------------
(***************************************************************************)
(* initial-deployment-fabfile.py: one operator runs spark-init with the    *)
(* tasks of the README.  Fabric runs the tasks one after the other, a      *)
(* parallel task on all its hosts at once, and aborts the invocation after *)
(* a task that failed on any host.  What Puppet does on the master is the  *)
(* subject of HadoopMaster and SparkService; here a catalog is the set of  *)
(* services it starts, and any of them may fail to start.                  *)
(***************************************************************************)
EXTENDS Naturals, Sequences

CONSTANTS Hosts,        \* config['all'], in the order of the file
          Master,       \* the host of config['master']
          Workers,      \* the hosts of config['workers']
          Yarn,         \* use_yarn of the Hadoop class
          Within(_, _), \* whether the first host name occurs inside the second
          Commands,     \* invocations: sequences of tasks
          MaxRuns,      \* bound: invocations
          MaxFaults     \* bound: lost connections and services that fail

All == {Hosts[i] : i \in 1..Len(Hosts)}
Tasks == {"init", "startSparkMaster", "startSparkWorkers", "startHdfsMaster",
          "startHdfsWorkers", "stopSparkMaster", "stopSparkWorkers", "stopHdfsMaster",
          "stopHdfsWorkers"}

ASSUME DeployAssumption ==
    /\ Hosts \in Seq(All) /\ Master \in All /\ Workers \subseteq All /\ Yarn \in BOOLEAN
    /\ Commands \subseteq Seq(Tasks) \ {<<>>} /\ MaxRuns \in Nat /\ MaxFaults \in Nat

(* No host name occurs inside another one; a hypothesis of a theorem.      *)
NamesApart == \A s, e \in All : Within(s, e) <=> s = e

VARIABLES
    cmd,       \* the tasks of the invocation not yet finished, the current first
    todo,      \* todo[h]: the rest of the current task on host h
    failed,    \* a host failed in the current task
    outcome,   \* of the last invocation
    last,      \* the last invocation
    clean,     \* it has met no fault so far
    tools,     \* tools[h]: make, puppet and the JDK are installed
    raid,      \* raid[h]: /raid/hadoop exists
    dotted,    \* dotted[h]: .dotfiles is missing, a whole clone or half of one
    entries,   \* entries[h][s]: entries for host s in .ssh/config
    installed, \* installed[h]: packages of services
    running,   \* running[h]: services
    broken,    \* broken[h]: services whose HDFS directories are half made
    runs, faults

puppetState == <<installed, running, broken>>
initState   == <<tools, raid, dotted, entries>>
server == <<initState, puppetState>>
vars == <<cmd, todo, failed, outcome, last, clean, server, runs, faults>>

-----------------------------------------------------------------------------
WorkerHadoop == {"datanode", IF Yarn THEN "nodemanager" ELSE "tasktracker"}
MasterHadoop == {"namenode"} \cup (IF Yarn THEN {"resourcemanager", "historyserver"}
                                           ELSE {"jobtracker"})
Catalog(m) == CASE m = "hdfs-master"  -> MasterHadoop
                [] m = "hdfs-worker"  -> WorkerHadoop
                [] m = "spark-master" -> {"spark-master"}
                [] m = "spark-worker" -> {"spark-worker"}

(* The tasks: where they run and what they run there.                      *)
MutRoles(t) == IF t = "init" THEN All ELSE IF t = "startHdfsWorkers" THEN Workers ELSE {Master}
Roles(t) == CASE t = "init" -> All
              [] t \in {"startSparkWorkers", "startHdfsWorkers",
                        "stopSparkWorkers", "stopHdfsWorkers"} -> Workers
              [] OTHER -> {Master}

Do(what, arg) == [do |-> what, arg |-> arg]
puppet(m) == <<Do("rsync", m), Do("puppetApply", m)>>
Sudo(services) == [i \in 1..Len(services) |-> Do("stop", services[i])]
initSteps == <<Do("yum", ""), Do("chsh", ""), Do("dotfiles", ""), Do("pull", "")>>
             \o [i \in 1..Len(Hosts) |-> Do("sshConfig", Hosts[i])] \o <<Do("mkdir", "")>>
Steps(t) ==
    CASE t = "init" -> initSteps
      [] t = "startSparkMaster"  -> puppet("spark-master")
      [] t = "startSparkWorkers" -> puppet("spark-worker")
      [] t = "startHdfsMaster"   -> puppet("hdfs-master")
      [] t = "startHdfsWorkers"  -> puppet("hdfs-worker")
      [] t = "stopSparkMaster"   -> <<Do("tryStop", "spark-master")>>
      [] t = "stopSparkWorkers"  -> <<Do("tryStop", "spark-worker")>>
      [] t = "stopHdfsMaster"    -> Sudo(<<"namenode", "jobtracker", "historyserver",
                                           "nodemanager", "resourcemanager">>)
      [] t = "stopHdfsWorkers"   -> Sudo(<<"datanode">>)

Dispatch(t) == [h \in All |-> IF h \in Roles(t) THEN Steps(t) ELSE <<>>]

Init == /\ cmd = <<>> /\ todo = [h \in All |-> <<>>] /\ failed = FALSE
        /\ outcome = "none" /\ last = <<>> /\ clean = TRUE
        /\ tools = [h \in All |-> FALSE] /\ raid = [h \in All |-> FALSE]
        /\ entries = [h \in All |-> [s \in All |-> 0]]
        /\ installed = [h \in All |-> {}] /\ running = [h \in All |-> {}]
        /\ dotted = [h \in All |-> "missing"] /\ broken = [h \in All |-> {}]
        /\ runs = 0 /\ faults = 0

(* Fabric: an invocation, and the end of a task on all its hosts.          *)
invoke == /\ cmd = <<>> /\ runs < MaxRuns /\ runs' = runs + 1
          /\ \E c \in Commands : cmd' = c /\ last' = c /\ todo' = Dispatch(c[1])
          /\ failed' = FALSE /\ outcome' = "running" /\ clean' = TRUE
          /\ UNCHANGED <<server, faults>>

taskEnds == /\ cmd # <<>> /\ \A h \in All : todo[h] = <<>>
            /\ IF failed \/ Len(cmd) = 1
               THEN /\ outcome' = IF failed THEN "aborted" ELSE "done"
                    /\ cmd' = <<>> /\ UNCHANGED todo
               ELSE cmd' = Tail(cmd) /\ todo' = Dispatch(cmd[2]) /\ UNCHANGED outcome
            /\ UNCHANGED <<failed, last, clean, server, runs, faults>>

-----------------------------------------------------------------------------
AtStep(h, what) == todo[h] # <<>> /\ Head(todo[h]).do = what
Ok(h)   == todo' = [todo EXCEPT ![h] = Tail(@)] /\ UNCHANGED <<failed, clean, faults>>
Fail(h) == todo' = [todo EXCEPT ![h] = <<>>] /\ failed' = TRUE /\ UNCHANGED <<clean, faults>>
Fault   == faults < MaxFaults /\ faults' = faults + 1 /\ clean' = FALSE
fabric  == <<cmd, outcome, last, runs>>

(* The connection is lost, or the command fails for a reason of its own.   *)
lost(h) == /\ todo[h] # <<>> /\ Fault
           /\ todo' = [todo EXCEPT ![h] = <<>>] /\ failed' = TRUE
           /\ UNCHANGED <<fabric, server>>

rsync(h) == /\ AtStep(h, "rsync") /\ Ok(h) /\ UNCHANGED <<fabric, server>>

(* A catalog can do its work only under /raid/hadoop, when it is Hadoop's, *)
(* and cannot mend directories of HDFS that are half made: it tests only   *)
(* whether they are there (directory.pp).                                  *)
Possible(h, m) == m \in {"spark-master", "spark-worker"} \/ raid[h]
Started(h, m) == IF Possible(h, m) THEN Catalog(m) \ broken[h] ELSE {}
(* puppet apply exits with 0 whether or not its resources failed.          *)
puppetApply(h) ==
    /\ AtStep(h, "puppetApply")
    /\ LET m == Head(todo[h]).arg IN
       IF ~tools[h] THEN Fail(h) /\ UNCHANGED puppetState
       ELSE /\ Ok(h) /\ UNCHANGED broken
            /\ installed' = [installed EXCEPT ![h] = @ \cup Catalog(m)]
            /\ running' = [running EXCEPT ![h] = @ \cup Started(h, m)]
    /\ UNCHANGED <<fabric, initState>>

(* Some resources fail, or puppet is cut off with the connection.  Of the  *)
(* services left out some have got directories that are half made.         *)
InHdfs(m) == IF m = "hdfs-master" THEN MasterHadoop \ {"namenode"} ELSE {}
resourceFails(h) ==
    /\ AtStep(h, "puppetApply") /\ tools[h] /\ Fault
    /\ LET m == Head(todo[h]).arg IN
       \E up \in SUBSET Started(h, m), half \in SUBSET InHdfs(m) :
         /\ up # Catalog(m) /\ up \cap half = {}
         /\ running' = [running EXCEPT ![h] = @ \cup up]
         /\ broken' = [broken EXCEPT ![h] = @ \cup (half \ running[h])]
         /\ \E got \in {up, Catalog(m)} : installed' = [installed EXCEPT ![h] = @ \cup got]
    /\ \/ todo' = [todo EXCEPT ![h] = Tail(@)] /\ UNCHANGED failed
       \/ todo' = [todo EXCEPT ![h] = <<>>] /\ failed' = TRUE
    /\ UNCHANGED <<fabric, initState>>

(* service stop of a service that is not installed is an error.            *)
stop(h) ==
    /\ AtStep(h, "stop")
    /\ LET s == Head(todo[h]).arg IN
       IF s \in installed[h]
       THEN Ok(h) /\ running' = [running EXCEPT ![h] = @ \ {s}]
       ELSE Fail(h) /\ UNCHANGED running
    /\ UNCHANGED <<fabric, initState, installed, broken>>
tryStop(h) ==
    /\ AtStep(h, "tryStop") /\ Ok(h)
    /\ running' = [running EXCEPT ![h] = @ \ {Head(todo[h]).arg}]
    /\ UNCHANGED <<fabric, initState, installed, broken>>

yum(h) == /\ AtStep(h, "yum") /\ Ok(h) /\ tools' = [tools EXCEPT ![h] = TRUE]
          /\ UNCHANGED <<fabric, raid, dotted, entries, puppetState>>

(* There may be no user amos, or chsh sets his shell, which nothing reads. *)
chsh(h) == AtStep(h, "chsh") /\ (Ok(h) \/ Fail(h)) /\ UNCHANGED <<fabric, server>>

(* Under warn_only a clone that fails is no error; git pull in what it has *)
(* left is one, in this invocation and in the next, which clones only when *)
(* .dotfiles does not exist.                                               *)
Dotted(h, d) == /\ dotted' = [dotted EXCEPT ![h] = IF @ = "missing" THEN d ELSE @]
                /\ UNCHANGED <<fabric, tools, raid, entries, puppetState>>
dotfiles(h) == AtStep(h, "dotfiles") /\ Ok(h) /\ Dotted(h, "whole")
cloneFails(h) ==
    /\ AtStep(h, "dotfiles") /\ dotted[h] = "missing" /\ Fault
    /\ \E d \in {"missing", "half"} : Dotted(h, d)
    /\ \/ todo' = [todo EXCEPT ![h] = Tail(@)] /\ UNCHANGED failed
       \/ todo' = [todo EXCEPT ![h] = <<>>] /\ failed' = TRUE
pull(h) == /\ AtStep(h, "pull") /\ UNCHANGED <<fabric, server>>
           /\ IF dotted[h] = "whole" THEN Ok(h) ELSE Fail(h)

mkdir(h) == /\ AtStep(h, "mkdir") /\ Ok(h) /\ raid' = [raid EXCEPT ![h] = TRUE]
            /\ UNCHANGED <<fabric, tools, dotted, entries, puppetState>>

(* contains looks for the name anywhere in the file.                       *)
MutContained(h, s) == FALSE
Contained(h, s) == \E e \in All : entries[h][e] > 0 /\ Within(s, e)
sshConfig(h) ==
    /\ AtStep(h, "sshConfig") /\ Ok(h)
    /\ LET s == Head(todo[h]).arg IN
       entries' = [entries EXCEPT ![h][s] = IF Contained(h, s) THEN @ ELSE @ + 1]
    /\ UNCHANGED <<fabric, tools, raid, dotted, puppetState>>

Next == \/ invoke \/ taskEnds
        \/ \E h \in All : \/ lost(h) \/ rsync(h) \/ puppetApply(h) \/ resourceFails(h)
                          \/ stop(h) \/ tryStop(h) \/ yum(h) \/ chsh(h) \/ dotfiles(h)
                          \/ cloneFails(h) \/ pull(h) \/ mkdir(h) \/ sshConfig(h)
Spec == Init /\ [][Next]_vars

-----------------------------------------------------------------------------
Start == <<"startHdfsMaster", "startHdfsWorkers", "startSparkMaster", "startSparkWorkers">>
StopHdfs == <<"stopHdfsWorkers", "stopHdfsMaster">>
AllUp == /\ MasterHadoop \cup {"spark-master"} \subseteq running[Master]
         /\ \A h \in Workers : WorkerHadoop \cup {"spark-worker"} \subseteq running[h]

(* However many deployments failed or were cut off before, one that meets  *)
(* no fault brings everything up, once init has prepared the hosts, unless *)
(* one of them left directories in HDFS half made.                         *)
CleanDeployWorks ==
    last = Start /\ clean /\ (\A h \in All : tools[h] /\ raid[h] /\ broken[h] = {}) =>
        outcome # "aborted" /\ (outcome = "done" => AllUp)

(* Repeated and interrupted runs of init leave no host with two entries    *)
(* for a server, and a complete one leaves an entry for every server.      *)
EntriesRight ==
    /\ \A h, s \in All : entries[h][s] <= 1
    /\ last = <<"init">> /\ outcome = "done" => \A h, s \in All : entries[h][s] = 1

(* "If the deployment succeeds, Spark should be started".                  *)
SuccessMeansStarted == last = Start /\ outcome = "done" => AllUp

(* "To stop HDFS": what startHdfsWorkers started on the workers is stopped.*)
WorkersStopped ==
    last = StopHdfs /\ Head(cmd \o <<"stopHdfsMaster">>) = "stopHdfsMaster"
        /\ outcome # "none" /\ clean /\ ~failed =>
        \A h \in Workers : running[h] \cap WorkerHadoop = {}
=============================================================================
