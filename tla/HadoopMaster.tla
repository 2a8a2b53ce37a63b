---------------------------- MODULE HadoopMaster ----------------------------
(***************************************************************************)
(* The Hadoop master of the cluster: the Puppet catalog of hdfs-master.pp  *)
(* (classes cdh4::hadoop, namenode, namenode::primary, resourcemanager and *)
(* historyserver, or jobtracker), applied by startHdfsMaster, and the      *)
(* Fabric task stopHdfsMaster.  Puppet is external: it evaluates the       *)
(* resources in any order that respects `require`, skips what depends on a *)
(* failure, and may be interrupted at any point and applied again.         *)
(***************************************************************************)
EXTENDS Naturals, Sequences

CONSTANTS Profiles, \* configurations: cdh4::hadoop::use_yarn and ha_enabled
          MaxFaults \* bound on failed commands, interruptions, dead services,
                    \* for each of them

ASSUME MasterAssumption ==
    /\ Profiles \subseteq [yarn : BOOLEAN, ha : BOOLEAN]
    /\ MaxFaults \in [Profiles -> Nat]

P(x) == <<"package", x>>
F(x) == <<"file", x>>
E(x) == <<"exec", x>>
S(x) == <<"service", x>>
D(x) == <<"directory", x>>
-----------------------------------------------------------------------------
(* The catalog: <<r, q>> when resource r requires resource q.              *)
HadoopEdges == {<<F("conf"), P("hadoop-client")>>}

NamenodeEdges ==
    {<<P("namenode"), F("conf")>>,
     <<F("hosts.exclude"), P("namenode")>>, <<F("name"), P("namenode")>>,
     <<E("format"), F("name")>>,
     <<S("namenode"), F("hosts.exclude")>>, <<S("namenode"), E("format")>>}

(* The class's default require for HDFS directories.                       *)
DirDefault(ha) == IF ha THEN E("transition") ELSE S("namenode")

PrimaryEdgesFlat(ha) ==  \* mutant: /var/log without its require
    {<<D("/tmp"), DirDefault(ha)>>, <<D("/user"), DirDefault(ha)>>,
     <<D("/user/hdfs"), D("/user")>>, <<D("/var"), DirDefault(ha)>>,
     <<D("/var/lib"), D("/var")>>, <<D("/var/log"), DirDefault(ha)>>}
PrimaryEdges(ha) ==
    {<<D("/tmp"), DirDefault(ha)>>, <<D("/user"), DirDefault(ha)>>,
     <<D("/user/hdfs"), D("/user")>>, <<D("/var"), DirDefault(ha)>>,
     <<D("/var/lib"), D("/var")>>, <<D("/var/log"), D("/var")>>}
    \cup IF ha THEN {<<E("transition"), S("namenode")>>,
                     <<E("transition"), E("format")>>} ELSE {}

ResourcemanagerEdgesLoose ==  \* mutant: the package does not require the directory
    {<<D("/var/log/hadoop-yarn"), S("namenode")>>,
     <<D("/var/log/hadoop-yarn"), D("/var/log")>>,
     <<P("resourcemanager"), S("namenode")>>,
     <<S("resourcemanager"), P("resourcemanager")>>}
ResourcemanagerEdges ==
    {<<D("/var/log/hadoop-yarn"), S("namenode")>>,
     <<D("/var/log/hadoop-yarn"), D("/var/log")>>,
     <<P("resourcemanager"), D("/var/log/hadoop-yarn")>>,
     <<S("resourcemanager"), P("resourcemanager")>>}

HistoryserverEdges ==
    {<<D("/user/history"), S("namenode")>>, <<D("/user/history"), D("/user")>>,
     <<P("historyserver"), D("/user/history")>>,
     <<S("historyserver"), P("historyserver")>>}

(* /var/lib/hadoop-hdfs and its cache/mapred/mapred/staging chain stand as *)
(* two directories for the six of the manifest.                            *)
MapredDirs == {"/tmp/mapred", "/tmp/mapred/system", "/var/lib/hadoop-hdfs",
               "/var/lib/hadoop-hdfs/staging"}

JobtrackerEdges ==
    {<<D("/tmp/mapred"), D("/tmp")>>,
     <<D("/tmp/mapred/system"), D("/tmp/mapred")>>,
     <<D("/var/lib/hadoop-hdfs"), D("/var/lib")>>,
     <<D("/var/lib/hadoop-hdfs/staging"), D("/var/lib/hadoop-hdfs")>>,
     <<S("jobtracker"), P("jobtracker")>>}
    \cup {<<P("jobtracker"), D(d)>> : d \in MapredDirs}

Catalog ==
    [c \in Profiles |->
        HadoopEdges \cup NamenodeEdges \cup PrimaryEdges(c.ha) \cup
        IF c.yarn THEN ResourcemanagerEdges \cup HistoryserverEdges
                  ELSE JobtrackerEdges]
Declared ==
    [c \in Profiles |-> {e[1] : e \in Catalog[c]} \cup {e[2] : e \in Catalog[c]}]

(* The HDFS tree: mkdir needs the parent.                                  *)
Parent ==
    {<<"/user/hdfs", "/user">>, <<"/user/history", "/user">>,
     <<"/var/lib", "/var">>, <<"/var/log", "/var">>,
     <<"/var/log/hadoop-yarn", "/var/log">>,
     <<"/tmp/mapred", "/tmp">>, <<"/tmp/mapred/system", "/tmp/mapred">>,
     <<"/var/lib/hadoop-hdfs", "/var/lib">>,
     <<"/var/lib/hadoop-hdfs/staging", "/var/lib/hadoop-hdfs">>}

StopOrder ==
    <<"namenode", "jobtracker", "historyserver", "nodemanager", "resourcemanager">>
-----------------------------------------------------------------------------
VARIABLES conf,      \* the configuration in Hiera, which does not change
          present,   \* packages installed, files and HDFS directories there,
                     \* NameNode formatted, services running
          owned,     \* HDFS directories with their owner and mode
          active,    \* HA: the NameNode is active, not standby
          phase,     \* what the operator runs on the host
          status,    \* the resources of the current or last Puppet run
          formatted, \* this run has executed hadoop-namenode-format
          clean,     \* nothing was disturbed since this run began
          stopAt,    \* stopHdfsMaster: position in StopOrder
          faults

vars == <<conf, present, owned, active, phase, status, formatted, clean, stopAt, faults>>
host == <<conf, present, owned, active>>
run  == <<status, formatted, clean>>

Edges     == Catalog[conf]
Resources == Declared[conf]
Kind(k)   == {r \in Resources : r[1] = k}

TypeOK ==
    /\ conf \in Profiles
    /\ present \subseteq Resources
    /\ owned \subseteq present \cap Kind("directory")
    /\ active \in BOOLEAN
    /\ phase \in {"idle", "apply", "stop"}
    /\ status \in [Resources -> {"todo", "ok", "failed", "skipped"}]
    /\ formatted \in BOOLEAN /\ clean \in BOOLEAN
    /\ stopAt \in 1 .. Len(StopOrder)
    /\ faults \in 0 .. MaxFaults[conf]

Init ==
    /\ conf \in Profiles
    /\ present = {} /\ owned = {} /\ active = FALSE
    /\ phase = "idle"
    /\ status = [r \in Resources |-> "skipped"]
    /\ formatted = FALSE /\ clean = FALSE
    /\ stopAt = 1 /\ faults = 0

Fault == faults < MaxFaults[conf] /\ faults' = faults + 1
-----------------------------------------------------------------------------
(* HDFS answers clients: running and, with HA, active.                     *)
Serving == S("namenode") \in present /\ (conf.ha => active)

(* `creates`, `unless hadoop fs -test -e` (which also fails without a      *)
(* NameNode), `refreshonly`, and the state of packages, files, services.   *)
InSyncNoCreates(r) ==  \* mutant: format without `creates`
    CASE r[1] = "directory"   -> r \in present /\ Serving
      [] r = E("transition")  -> ~formatted \/ active
      [] r = E("format")      -> FALSE
      [] OTHER                -> r \in present
InSync(r) ==
    CASE r[1] = "directory"   -> r \in present /\ Serving
      [] r = E("transition")  -> ~formatted \/ active
      [] OTHER                -> r \in present

(* What the command of a resource needs to succeed.                        *)
Works(r) ==
    /\ r[1] = "directory" =>
          /\ Serving /\ r \notin present
          /\ \A p \in Parent : p[1] = r[2] => D(p[2]) \in present
    /\ r[1] = "service" => P(r[2]) \in present
    /\ r = S("namenode") => E("format") \in present
    /\ r = E("format") => F("name") \in present
    /\ r = E("transition") => S("namenode") \in present

Ready(r) ==
    /\ phase = "apply" /\ status[r] = "todo"
    /\ \A e \in Edges : e[1] = r => status[e[2]] # "todo"

Blocked(r) == \E e \in Edges : e[1] = r /\ status[e[2]] \in {"failed", "skipped"}

Report(r, st) == status' = [status EXCEPT ![r] = st]

(* puppet apply of startHdfsMaster.                                        *)
puppetApply ==
    /\ phase = "idle"
    /\ phase' = "apply"
    /\ status' = [r \in Resources |-> "todo"]
    /\ formatted' = FALSE /\ clean' = TRUE
    /\ UNCHANGED <<host, stopAt, faults>>

skip(r) ==
    /\ Ready(r) /\ Blocked(r)
    /\ Report(r, "skipped")
    /\ UNCHANGED <<host, phase, formatted, clean, stopAt, faults>>

noop(r) ==
    /\ Ready(r) /\ ~Blocked(r) /\ InSync(r)
    /\ Report(r, "ok")
    /\ UNCHANGED <<host, phase, formatted, clean, stopAt, faults>>

(* A formatted NameNode has an empty file system.                          *)
apply(r) ==
    LET kept == IF r = E("format") THEN present \ Kind("directory") ELSE present IN
    /\ Ready(r) /\ ~Blocked(r) /\ ~InSync(r) /\ Works(r)
    /\ Report(r, "ok")
    /\ present' = IF r = E("transition") THEN present ELSE kept \cup {r}
    /\ owned' = IF r[1] = "directory" THEN owned \cup {r} ELSE owned \cap kept
    /\ active' = (active \/ r = E("transition"))
    /\ formatted' = (formatted \/ r = E("format"))
    /\ UNCHANGED <<conf, phase, clean, stopAt, faults>>

(* The command cannot work.                                                *)
fail(r) ==
    /\ Ready(r) /\ ~Blocked(r) /\ ~InSync(r) /\ ~Works(r)
    /\ Report(r, "failed")
    /\ UNCHANGED <<host, phase, formatted, clean, stopAt, faults>>

(* What `mkdir && chmod && chown` may leave of directory r when it fails.  *)
HalfMade(r)   == {<<present, owned>>, <<present \cup {r}, owned>>}

(* The command fails although it could work.                               *)
disturbed(r) ==
    /\ Ready(r) /\ ~Blocked(r) /\ ~InSync(r) /\ Works(r)
    /\ Fault /\ clean' = FALSE
    /\ Report(r, "failed")
    /\ \E left \in IF r[1] = "directory" THEN HalfMade(r) ELSE {<<present, owned>>} :
          present' = left[1] /\ owned' = left[2]
    /\ UNCHANGED <<conf, active, phase, formatted, stopAt>>

Evaluate(r) == skip(r) \/ noop(r) \/ apply(r) \/ fail(r)

Ended == \A r \in Resources : status[r] # "todo"

finish ==
    /\ phase = "apply" /\ Ended
    /\ phase' = "idle"
    /\ UNCHANGED <<host, run, stopAt, faults>>

(* The connection is lost or Ctrl-C: the rest of the catalog is not run.   *)
interrupt ==
    /\ phase = "apply" /\ Fault
    /\ phase' = "idle" /\ clean' = FALSE
    /\ UNCHANGED <<host, status, formatted, stopAt>>

(* A daemon dies; a NameNode comes back as standby.                        *)
serviceDies(x) ==
    /\ S(x) \in present /\ Fault
    /\ present' = present \ {S(x)}
    /\ active' = (active /\ x # "namenode")
    /\ clean' = FALSE
    /\ UNCHANGED <<conf, owned, phase, status, formatted, stopAt>>
-----------------------------------------------------------------------------
(* stopHdfsMaster: `service ... stop` one by one, without warn_only: a     *)
(* service that is not installed ends the task.  The NodeManager comes     *)
(* with the worker catalog, the master being one of the workers.           *)
Installed(x) == P(x) \in present \/ (x = "nodemanager" /\ conf.yarn)

stopBegin ==
    /\ phase = "idle"
    /\ phase' = "stop" /\ stopAt' = 1
    /\ UNCHANGED <<host, run, faults>>

stopNext ==
    LET x == StopOrder[stopAt] IN
    /\ phase = "stop" /\ Installed(x)
    /\ present' = present \ {S(x)}
    /\ active' = (active /\ x # "namenode")
    /\ clean' = FALSE
    /\ IF stopAt = Len(StopOrder) THEN phase' = "idle" /\ stopAt' = 1
                                  ELSE stopAt' = stopAt + 1 /\ UNCHANGED phase
    /\ UNCHANGED <<conf, owned, status, formatted, faults>>

stopAbort ==
    /\ phase = "stop" /\ ~Installed(StopOrder[stopAt])
    /\ phase' = "idle" /\ stopAt' = 1
    /\ UNCHANGED <<host, run, faults>>
-----------------------------------------------------------------------------
Next ==
    \/ puppetApply \/ finish \/ interrupt \/ stopBegin \/ stopNext \/ stopAbort
    \/ \E r \in Resources : Evaluate(r) \/ disturbed(r)
    \/ \E r \in Kind("service") : serviceDies(r[2])

Spec == Init /\ [][Next]_vars
-----------------------------------------------------------------------------
(* Whatever earlier runs left behind (interrupted anywhere, directories    *)
(* half made, services dead or stopped), one undisturbed run of the        *)
(* catalog, in any order its requires admit, succeeds and leaves every     *)
(* service running.  With HA this needs an active NameNode, which not      *)
(* every run sees to (ActiveBeforeDirs).                                   *)
CleanRunSucceeds ==
    phase = "apply" /\ Ended /\ clean /\ (conf.ha => active) =>
       /\ \A r \in Resources : status[r] = "ok"
       /\ Kind("service") \subseteq present

(* resourcemanager.pp, historyserver.pp, jobtracker.pp: "Make sure HDFS    *)
(* directories are created before ... is installed and started".           *)
ServicesAfterDirs ==
    /\ S("resourcemanager") \in present => D("/var/log/hadoop-yarn") \in present
    /\ S("historyserver") \in present => D("/user/history") \in present
    /\ S("jobtracker") \in present => \A d \in MapredDirs : D(d) \in present

(* No run, however often repeated after failures, formats a NameNode that  *)
(* holds data.                                                             *)
HdfsNeverWiped ==
    [][\A r \in present : r[1] = "directory" => r \in present']_vars

(* README.md: "To stop HDFS: spark-init stopHdfsWorkers stopHdfsMaster":   *)
(* nothing that startHdfsMaster started keeps running.  True of MRv1 only, *)
(* where the task is cut short at the HistoryServer, the last of its own.  *)
StopLeavesNothing ==
    [][phase = "stop" /\ phase' = "idle" =>
          {r \in present' : r[1] = "service"} = {}]_vars

(* primary.pp: "Make sure NameNode is running and active before we try to  *)
(* create common HDFS directories": with HA, in a run that is not          *)
(* disturbed, a directory that was attempted found an active NameNode.     *)
ActiveBeforeDirs ==
    conf.ha /\ phase = "apply" /\ clean =>
       \A r \in Kind("directory") : status[r] \in {"ok", "failed"} => active

(* directory.pp: "If it does not exist, the directory will be created and  *)
(* given specified ownership and permissions."  After a run that reports   *)
(* success the directories have them.                                      *)
DirectoriesOwned ==
    phase = "apply" /\ (\A r \in Resources : status[r] = "ok") =>
       Kind("directory") \subseteq owned
=============================================================================
