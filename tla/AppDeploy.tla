----------------------------- MODULE AppDeploy -----------------------------
(***************************************************************************)
(* Application deployment (application-deployment-fabfile.py): operators   *)
(* type invocations of the Fabric tasks assembly, sync, start, kill and    *)
(* getOutput in one application directory.  The directory keeps the fat    *)
(* JAR, the record lastJobStarted.pickle and the fetched output files; the *)
(* servers keep a copy of the JAR; the Spark Master (external) runs the    *)
(* submitted drivers.                                                      *)
(*                                                                         *)
(* An invocation is a sequence of tasks of which a failing one cancels the *)
(* rest: `fab t1 t2` and `ss t1 && ss t2` alike.  JARs are their build     *)
(* numbers, 0 being no JAR.                                                *)
(***************************************************************************)
EXTENDS Naturals, Sequences

CONSTANTS Shells,      \* the operators' shells, all in the same directory
          Invocations, \* [Shells -> sets of task sequences] they may type
          Servers,     \* the hosts of the cluster
          All,         \* config['all']: the hosts in the order of the file
          DriverIds,   \* the ids the Spark Master hands out
          None,        \* no driver, no server, no file
          Truncated,   \* lastJobStarted.pickle opened for writing, no content
          MaxJar       \* bound on the number of successful builds

Tasks == {"assembly", "sync", "start", "kill", "getOutput"}

Record == [driverId : DriverIds, driverServer : Servers]

ASSUME AppAssumption ==
    /\ All \in Seq(Servers) /\ All # <<>>
    /\ \A v \in Servers : \E i \in DOMAIN All : All[i] = v
    /\ Invocations \in [Shells -> SUBSET Seq(Tasks)]
    /\ None \notin Servers \cup DriverIds
    /\ {None, Truncated} \cap Record = {}
    /\ MaxJar \in Nat

VARIABLES localJar,  \* build number of local_jar_dir/jar
          remoteJar, \* [Servers -> build number] of remote_jar_dir/jar
          pickle,    \* lastJobStarted.pickle
          output,    \* the drivers that stdout.txt and stderr.txt come from
          drivers,   \* the Spark Master's view of each driver
          shell      \* the invocation each shell runs

appVars  == <<localJar, remoteJar, pickle, output>>
vars     == <<localJar, remoteJar, pickle, output, drivers, shell>>
-----------------------------------------------------------------------------
DriverStates == {"UNKNOWN", "SUBMITTED", "RUNNING", "FINISHED", "FAILED",
                 "KILLED", "ERROR"}

(* jar is the build a driver really runs (0 until its worker copies it);   *)
(* floor is the build that its start could count on (see Shell).           *)
Driver == [state : DriverStates, server : Servers \cup {None},
           jar : Nat, floor : Nat]

(* pc is where the current task stands ("task" before its first effect), i *)
(* the position in sync's loop, jar the build its rsync has opened, id and *)
(* server the driver that the task is about.  floor is auxiliary: the      *)
(* oldest build that the invocation's own sync lets it count on: the one   *)
(* its loop began with, or 1 (any build) when an rsync of another shell    *)
(* was still carrying an older JAR to a server where its own had ended.    *)
Shell == [pc : {"idle", "task", "rsync", "submitted", "open", "dump", "stderr"},
          tasks : Seq(Tasks), i : Nat, jar : Nat, floor : Nat,
          id : DriverIds \cup {None}, server : Servers \cup {None}]

TypeOK ==
    /\ localJar \in Nat
    /\ remoteJar \in [Servers -> Nat]
    /\ pickle \in Record \cup {None, Truncated}
    /\ output \in [{"stdout", "stderr"} -> DriverIds \cup {None}]
    /\ drivers \in [DriverIds -> Driver]
    /\ shell \in [Shells -> Shell]

NoDriver == [state |-> "UNKNOWN", server |-> None, jar |-> 0, floor |-> 0]

Idle == [pc |-> "idle", tasks |-> <<>>, i |-> 1, jar |-> 0, floor |-> 0,
         id |-> None, server |-> None]

Init ==
    /\ localJar = 0
    /\ remoteJar = [v \in Servers |-> 0]
    /\ pickle = None
    /\ output = [f \in {"stdout", "stderr"} |-> None]
    /\ drivers = [d \in DriverIds |-> NoDriver]
    /\ shell = [s \in Shells |-> Idle]
-----------------------------------------------------------------------------
(* Fabric: the next task runs only if the one before it did not abort.     *)
At(s, task, pc) == /\ shell[s].tasks # <<>>
                   /\ Head(shell[s].tasks) = task
                   /\ shell[s].pc = pc

Done(r) == IF Tail(r.tasks) = <<>> THEN Idle
           ELSE [Idle EXCEPT !.pc = "task", !.tasks = Tail(r.tasks),
                             !.floor = r.floor]

Goto(s, r) == shell' = [shell EXCEPT ![s] = r]

(* An exception, a nonzero exit status of local() or sudo(), or Ctrl-C: at *)
(* any point of a task the invocation may end with only its earlier        *)
(* effects.  This covers the uncaught errors of start (a status line that  *)
(* the regular expression does not match), of kill (no record: m is        *)
(* unbound) and of getOutput (no record, or a driverId without a server).  *)
abort(s) ==
    /\ shell[s].pc # "idle"
    /\ Goto(s, Idle)
    /\ UNCHANGED <<appVars, drivers>>

Invoke(s) ==
    /\ shell[s].pc = "idle"
    /\ \E inv \in Invocations[s] :
          /\ inv # <<>>
          /\ Goto(s, [Idle EXCEPT !.pc = "task", !.tasks = inv])
    /\ UNCHANGED <<appVars, drivers>>

(* A failed build leaves the previous JAR where it is: that is abort.      *)
assembly(s) ==
    /\ At(s, "assembly", "task")
    /\ localJar < MaxJar
    /\ localJar' = localJar + 1
    /\ Goto(s, Done(shell[s]))
    /\ UNCHANGED <<remoteJar, pickle, output, drivers>>

(* sync is over when its loop has reached the last host of config['all'].  *)
SyncedAllButOne(i) == i + 1 = Len(All)  \* mutant: the loop ends one host early
SyncedAll(i)       == i = Len(All)

(* One rsync of sync's loop opens the JAR that the directory holds now ... *)
sync(s) ==
    LET r == shell[s] IN
    /\ At(s, "sync", "task")
    /\ localJar # 0
    /\ r.i \in DOMAIN All
    /\ Goto(s, [r EXCEPT !.pc = "rsync", !.jar = localJar,
                         !.floor = IF r.i = 1 THEN localJar ELSE r.floor])
    /\ UNCHANGED <<appVars, drivers>>

(* A JAR older than floor is on its way to the server through another      *)
(* shell, and may land there later.                                        *)
OlderUnderWay(s, server, floor) ==
    \E t \in Shells \ {s} :
       /\ shell[t].pc = "rsync"
       /\ All[shell[t].i] = server
       /\ shell[t].jar < floor

(* ... and renames its copy to the JAR's name when all of it has arrived,  *)
(* whatever was built or synchronised in the meantime.                     *)
syncRename(s) ==
    LET r      == shell[s]
        server == All[r.i]
        floor  == IF OlderUnderWay(s, server, r.floor) THEN 1 ELSE r.floor
        n      == [r EXCEPT !.pc = "task", !.jar = 0, !.floor = floor]
    IN  /\ At(s, "sync", "rsync")
        /\ remoteJar' = [remoteJar EXCEPT ![server] = r.jar]
        /\ Goto(s, IF SyncedAll(r.i) THEN Done(n) ELSE [n EXCEPT !.i = r.i + 1])
        /\ UNCHANGED <<localJar, pickle, output, drivers>>

(* start: spark-submit registers the driver with the Spark Master ...      *)
start(s) ==
    /\ At(s, "start", "task")
    /\ \E d \in DriverIds :
          /\ drivers[d].state = "UNKNOWN"
          /\ drivers' = [drivers EXCEPT ![d].state = "SUBMITTED",
                                        ![d].floor = shell[s].floor]
          /\ Goto(s, [shell[s] EXCEPT !.pc = "submitted", !.id = d])
    /\ UNCHANGED appVars

RecordedUnlessError(state) == state # "ERROR"  \* mutant: else-branch records
Recorded(state)            == state = "RUNNING"

(* Where the Master says the driver is running.                            *)
TaskHost(d)     == All[1]  \* mutant: the host the task runs on
DriverServer(d) == d.server

(* ... then prints the state the Master reports.  Only RUNNING leads to a  *)
(* record; ERROR and every other status just end the task.                 *)
startStatus(s) ==
    LET r == shell[s]
        d == drivers[r.id]
    IN  /\ At(s, "start", "submitted")
        /\ Goto(s, IF Recorded(d.state)
                     THEN [r EXCEPT !.pc = "open", !.server = DriverServer(d)]
                     ELSE Done(r))
        /\ UNCHANGED <<appVars, drivers>>

(* open(..., 'wb') empties the file, dump and close fill it.               *)
startOpen(s) ==
    /\ At(s, "start", "open")
    /\ pickle' = Truncated
    /\ Goto(s, [shell[s] EXCEPT !.pc = "dump"])
    /\ UNCHANGED <<localJar, remoteJar, output, drivers>>

startDump(s) ==
    LET r == shell[s] IN
    /\ At(s, "start", "dump")
    /\ pickle' = [driverId |-> r.id, driverServer |-> r.server]
    /\ Goto(s, Done(r))
    /\ UNCHANGED <<localJar, remoteJar, output, drivers>>

(* The driver a task is about: the arguments given, else the record.       *)
Subject(id, server) ==
    \/ pickle \in Record /\ id = pickle.driverId /\ server = pickle.driverServer
    \/ drivers[id].state # "UNKNOWN" /\ server \in Servers

Alive(d) == drivers[d].state \in {"SUBMITTED", "RUNNING"}

kill(s) ==
    /\ At(s, "kill", "task")
    /\ \E d \in DriverIds, v \in Servers :
          /\ Subject(d, v)
          /\ drivers' = IF Alive(d)
                          THEN [drivers EXCEPT ![d].state = "KILLED"]
                          ELSE drivers
          /\ Goto(s, Done(shell[s]))
    /\ UNCHANGED appVars

(* scp finds a driver's files only on the server that launched it.         *)
getOutput(s) ==
    /\ At(s, "getOutput", "task")
    /\ \E d \in DriverIds, v \in Servers :
          /\ Subject(d, v)
          /\ drivers[d].server = v
          /\ output' = [output EXCEPT !["stdout"] = d]
          /\ Goto(s, [shell[s] EXCEPT !.pc = "stderr", !.id = d, !.server = v])
    /\ UNCHANGED <<localJar, remoteJar, pickle, drivers>>

(* The record is read once, for both files.                                *)
StderrReread(s) ==  \* mutant: the record is read again
    IF pickle \in Record THEN pickle.driverId ELSE shell[s].id
StderrOf(s) == shell[s].id

getOutputStderr(s) ==
    /\ At(s, "getOutput", "stderr")
    /\ output' = [output EXCEPT !["stderr"] = StderrOf(s)]
    /\ Goto(s, Done(shell[s]))
    /\ UNCHANGED <<localJar, remoteJar, pickle, drivers>>
-----------------------------------------------------------------------------
(* The Spark Master and its Workers (external).  A Worker copies the JAR   *)
(* from its own disk some time after the Master chose it.                  *)
MasterLaunch(d) ==
    /\ drivers[d].state = "SUBMITTED"
    /\ \E v \in Servers :
          drivers' = [drivers EXCEPT ![d].state = "RUNNING", ![d].server = v]
    /\ UNCHANGED <<appVars, shell>>

WorkerCopyJar(d) ==
    LET jar == remoteJar[drivers[d].server] IN
    /\ drivers[d].state = "RUNNING" /\ drivers[d].jar = 0
    /\ drivers' = [drivers EXCEPT ![d].jar = jar,
                                  ![d].state = IF jar = 0 THEN "ERROR" ELSE @]
    /\ UNCHANGED <<appVars, shell>>

DriverEnd(d) ==
    /\ drivers[d].state = "RUNNING" /\ drivers[d].jar # 0
    /\ \E st \in {"FINISHED", "FAILED", "ERROR"} :
          drivers' = [drivers EXCEPT ![d].state = st]
    /\ UNCHANGED <<appVars, shell>>
-----------------------------------------------------------------------------
TaskStep(s) ==
    \/ assembly(s) \/ sync(s) \/ syncRename(s) \/ start(s) \/ startStatus(s)
    \/ startOpen(s) \/ startDump(s) \/ kill(s) \/ getOutput(s) \/ getOutputStderr(s)
    \/ abort(s)

Next ==
    \/ \E s \in Shells : Invoke(s) \/ TaskStep(s)
    \/ \E d \in DriverIds : MasterLaunch(d) \/ WorkerCopyJar(d) \/ DriverEnd(d)

Spec == Init /\ [][Next]_vars
-----------------------------------------------------------------------------
(* A Worker that has looked for the JAR: it found one, or the launch is an *)
(* error.                                                                  *)
Launched(d) == drivers[d].jar # 0 \/ drivers[d].state = "ERROR"

(* A launch never finds code older than the JAR that its own invocation    *)
(* had synchronised before start, whatever builds and syncs other shells   *)
(* run and however late and on whichever server the Master places the      *)
(* driver: the one way to run older code is an rsync of another shell that *)
(* had opened its JAR before and was still under way when this one's ended *)
(* on that server.  Even then a launch after a sync finds a JAR.           *)
NoStaleLaunch ==
    \A d \in DriverIds : Launched(d) => drivers[d].floor <= drivers[d].jar

(* lastJobStarted.pickle pairs a driver with the server that launched it,  *)
(* so kill and getOutput look for it where it is, also while several       *)
(* shells write the file and while drivers change state after the status   *)
(* line was printed.                                                       *)
RecordNamesItsServer ==
    pickle \in Record => drivers[pickle.driverId].server = pickle.driverServer

(* One shell fetches output (two at once write each other's files).        *)
Fetches(s) == \E inv \in Invocations[s] : \E k \in 1..Len(inv) : inv[k] = "getOutput"
OneFetcher == \A s, t \in Shells : Fetches(s) /\ Fetches(t) => s = t

(* getOutput that ends well leaves stdout.txt and stderr.txt of one        *)
(* driver, though the record may be rewritten between the two copies, when *)
(* one shell fetches output.                                               *)
OutputFilesMatch ==
    [][\A s \in Shells :
          getOutputStderr(s) => output'["stdout"] = output'["stderr"]]_vars

(* README.md: after start, "use getOutput to get the driver stdout and     *)
(* stderr".  That needs the record to name the driver just started when    *)
(* start ends and the Master has not answered ERROR.                       *)
StartIsRecorded ==
    [][\A s \in Shells :
          /\ startStatus(s) \/ startDump(s)
          /\ shell'[s].pc # "open" /\ drivers[shell[s].id].state # "ERROR"
          => pickle' \in Record /\ pickle'.driverId = shell[s].id]_vars
=============================================================================
