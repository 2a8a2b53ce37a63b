------------------------- MODULE SparkDaemonScript -------------------------
(***************************************************************************)
(* sbin/spark-daemon.sh: starts and stops an instance of a Spark daemon by *)
(* means of a pid file.  Operators run the script at the same time, on the *)
(* same instances, and every command of the script that reads or writes    *)
(* shared state is a step; Ctrl-C or a lost ssh session may end a script   *)
(* between any two of them.  Other programs of the same user may be given  *)
(* the pid of a dead daemon.                                               *)
(* spark_rotate_log, the same function as the runner's, is in SparkService.*)
(***************************************************************************)
EXTENDS SparkDaemons

CONSTANT Reuse           \* whether the system hands out old pids again

None  == "none"
Empty == "empty"     \* the file between its truncation and the echo

VARIABLES
    file,    \* file[i]: contents of the pid file of instance i, a pid, None or Empty
    newpid,  \* newpid[o]: $! of the launch
    spoilt   \* auxiliary: the operators whose start overlaps another start

script == <<pc, instance, newpid>>
aux    == <<stray, due, spoilt>>
vars   == <<file, proc, owner, script, aux>>

Init == /\ file = [i \in Instances |-> None]
        /\ proc = [p \in Pids |-> "free"]
        /\ owner = [p \in Pids |-> CHOOSE i \in Instances : TRUE]
        /\ pc = [o \in Operators |-> "idle"]
        /\ instance = [o \in Operators |-> CHOOSE i \in Instances : TRUE]
        /\ newpid = [o \in Operators |-> None]
        /\ stray = {} /\ due = [o \in Operators |-> {}] /\ spoilt = {}

Goto(o, from, to) == pc[o] = from /\ pc' = [pc EXCEPT ![o] = to]

(* $SPARK_PID_DIR/spark-$SPARK_IDENT_STRING-$command-$instance.pid         *)
FileOf(o) == instance[o]
Exists(p) == p \in Pids /\ proc[p] \in {"daemon", "dying", "other", "hit"}
(* kill -0 `cat $pid`: fails without a file, without a pid, without process *)
MutProbe(o) == FALSE
Probe(o) == Exists(file[FileOf(o)])

-----------------------------------------------------------------------------
start(o) == /\ Goto(o, "idle", "startCheck")
            /\ \E i \in Instances : instance' = [instance EXCEPT ![o] = i]
            /\ UNCHANGED <<file, proc, owner, newpid, aux>>

(* A start that has found no daemon and has not yet recorded its own; the  *)
(* others of the instance that are there too.                              *)
Writing(o)  == pc[o] \in {"truncate", "record"}
Between(o)  == pc[o] = "launch" \/ Writing(o)
Overlaps(o) == {u \in Operators \ {o} : Between(u) /\ instance[u] = instance[o]}

(* "$command running as process ... Stop it first."                        *)
MutAlreadyRuns(o) == FALSE
AlreadyRuns(o) == Probe(o)
startCheck(o) ==
    LET others == Overlaps(o) IN
    /\ Goto(o, "startCheck", IF AlreadyRuns(o) THEN "idle" ELSE "launch")
    /\ IF AlreadyRuns(o) \/ others = {}
         THEN UNCHANGED <<spoilt, stray>>
         ELSE /\ spoilt' = spoilt \cup {o} \cup others
              /\ stray' = stray \cup {newpid[u] : u \in {w \in others : Writing(w)}}
    /\ UNCHANGED <<file, proc, owner, instance, newpid, due>>

launch(o) == /\ Goto(o, "launch", "truncate")
             /\ \E p \in Pids :
                  /\ proc[p] = "free" /\ proc' = [proc EXCEPT ![p] = "daemon"]
                  /\ owner' = [owner EXCEPT ![p] = instance[o]]
                  /\ newpid' = [newpid EXCEPT ![o] = p]
                  /\ stray' = IF o \in spoilt THEN stray \cup {p} ELSE stray
             /\ UNCHANGED <<file, instance, due, spoilt>>
(* echo $newpid > $pid: the shell opens the file, then echo writes.        *)
truncate(o) == /\ Goto(o, "truncate", "record")
               /\ file' = [file EXCEPT ![FileOf(o)] = Empty]
               /\ UNCHANGED <<proc, owner, instance, newpid, aux>>
record(o) == /\ Goto(o, "record", "sleep")
             /\ file' = [file EXCEPT ![FileOf(o)] = newpid[o]]
             /\ spoilt' = spoilt \ {o}
             /\ UNCHANGED <<proc, owner, instance, newpid, stray, due>>
(* After two seconds the script only prints whether the daemon has died.   *)
startEnds(o) == /\ Goto(o, "sleep", "idle") /\ newpid' = [newpid EXCEPT ![o] = None]
                /\ UNCHANGED <<file, proc, owner, instance, aux>>

Recorded(i) == {p \in Daemons(i) \ stray :
                   ~ \E u \in Operators : Writing(u) /\ newpid[u] = p}
stop(o) == /\ Goto(o, "idle", "stopCheck")
           /\ \E i \in Instances : /\ instance' = [instance EXCEPT ![o] = i]
                                   /\ due' = [due EXCEPT ![o] = Recorded(i)]
           /\ UNCHANGED <<file, proc, owner, newpid, stray, spoilt>>
stopCheck(o) == /\ Goto(o, "stopCheck", IF Probe(o) THEN "signal" ELSE "stopped")
                /\ UNCHANGED <<file, proc, owner, instance, newpid, aux>>
(* kill `cat $pid`: the file is read again.                                *)
Signalled(p) == CASE proc[p] = "daemon" -> "dying"
                  [] proc[p] = "other"  -> "hit"
                  [] OTHER              -> proc[p]
signal(o) == /\ Goto(o, "signal", "stopped")
             /\ LET p == file[FileOf(o)] IN
                proc' = IF p \in Pids THEN [proc EXCEPT ![p] = Signalled(p)] ELSE proc
             /\ UNCHANGED <<file, owner, instance, newpid, aux>>
stopEnds(o) == /\ Goto(o, "stopped", "idle") /\ due' = [due EXCEPT ![o] = {}]
               /\ UNCHANGED <<file, proc, owner, instance, newpid, stray, spoilt>>

(* Ctrl-C or a lost session: the script ends where it is.  The daemon it   *)
(* has launched goes on (nohup, and a background job of a script ignores   *)
(* SIGINT), with no pid file, an empty one or the one of its predecessor.  *)
interrupt(o) == /\ pc[o] # "idle" /\ pc' = [pc EXCEPT ![o] = "idle"]
                /\ stray' = IF Writing(o) THEN stray \cup {newpid[o]} ELSE stray
                /\ spoilt' = spoilt \ {o} /\ due' = [due EXCEPT ![o] = {}]
                /\ newpid' = [newpid EXCEPT ![o] = None]
                /\ UNCHANGED <<file, proc, owner, instance>>

(* The system: any process ends, and an old pid may name another program.  *)
ends(p) == /\ Exists(p) /\ proc' = [proc EXCEPT ![p] = "dead"]
           /\ UNCHANGED <<file, owner, script, aux>>
reuse(p) == /\ Reuse /\ proc[p] = "dead" /\ proc' = [proc EXCEPT ![p] = "other"]
            /\ UNCHANGED <<file, owner, script, aux>>

Next == \/ \E o \in Operators : \/ start(o) \/ startCheck(o) \/ launch(o) \/ truncate(o)
                                \/ record(o) \/ startEnds(o) \/ stop(o) \/ stopCheck(o)
                                \/ signal(o) \/ stopEnds(o) \/ interrupt(o)
        \/ \E p \in Pids : ends(p) \/ reuse(p)
Spec == Init /\ [][Next]_vars

-----------------------------------------------------------------------------
TypeOK ==
    /\ file \in [Instances -> Pids \cup {None, Empty}]
    /\ proc \in [Pids -> {"free", "daemon", "dying", "dead", "other", "hit"}]
    /\ owner \in [Pids -> Instances]
    /\ pc \in [Operators -> {"idle", "startCheck", "launch", "truncate", "record",
                             "sleep", "stopCheck", "signal", "stopped"}]
    /\ instance \in [Operators -> Instances] /\ newpid \in [Operators -> Pids \cup {None}]
    /\ stray \subseteq Pids \cup {None} /\ spoilt \subseteq Operators
    /\ due \in [Operators -> SUBSET Pids]
=============================================================================
