--------------------------- MODULE SparkService ---------------------------
(***************************************************************************)
(* The Spark daemon of one server: the Upstart job spark-{master,worker},  *)
(* its runner script with the log rotation, the Puppet service resource    *)
(* and the Fabric stop task.  Upstart itself (goal, respawn, respawn       *)
(* limit) is external; its job file chooses the behaviour.                 *)
(***************************************************************************)
EXTENDS Naturals

CONSTANTS Num,          \* rotated logs kept: num=5 in spark_rotate_log
          RespawnLimit, \* `respawn limit 10 90`: deaths tolerated in a window
          MaxFaults     \* bound on crashes, stops, restarts and reboots

ASSUME ServiceAssumption ==
    Num \in Nat \ {0} /\ RespawnLimit \in Nat /\ MaxFaults \in Nat

VARIABLES goal,     \* Upstart's goal for the job
          proc,     \* where the runner process stands, "dead" without one
          killed,   \* the process has been sent SIGTERM by Upstart
          num,      \* the loop variable of spark_rotate_log
          respawns, \* deaths in the current respawn window
          logs,     \* the run that wrote log (0) and log.1 .. log.Num
          run,      \* how many times spark-class was started
          faults    \* disturbances so far (bounding only)

job  == <<goal, proc, killed, num, respawns>>
vars == <<goal, proc, killed, num, respawns, logs, run, faults>>

Slots == 0 .. Num

(* Run number 0 stands for a file that does not exist.                     *)
TypeOK ==
    /\ goal \in {"start", "stop"}
    /\ proc \in {"dead", "begin", "rotate", "exec", "running"}
    /\ killed \in BOOLEAN
    /\ num \in 1 .. Num
    /\ respawns \in 0 .. RespawnLimit
    /\ logs \in [Slots -> Nat]
    /\ run \in Nat
    /\ faults \in 0 .. MaxFaults

Init ==
    /\ goal = "stop" /\ proc = "dead" /\ killed = FALSE
    /\ num = Num /\ respawns = 0
    /\ logs = [i \in Slots |-> 0]
    /\ run = 0 /\ faults = 0
-----------------------------------------------------------------------------
Exists(slot) == logs[slot] # 0

(* mv: the source disappears and replaces what the target was; without a   *)
(* source nothing happens.                                                 *)
Cp(from, to) ==  \* mutant: cp in place of mv
    IF Exists(from) THEN [logs EXCEPT ![to] = logs[from]] ELSE logs
Mv(from, to) ==
    IF Exists(from) THEN [logs EXCEPT ![to] = logs[from], ![from] = 0] ELSE logs

OneLess  == Num - 1  \* mutant: the loop starts below the last log
FirstNum == Num

(* The runner: `if [ -f "$log" ]` ...                                      *)
RotateBeginMvFirst ==  \* mutant: mv "$log" "$log.1" before the loop
    /\ proc = "begin"
    /\ proc' = IF Exists(0) THEN "rotate" ELSE "exec"
    /\ num' = FirstNum
    /\ logs' = Mv(0, 1)
    /\ UNCHANGED <<goal, killed, respawns, run, faults>>
RotateBegin ==
    /\ proc = "begin"
    /\ proc' = IF Exists(0) THEN "rotate" ELSE "exec"
    /\ num' = FirstNum
    /\ UNCHANGED <<goal, killed, respawns, logs, run, faults>>

(* ... `[ -f "$log.$prev" ] && mv "$log.$prev" "$log.$num"`, from the      *)
(* oldest log down ...                                                     *)
SameNum(n) == n  \* mutant: num=$prev is missing
Prev(n)    == n - 1

RotateMove ==
    /\ proc = "rotate" /\ num > 1
    /\ logs' = Mv(num - 1, num)
    /\ num' = Prev(num)
    /\ UNCHANGED <<goal, proc, killed, respawns, run, faults>>

(* ... and `mv "$log" "$log.$num"` after the loop.                         *)
RotateLast ==
    /\ proc = "rotate" /\ num = 1
    /\ logs' = Mv(0, num)
    /\ proc' = "exec"
    /\ UNCHANGED <<goal, killed, num, respawns, run, faults>>

(* spark-class ... >> log: the daemon appends to the current log.          *)
SparkClass ==
    /\ proc = "exec"
    /\ proc' = "running"
    /\ run' = run + 1
    /\ logs' = [logs EXCEPT ![0] = run + 1]
    /\ UNCHANGED <<goal, killed, num, respawns, faults>>

Runner == RotateBegin \/ RotateMove \/ RotateLast \/ SparkClass
-----------------------------------------------------------------------------
(* Upstart (external) starts the runner whenever the goal is start.        *)
Spawn ==
    /\ goal = "start" /\ proc = "dead"
    /\ proc' = "begin" /\ killed' = FALSE
    /\ UNCHANGED <<goal, num, respawns, logs, run, faults>>

Fault == faults < MaxFaults /\ faults' = faults + 1

(* `respawn limit`: one death too many within the window and the job       *)
(* becomes stop/waiting, with a fresh count when it is started again.      *)
Tolerated(n)        == n < RespawnLimit

(* The daemon dies (an uncaught exception) or the runner is killed, at any *)
(* point of the rotation.                                                  *)
Crash ==
    /\ Fault
    /\ proc # "dead" /\ ~killed
    /\ proc' = "dead"
    /\ IF Tolerated(respawns)
         THEN respawns' = respawns + 1 /\ UNCHANGED goal
         ELSE respawns' = 0 /\ goal' = "stop"
    /\ UNCHANGED <<killed, num, logs, run>>

(* SIGTERM from Upstart takes effect, without counting as a death.         *)
Terminated ==
    /\ proc # "dead" /\ killed
    /\ proc' = "dead" /\ killed' = FALSE
    /\ respawns' = IF goal = "stop" THEN 0 ELSE respawns
    /\ UNCHANGED <<goal, num, logs, run, faults>>

(* More than 90 seconds since the window opened.                           *)
WindowEnds ==
    /\ respawns > 0
    /\ respawns' = 0
    /\ UNCHANGED <<goal, proc, killed, num, logs, run, faults>>

(* Power loss: files stay, and `start on runlevel [2345]` starts the job   *)
(* even if it had been stopped.                                            *)
Reboot ==
    /\ Fault
    /\ goal' = "start" /\ proc' = "dead" /\ killed' = FALSE
    /\ num' = Num /\ respawns' = 0
    /\ UNCHANGED <<logs, run>>
-----------------------------------------------------------------------------
(* initctl status | grep "/running"                                        *)
Status == goal = "start" /\ proc # "dead" /\ ~killed

(* Puppet, ensure => running: `initctl start` unless the status says so.   *)
(* initctl start refuses a job whose goal already is start.                *)
ensureRunning ==
    /\ ~Status /\ goal = "stop"
    /\ goal' = "start"
    /\ UNCHANGED <<proc, killed, num, respawns, logs, run, faults>>

(* Puppet, notified by /etc/init/spark-*.conf: `initctl restart`.          *)
refresh ==
    /\ Status /\ Fault
    /\ killed' = TRUE
    /\ UNCHANGED <<goal, proc, num, respawns, logs, run>>

(* stopSparkMaster and stopSparkWorkers: `initctl stop` under warn_only,   *)
(* which fails without effect on a job that is being stopped.              *)
stopSpark ==
    /\ goal = "start" /\ Fault
    /\ goal' = "stop"
    /\ killed' = (proc # "dead")
    /\ UNCHANGED <<proc, num, respawns, logs, run>>

Next ==
    \/ Runner \/ Spawn \/ Crash \/ Terminated \/ WindowEnds \/ Reboot
    \/ ensureRunning \/ refresh \/ stopSpark

(* The kernel runs the shell script and Upstart reaps and respawns; crash, *)
(* stop, refresh and Puppet runs owe nobody anything.                      *)
Spec     == Init /\ [][Next]_vars
FairSpec == Spec /\ WF_vars(Runner) /\ WF_vars(Spawn) /\ WF_vars(Terminated)
-----------------------------------------------------------------------------
(* Higher numbers are older logs, also in the middle of a rotation and     *)
(* when a rotation was cut short by a crash and the next one starts over.  *)
LogsInOrder ==
    \A i, j \in Slots : i < j /\ Exists(i) /\ Exists(j) => logs[i] > logs[j]

(* The logs on disk are those of the latest runs without a gap: whatever   *)
(* point a rotation was killed at, no run's log is lost while an older one *)
(* is kept.                                                                *)
NoGapInHistory ==
    \A i \in Slots : Exists(i) =>
       \A r \in logs[i] .. run : \E j \in Slots : logs[j] = r

(* A log is overwritten only in the last slot: starting a rotation over    *)
(* never writes one of the remaining logs over another.                    *)
LostOnlyFromLast ==
    [][\A i \in Slots : Exists(i) /\ i # Num =>
          \E j \in Slots : logs'[j] = logs[i]]_vars

(* README.md: the scripts "restart Spark workers when their processes      *)
(* terminate": a job that is meant to run gets its daemon back, unless it  *)
(* is stopped or dies more often than the respawn limit tolerates.         *)
Restarted == goal = "start" ~> (proc = "running" \/ goal = "stop")
=============================================================================
