---------------------------- MODULE SparkDaemons ----------------------------
(***************************************************************************)
(* The processes that sbin/spark-daemon.sh starts and stops, where each    *)
(* operator's script is, and what the script promises about them.          *)
(* SparkDaemonScript has the steps.                                        *)
(***************************************************************************)
CONSTANTS Operators,     \* any of them may start and stop any instance
          Instances,     \* instance numbers of the command
          Pids           \* bound: processes ever launched

ASSUME InstancesAssumption == Instances # {}

VARIABLES
    proc,     \* proc[p]: "free", "daemon", "dying", "dead", or "other" programs
              \* and those of them "hit" by a signal
    owner,    \* owner[p]: the instance that p was launched for
    pc,       \* pc[o]: where the script that o runs is
    instance, \* instance[o]: the instance it was given
    stray,    \* auxiliary: the daemons whose start was killed before it had
              \* written their pid, or overlapped another start of the instance
    due       \* auxiliary: due[o], the daemons whose start had ended when the
              \* stop that o runs began

Daemons(i) == {p \in Pids : proc[p] \in {"daemon", "dying"} /\ owner[p] = i}

(* spark-daemon.sh: the check of the pid file keeps an instance from       *)
(* running twice, whoever starts and stops it and wherever scripts are     *)
(* killed, crashes, slow shutdowns and reused pids included: a second      *)
(* daemon is there only when starts of the instance overlapped or one was  *)
(* killed before it had written the pid.                                   *)
OneDaemon == \A i \in Instances : \A p, q \in Daemons(i) \ stray : p = q

(* spark-daemon.sh: when a stop has come to its end, every daemon of its   *)
(* instance whose start had ended when the stop began has ended or been    *)
(* signalled, whatever the other operators start, stop and kill meanwhile. *)
StopRight == \A o \in Operators : pc[o] = "stopped" =>
                 \A p \in Daemons(instance[o]) \cap due[o] : proc[p] = "dying"
=============================================================================
