------------------------ MODULE SparkServiceProofs ------------------------
(***************************************************************************)
(* Proofs about SparkService: the log rotation survives being cut short at *)
(* any point, for every number of kept logs and any sequence of crashes,   *)
(* stops, restarts and reboots.                                            *)
(***************************************************************************)
EXTENDS SparkService, TLAPS

(* The next target of the loop is free, except the last log; the current   *)
(* log is free when the daemon is about to create it.                      *)
RotationOK ==
    /\ proc = "rotate" /\ num < Num => ~Exists(num)
    /\ proc = "exec" => ~Exists(0)
    /\ \A i \in Slots : logs[i] <= run

Inv == TypeOK /\ LogsInOrder /\ NoGapInHistory /\ RotationOK

LEMMA InitInv == ASSUME Init PROVE Inv
<1>1. TypeOK
  <2>1. killed \in BOOLEAN
    BY DEF Init
  <2>2. /\ num = Num /\ respawns = 0 /\ run = 0 /\ faults = 0
        /\ goal = "stop" /\ proc = "dead" /\ logs = [i \in Slots |-> 0]
    BY DEF Init
  <2> QED BY <2>1, <2>2, ServiceAssumption DEF TypeOK
<1>2. LogsInOrder /\ NoGapInHistory /\ RotationOK
  BY DEF Init, LogsInOrder, NoGapInHistory, RotationOK, Exists
<1> QED BY <1>1, <1>2 DEF Inv
-----------------------------------------------------------------------------
(* One mv of the rotation, into a free slot or over the last log.          *)
LEMMA MvStep ==
    ASSUME Inv, NEW n \in 1 .. Num, n < Num => ~Exists(n),
           logs' = Mv(n - 1, n), run' = run
    PROVE  /\ logs' \in [Slots -> Nat] /\ logs'[n - 1] = 0
           /\ \A i \in Slots : logs'[i] <= run
           /\ LogsInOrder' /\ NoGapInHistory'
           /\ \A i \in Slots : Exists(i) /\ i # Num =>
                 \E j \in Slots : logs'[j] = logs[i]
<1>1. /\ logs \in [Slots -> Nat] /\ run \in Nat /\ Num \in Nat
      /\ n - 1 \in Slots /\ n \in Slots /\ n \in Nat /\ n <= Num
      /\ \A i \in Slots : logs[i] <= run
      /\ \A i \in Slots : i \in Nat /\ i <= Num
  BY ServiceAssumption DEF Inv, TypeOK, RotationOK, Slots
<1>2. CASE ~Exists(n - 1)
  <2>1. logs' = logs
    BY <1>2 DEF Mv
  <2> QED
    BY <1>1, <1>2, <2>1 DEF Inv, LogsInOrder, NoGapInHistory, Exists
<1>3. CASE Exists(n - 1)
  <2>1. \A i \in Slots : logs'[i] = IF i = n - 1 THEN 0
                                    ELSE IF i = n THEN logs[n - 1] ELSE logs[i]
    BY <1>1, <1>3 DEF Mv
  <2>2. logs' \in [Slots -> Nat]
    BY <1>1, <1>3 DEF Mv
  <2>3. LogsInOrder'
    BY <1>1, <2>1 DEF Inv, LogsInOrder, Exists
  <2>4. \A i \in Slots : Exists(i) /\ (i # Num \/ n # Num) =>
           \E j \in Slots : logs'[j] = logs[i]
    <3> SUFFICES ASSUME NEW i \in Slots, Exists(i), i # Num \/ n # Num
                 PROVE  \E j \in Slots : logs'[j] = logs[i]
      OBVIOUS
    <3>1. CASE i = n - 1
      BY <1>1, <2>1, <3>1
    <3>2. CASE i = n
      BY <1>1, <3>2
    <3>3. CASE i # n /\ i # n - 1
      BY <2>1, <3>3
    <3> QED BY <3>1, <3>2, <3>3
  <2>5. NoGapInHistory'
    <3> SUFFICES ASSUME NEW i \in Slots, logs'[i] # 0,
                        NEW r \in logs'[i] .. run
                 PROVE  \E j \in Slots : logs'[j] = r
      BY DEF NoGapInHistory, Exists
    <3>1. PICK h \in Slots : logs[h] = logs'[i] /\ h # n
      BY <1>1, <2>1
    <3>2. PICK j \in Slots : logs[j] = r
      BY <3>1 DEF Inv, NoGapInHistory, Exists
    <3>3. Exists(j) /\ logs[h] <= logs[j] /\ Exists(h)
      BY <1>1, <2>2, <3>1, <3>2 DEF Exists
    <3>4. ~(j = Num /\ n = Num)
      BY <1>1, <3>1, <3>3 DEF Inv, LogsInOrder
    <3> QED BY <2>4, <3>2, <3>3, <3>4
  <2> QED BY <1>1, <2>1, <2>2, <2>3, <2>4, <2>5
<1> QED BY <1>2, <1>3

(* Steps that leave the logs alone keep what is known of them.             *)
LEMMA SameLogs ==
    ASSUME Inv, UNCHANGED <<logs, run>>
    PROVE  LogsInOrder' /\ NoGapInHistory' /\ \A i \in Slots : logs'[i] <= run'
BY DEF Inv, LogsInOrder, NoGapInHistory, RotationOK, Exists

LEMMA NextInv == ASSUME Inv, Next PROVE Inv'
<1> USE ServiceAssumption
<1>1. CASE RotateBegin
  BY <1>1, SameLogs
     DEF RotateBegin, FirstNum, Inv, TypeOK, RotationOK, Exists
<1>2. CASE RotateMove
  <2>1. num \in 1 .. Num /\ (num < Num => ~Exists(num)) /\ num - 1 \in 1 .. Num
    BY <1>2 DEF RotateMove, Inv, TypeOK, RotationOK
  <2> QED
    BY <1>2, <2>1, MvStep
       DEF RotateMove, Prev, Inv, TypeOK, RotationOK, Exists
<1>3. CASE RotateLast
  <2>1. 1 \in 1 .. Num /\ (1 < Num => ~Exists(1)) /\ logs' = Mv(1 - 1, 1)
    BY <1>3 DEF RotateLast, Inv, TypeOK, RotationOK
  <2> QED
    BY <1>3, <2>1, MvStep DEF RotateLast, Inv, TypeOK, RotationOK, Exists
<1>4. CASE SparkClass
  <2>1. /\ logs \in [Slots -> Nat] /\ run \in Nat /\ logs[0] = 0 /\ 0 \in Slots
        /\ \A i \in Slots : logs[i] <= run
    BY <1>4 DEF SparkClass, Inv, TypeOK, RotationOK, Exists, Slots
  <2>2. run' = run + 1 /\ proc' = "running" /\ logs' \in [Slots -> Nat]
        /\ \A i \in Slots : logs'[i] = IF i = 0 THEN run + 1 ELSE logs[i]
    BY <1>4, <2>1 DEF SparkClass
  <2>3. LogsInOrder'
    BY <2>1, <2>2 DEF Inv, LogsInOrder, Exists, Slots
  <2>4. NoGapInHistory'
    <3> SUFFICES ASSUME NEW i \in Slots, logs'[i] # 0,
                        NEW r \in logs'[i] .. run + 1
                 PROVE  \E j \in Slots : logs'[j] = r
      BY <2>2 DEF NoGapInHistory, Exists
    <3>1. CASE r = run + 1
      BY <2>1, <2>2, <3>1
    <3>2. CASE r # run + 1
      <4>1. i # 0 /\ logs[i] # 0 /\ r \in logs[i] .. run /\ r # 0
        BY <2>1, <2>2, <3>2
      <4>2. PICK j \in Slots : logs[j] = r
        BY <4>1 DEF Inv, NoGapInHistory, Exists
      <4> QED BY <2>1, <2>2, <4>1, <4>2
    <3> QED BY <3>1, <3>2
  <2>5. RotationOK'
    BY <2>1, <2>2 DEF RotationOK
  <2> QED
    BY <1>4, <2>2, <2>3, <2>4, <2>5 DEF SparkClass, Inv, TypeOK
<1>5. CASE Spawn
  BY <1>5, SameLogs DEF Spawn, Inv, TypeOK, RotationOK
<1>6. CASE Crash
  BY <1>6, SameLogs DEF Crash, Fault, Tolerated, Inv, TypeOK, RotationOK
<1>7. CASE Terminated
  <2>1. TypeOK'
    <3>1. killed' \in BOOLEAN
      BY <1>7 DEF Terminated
    <3>2. /\ proc' = "dead"
        /\ respawns' \in {0, respawns} /\ goal' = goal /\ num' = num
        /\ logs' = logs /\ run' = run /\ faults' = faults
      BY <1>7 DEF Terminated
    <3> QED BY <3>1, <3>2 DEF Inv, TypeOK
  <2>2. RotationOK'
    BY <1>7, SameLogs DEF Terminated, RotationOK
  <2> QED BY <1>7, <2>1, <2>2, SameLogs DEF Terminated, Inv
<1>8. CASE WindowEnds
  BY <1>8, SameLogs DEF WindowEnds, Inv, TypeOK, RotationOK, Exists
<1>9. CASE Reboot
  <2>1. TypeOK'
    <3>1. killed' \in BOOLEAN
      BY <1>9 DEF Reboot, Fault
    <3>2. /\ proc' = "dead"
        /\ respawns' = 0 /\ goal' = "start" /\ num' = Num
        /\ logs' = logs /\ run' = run
        /\ faults < MaxFaults /\ faults' = faults + 1
      BY <1>9 DEF Reboot, Fault
    <3> QED BY <3>1, <3>2 DEF Inv, TypeOK
  <2>2. RotationOK'
    BY <1>9, SameLogs DEF Reboot, RotationOK
  <2> QED BY <1>9, <2>1, <2>2, SameLogs DEF Reboot, Inv
<1>10. CASE ensureRunning
  BY <1>10, SameLogs DEF ensureRunning, Inv, TypeOK, RotationOK, Exists
<1>11. CASE refresh
  BY <1>11, SameLogs DEF refresh, Fault, Inv, TypeOK, RotationOK, Exists
<1>12. CASE stopSpark
  BY <1>12, SameLogs DEF stopSpark, Fault, Inv, TypeOK, RotationOK, Exists
<1> QED
  BY <1>1, <1>2, <1>3, <1>4, <1>5, <1>6, <1>7, <1>8, <1>9, <1>10, <1>11, <1>12
     DEF Next, Runner

(* The invariant of the service and its rotation.                          *)
THEOREM Invariance == Spec => []Inv
<1>1. Init => Inv
  BY InitInv
<1>2. Inv /\ [Next]_vars => Inv'
  <2>1. Inv /\ UNCHANGED vars => Inv'
    BY DEF vars, Inv, TypeOK, LogsInOrder, NoGapInHistory, RotationOK, Exists
  <2> QED BY <2>1, NextInv
<1> QED BY <1>1, <1>2, PTL DEF Spec

(* log.1 .. log.Num are always from newest to oldest.                      *)
THEOREM LogsOrdered == Spec => []LogsInOrder
<1>1. Inv => LogsInOrder
  BY DEF Inv
<1> QED BY <1>1, Invariance, PTL

(* The logs on disk are always those of the latest runs, without a gap.    *)
THEOREM LatestLogsKept == Spec => []NoGapInHistory
<1>1. Inv => NoGapInHistory
  BY DEF Inv
<1> QED BY <1>1, Invariance, PTL

(* No step overwrites a log in a slot other than the last.                 *)
THEOREM OnlyLastOverwritten == Spec => LostOnlyFromLast
<1>1. Inv /\ [Next]_vars =>
         [\A i \in Slots : Exists(i) /\ i # Num =>
             \E j \in Slots : logs'[j] = logs[i]]_vars
  <2> SUFFICES ASSUME Inv, Next, NEW i \in Slots, Exists(i), i # Num
               PROVE  \E j \in Slots : logs'[j] = logs[i]
    OBVIOUS
  <2>1. CASE RotateMove
    <3>1. num \in 1 .. Num /\ (num < Num => ~Exists(num))
      BY <2>1 DEF RotateMove, Inv, TypeOK, RotationOK
    <3> QED BY <2>1, <3>1, MvStep DEF RotateMove
  <2>2. CASE RotateLast
    <3>1. 1 \in 1 .. Num /\ (1 < Num => ~Exists(1)) /\ logs' = Mv(1 - 1, 1)
      BY <2>2, ServiceAssumption DEF RotateLast, Inv, TypeOK, RotationOK
    <3> QED BY <2>2, <3>1, MvStep DEF RotateLast
  <2>3. CASE SparkClass
    <3>1. i # 0 /\ logs \in [Slots -> Nat]
      BY <2>3 DEF SparkClass, Inv, TypeOK, RotationOK
    <3> QED BY <2>3, <3>1 DEF SparkClass
  <2>4. CASE UNCHANGED logs
    BY <2>4
  <2> QED
    BY <2>1, <2>2, <2>3, <2>4
       DEF Next, Runner, RotateBegin, Spawn, Crash, Terminated, WindowEnds,
           Reboot, ensureRunning, refresh, stopSpark
<1> QED BY <1>1, Invariance, PTL DEF Spec, LostOnlyFromLast
=============================================================================
