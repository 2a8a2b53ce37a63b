-------------------------- MODULE AppDeployProofs --------------------------
(***************************************************************************)
(* Proofs about AppDeploy for any number of shells, servers, drivers and   *)
(* builds and for any invocations.                                         *)
(***************************************************************************)
EXTENDS AppDeploy, SequenceTheorems, TLAPS

(* The tasks that stand between two effects know their driver, and the     *)
(* server they know is the one the driver was launched on.                 *)
ShellOK(s) ==
    LET r == shell[s] IN
    /\ r.pc \in {"submitted", "open", "dump", "stderr"} => r.id \in DriverIds
    /\ r.pc \in {"open", "dump"} =>
          r.server \in Servers /\ drivers[r.id].server = r.server

(* A driver gets its server when it is launched and keeps it.              *)
DriverOK(d) ==
    /\ drivers[d].state \in {"UNKNOWN", "SUBMITTED"} =>
          drivers[d].server = None /\ drivers[d].jar = 0
    /\ drivers[d].state = "RUNNING" => drivers[d].server \in Servers

(* A server has build f or a newer one and keeps it: no rsync to it, of    *)
(* whichever shell, carries an older JAR.                                  *)
Held(f, v) ==
    /\ f <= remoteJar[v]
    /\ \A t \in Shells :
          shell[t].pc = "rsync" /\ All[shell[t].i] = v => f <= shell[t].jar

(* A shell past its sync has its floor held on every server, one inside it *)
(* on the servers its loop has passed; and what its rsync carries is not   *)
(* older than the floor.                                                   *)
FloorOK(s) ==
    LET r == shell[s] IN
    /\ r.floor <= localJar
    /\ r.i # 1 => r.pc \in {"task", "rsync"} /\ Head(r.tasks) = "sync" /\ r.floor # 0
    /\ r.pc = "rsync" =>
          /\ r.i \in DOMAIN All /\ Head(r.tasks) = "sync"
          /\ r.floor # 0 /\ r.floor <= r.jar
    /\ \A j \in DOMAIN All :
          (r.i = 1 /\ r.pc # "rsync") \/ j < r.i => Held(r.floor, All[j])

DriverFloorOK(d) ==
    /\ drivers[d].floor <= localJar
    /\ \A v \in Servers : Held(drivers[d].floor, v)
    /\ Launched(d) => drivers[d].floor <= drivers[d].jar

Inv ==
    /\ TypeOK
    /\ \A s \in Shells : ShellOK(s) /\ FloorOK(s)
    /\ \A d \in DriverIds : DriverOK(d) /\ DriverFloorOK(d)
    /\ RecordNamesItsServer
-----------------------------------------------------------------------------
(* What a finished task leaves in its shell.                               *)
LEMMA DoneType ==
    ASSUME NEW r \in Shell, r.tasks # <<>>
    PROVE  /\ Done(r) \in Shell
           /\ Done(r).i = 1
           /\ Done(r).pc \in {"idle", "task"}
           /\ Done(r).floor \in {0, r.floor}
<1>1. Tail(r.tasks) \in Seq(Tasks)
  BY DEF Shell
<1> QED
  BY <1>1 DEF Done, Idle, Shell

LEMMA IdleType == Idle \in Shell
BY DEF Idle, Shell

LEMMA InitInv == ASSUME Init PROVE Inv
<1>1. TypeOK
  BY IdleType DEF Init, TypeOK, Driver, DriverStates, NoDriver
<1> QED
  BY <1>1, AppAssumption
     DEF Init, Inv, ShellOK, FloorOK, Held, DriverOK, DriverFloorOK, Launched,
         RecordNamesItsServer, Idle, NoDriver
-----------------------------------------------------------------------------
(* Most steps leave the servers' JARs alone and move one shell, to a place *)
(* outside rsync: what a server holds is still held.                       *)
LEMMA HeldStep ==
    ASSUME TypeOK, remoteJar' = remoteJar,
           NEW s \in Shells, NEW r, Goto(s, r), r.pc # "rsync"
    PROVE  \A f, v : Held(f, v) => Held(f, v)'
<1>1. \A t \in Shells : shell'[t] = IF t = s THEN r ELSE shell[t]
  BY DEF Goto, TypeOK
<1> QED BY <1>1 DEF Held

(* Nothing is needed for build 0 to be held.                               *)
LEMMA HeldZero == ASSUME TypeOK, NEW v \in Servers PROVE Held(0, v)
<1>1. remoteJar[v] \in Nat /\ \A t \in Shells : shell[t].jar \in Nat
  BY DEF TypeOK, Shell
<1> QED BY <1>1 DEF Held

(* What such a step leaves to show about the floors.                       *)
LEMMA FloorStep ==
    ASSUME Inv, UNCHANGED <<localJar, remoteJar>>,
           NEW s \in Shells, NEW r \in Shell, Goto(s, r),
           r.i = 1, r.pc # "rsync",
           \/ r.floor = 0
           \/ r.floor = shell[s].floor /\ shell[s].i = 1 /\ shell[s].pc # "rsync"
    PROVE  \A t \in Shells : FloorOK(t)'
<1> SUFFICES ASSUME NEW t \in Shells PROVE FloorOK(t)'
  OBVIOUS
<1>1. shell'[t] = IF t = s THEN r ELSE shell[t]
  BY DEF Goto, Inv, TypeOK
<1>2. FloorOK(t) /\ FloorOK(s) /\ localJar \in Nat
  BY DEF Inv, TypeOK
<1>3. \A f, v : Held(f, v) => Held(f, v)'
  BY HeldStep DEF Inv
<1>4. CASE t = s
  <2>1. \A j \in DOMAIN All : Held(r.floor, All[j])
    <3>1. CASE r.floor = 0
      BY <3>1, HeldZero, AppAssumption DEF Inv
    <3>2. CASE r.floor = shell[s].floor /\ shell[s].i = 1 /\ shell[s].pc # "rsync"
      BY <1>2, <3>2 DEF FloorOK
    <3> QED BY <3>1, <3>2
  <2> QED BY <1>1, <1>2, <1>3, <1>4, <2>1 DEF FloorOK
<1>5. CASE t # s
  BY <1>1, <1>2, <1>3, <1>5 DEF FloorOK
<1> QED BY <1>4, <1>5

(* Steps that leave JARs, record and drivers alone and move one shell.     *)
LEMMA ShellStep ==
    ASSUME Inv, UNCHANGED <<localJar, remoteJar, drivers>>,
           NEW s \in Shells, NEW r \in Shell, Goto(s, r),
           r.i = 1, r.pc # "rsync",
           \/ r.floor = 0
           \/ r.floor = shell[s].floor /\ shell[s].i = 1 /\ shell[s].pc # "rsync",
           r.pc \in {"submitted", "open", "dump", "stderr"} => r.id \in DriverIds,
           r.pc \in {"open", "dump"} =>
              r.server \in Servers /\ drivers[r.id].server = r.server,
           pickle' \in Record \cup {None, Truncated},
           pickle' \in Record =>
              drivers[pickle'.driverId].server = pickle'.driverServer,
           output' \in [{"stdout", "stderr"} -> DriverIds \cup {None}]
    PROVE  Inv'
<1>1. TypeOK'
  BY DEF Inv, TypeOK, Goto
<1>2. \A t \in Shells : FloorOK(t)'
  BY FloorStep
<1>3. ASSUME NEW t \in Shells PROVE ShellOK(t)'
  <2>1. shell'[t] = IF t = s THEN r ELSE shell[t]
    BY DEF Goto, Inv, TypeOK
  <2>2. ShellOK(t)
    BY DEF Inv
  <2> QED
    BY <2>1, <2>2 DEF ShellOK
<1>4. \A d \in DriverIds : DriverOK(d)' /\ DriverFloorOK(d)'
  BY HeldStep DEF Inv, DriverOK, DriverFloorOK, Launched
<1>5. RecordNamesItsServer'
  BY DEF RecordNamesItsServer
<1> QED
  BY <1>1, <1>2, <1>3, <1>4, <1>5 DEF Inv

(* Steps that change the state of one driver and nothing else, leaving it  *)
(* its server and its JAR.                                                 *)
LEMMA DriverStep ==
    ASSUME Inv, UNCHANGED <<appVars, shell>>,
           NEW d \in DriverIds, NEW e \in Driver,
           drivers' = [drivers EXCEPT ![d] = e],
           drivers[d].server \in {None, e.server},
           e.floor = drivers[d].floor,
           e.jar # 0 \/ e.state = "ERROR" => e.floor <= e.jar,
           e.state \in {"UNKNOWN", "SUBMITTED"} => e.server = None /\ e.jar = 0,
           e.state = "RUNNING" => e.server \in Servers
    PROVE  Inv'
<1>1. TypeOK'
  BY DEF Inv, TypeOK, appVars
<1>2. \A c \in DriverIds : drivers'[c] = IF c = d THEN e ELSE drivers[c]
  BY DEF Inv, TypeOK
<1>3. /\ \A f, v : Held(f, v) => Held(f, v)'
      /\ \A s \in Shells : FloorOK(s)'
  BY DEF Inv, FloorOK, Held, appVars
<1>4. ASSUME NEW c \in DriverIds PROVE DriverOK(c)' /\ DriverFloorOK(c)'
  <2>1. DriverOK(c) /\ DriverFloorOK(c)
    BY DEF Inv
  <2>2. CASE c = d
    BY <1>2, <1>3, <2>1, <2>2 DEF DriverOK, DriverFloorOK, Launched, appVars
  <2>3. CASE c # d
    BY <1>2, <1>3, <2>1, <2>3 DEF DriverOK, DriverFloorOK, Launched, appVars
  <2> QED BY <2>2, <2>3
<1>5. ASSUME NEW s \in Shells PROVE ShellOK(s)'
  <2>1. ShellOK(s)
    BY DEF Inv
  <2> QED
    BY <1>2, <2>1, AppAssumption DEF ShellOK
<1>6. RecordNamesItsServer'
  BY <1>2, AppAssumption DEF Inv, RecordNamesItsServer, appVars, Record
<1> QED
  BY <1>1, <1>3, <1>4, <1>5, <1>6 DEF Inv
-----------------------------------------------------------------------------
(* A step of the application-deployment tasks preserves the invariant.     *)
LEMMA TaskInv ==
    ASSUME Inv, NEW s \in Shells, Invoke(s) \/ TaskStep(s)
    PROVE  Inv'
<1> DEFINE r == shell[s]
<1>1. /\ r \in Shell /\ ShellOK(s) /\ FloorOK(s) /\ RecordNamesItsServer
      /\ output \in [{"stdout", "stderr"} -> DriverIds \cup {None}]
      /\ pickle \in Record \cup {None, Truncated}
  BY DEF Inv, TypeOK
<1>2. r.tasks # <<>> => /\ Done(r) \in Shell /\ Done(r).i = 1
                        /\ Done(r).pc \in {"idle", "task"}
                        /\ Done(r).floor \in {0, r.floor}
  BY <1>1, DoneType
<1>3. CASE abort(s)
  BY <1>1, <1>3, ShellStep, IdleType
     DEF abort, appVars, Idle, RecordNamesItsServer
<1>4. CASE Invoke(s)
  <2>1. PICK inv \in Invocations[s] : Goto(s, [Idle EXCEPT !.pc = "task", !.tasks = inv])
    BY <1>4 DEF Invoke
  <2>2. inv \in Seq(Tasks)
    BY AppAssumption
  <2>3. [Idle EXCEPT !.pc = "task", !.tasks = inv] \in Shell
    BY <2>2 DEF Idle, Shell
  <2> QED
    BY <1>1, <1>4, <2>1, <2>3, ShellStep
       DEF Invoke, appVars, Idle, RecordNamesItsServer
<1>5. CASE assembly(s)
  <2>1. localJar' = localJar + 1 /\ localJar \in Nat /\ remoteJar' = remoteJar
        /\ drivers' = drivers /\ pickle' = pickle /\ output' = output
    BY <1>5 DEF assembly, Inv, TypeOK
  <2>2. /\ Goto(s, Done(r)) /\ r.tasks # <<>> /\ r.i = 1 /\ r.pc = "task"
        /\ Done(r).pc # "rsync"
    BY <1>1, <1>2, <1>5 DEF assembly, At, FloorOK
  <2>3. TypeOK'
    BY <1>2, <2>1, <2>2 DEF Inv, TypeOK, Goto
  <2>4. \A f, v : Held(f, v) => Held(f, v)'
    BY <2>1, <2>2, HeldStep DEF Inv
  <2>5. \A j \in DOMAIN All : Held(r.floor, All[j]) /\ Held(0, All[j])
    BY <1>1, <2>2, HeldZero, AppAssumption DEF FloorOK, Inv
  <2>6. ASSUME NEW t \in Shells PROVE ShellOK(t)' /\ FloorOK(t)'
    <3>1. shell'[t] = IF t = s THEN Done(r) ELSE shell[t]
      BY <2>2 DEF Goto, Inv, TypeOK
    <3>2. ShellOK(t) /\ FloorOK(t) /\ shell[t].floor \in Nat /\ r.floor \in Nat
      BY DEF Inv, TypeOK, Shell
    <3>3. ShellOK(t)'
      BY <1>2, <2>1, <2>2, <3>1, <3>2 DEF ShellOK
    <3>4. CASE t = s
      <4>1. /\ shell'[t] = Done(r) /\ Done(r).floor <= localJar'
            /\ \A j \in DOMAIN All : Held(Done(r).floor, All[j])
        BY <1>1, <1>2, <2>1, <2>2, <2>5, <3>1, <3>2, <3>4 DEF FloorOK
      <4>2. \A f : f = shell'[t].floor => \A j \in DOMAIN All : Held(f, All[j])'
        BY <2>4, <4>1
      <4> QED BY <1>2, <2>2, <3>3, <4>1, <4>2 DEF FloorOK
    <3>5. CASE t # s
      <4>1. shell'[t] = shell[t] /\ shell[t].floor <= localJar'
        BY <2>1, <3>1, <3>2, <3>5 DEF FloorOK
      <4> QED BY <2>4, <3>2, <3>3, <4>1 DEF FloorOK
    <3> QED BY <3>3, <3>4, <3>5
  <2>7. RecordNamesItsServer'
    BY <2>1 DEF Inv, RecordNamesItsServer, TypeOK
  <2>8. ASSUME NEW d \in DriverIds PROVE DriverOK(d)' /\ DriverFloorOK(d)'
    <3>1. DriverOK(d) /\ DriverFloorOK(d) /\ drivers[d].floor \in Nat
      BY DEF Inv, TypeOK, Driver
    <3> QED
      BY <2>1, <2>4, <3>1 DEF DriverOK, DriverFloorOK, Launched
  <2> QED BY <2>3, <2>6, <2>7, <2>8 DEF Inv
<1>6. CASE startStatus(s)
  <2>1. r.tasks # <<>> /\ r.i = 1 /\ r.pc = "submitted" /\ r.id \in DriverIds
    BY <1>1, <1>6 DEF startStatus, At, FloorOK, ShellOK
  <2>2. CASE Recorded(drivers[r.id].state)
    <3> DEFINE q == [r EXCEPT !.pc = "open", !.server = drivers[r.id].server]
    <3>1. drivers[r.id].server \in Servers
      BY <2>1, <2>2 DEF Inv, DriverOK, Recorded
    <3>2. q \in Shell /\ q.i = 1 /\ q.floor = r.floor /\ q.pc = "open"
          /\ q.id = r.id /\ q.server = drivers[r.id].server
      BY <1>1, <2>1, <3>1 DEF Shell
    <3>3. Goto(s, q) /\ UNCHANGED <<appVars, drivers>>
      BY <1>6, <2>2 DEF startStatus, DriverServer
    <3> HIDE DEF q
    <3> QED
      BY <1>1, <2>1, <3>1, <3>2, <3>3, ShellStep
         DEF appVars, RecordNamesItsServer
  <2>3. CASE ~Recorded(drivers[r.id].state)
    BY <1>1, <1>2, <1>6, <2>1, <2>3, ShellStep
       DEF startStatus, appVars, RecordNamesItsServer
  <2> QED BY <2>2, <2>3
<1>7. CASE startOpen(s)
  <2> DEFINE q == [r EXCEPT !.pc = "dump"]
  <2>1. r.i = 1 /\ r.pc = "open" /\ Goto(s, q) /\ pickle' = Truncated
        /\ UNCHANGED <<localJar, remoteJar, drivers, output>>
    BY <1>1, <1>7 DEF startOpen, At, FloorOK
  <2>2. q \in Shell /\ q.i = 1 /\ q.floor = r.floor /\ q.pc = "dump"
        /\ q.id = r.id /\ q.server = r.server
    BY <1>1, <2>1 DEF Shell
  <2>3. pickle' \notin Record
    BY <2>1, AppAssumption
  <2> HIDE DEF q
  <2> QED
    BY <1>1, <2>1, <2>2, <2>3, ShellStep DEF ShellOK
<1>8. CASE startDump(s)
  <2>1. r.tasks # <<>> /\ r.i = 1 /\ r.pc = "dump" /\ Goto(s, Done(r))
        /\ pickle' = [driverId |-> r.id, driverServer |-> r.server]
        /\ UNCHANGED <<localJar, remoteJar, drivers, output>>
    BY <1>1, <1>8 DEF startDump, At, FloorOK
  <2>2. pickle' \in Record /\ drivers[pickle'.driverId].server = pickle'.driverServer
    BY <1>1, <2>1 DEF ShellOK, Record
  <2> QED
    BY <1>1, <1>2, <2>1, <2>2, ShellStep
<1>9. CASE getOutput(s)
  <2>1. PICK d \in DriverIds, v \in Servers :
           /\ output' = [output EXCEPT !["stdout"] = d]
           /\ Goto(s, [r EXCEPT !.pc = "stderr", !.id = d, !.server = v])
    BY <1>9 DEF getOutput
  <2> DEFINE q == [r EXCEPT !.pc = "stderr", !.id = d, !.server = v]
  <2>2. /\ r.i = 1 /\ r.pc = "task"
        /\ UNCHANGED <<localJar, remoteJar, pickle, drivers>>
    BY <1>1, <1>9 DEF getOutput, At, FloorOK
  <2>3. q \in Shell /\ q.i = 1 /\ q.floor = r.floor /\ q.pc = "stderr" /\ q.id = d
    BY <1>1, <2>2 DEF Shell
  <2>4. output' \in [{"stdout", "stderr"} -> DriverIds \cup {None}]
    BY <1>1, <2>1
  <2>5. Goto(s, q)
    BY <2>1
  <2> HIDE DEF q
  <2> QED
    BY <1>1, <2>2, <2>3, <2>4, <2>5, ShellStep DEF RecordNamesItsServer
<1>10. CASE getOutputStderr(s)
  <2>1. r.tasks # <<>> /\ r.i = 1 /\ r.pc = "stderr" /\ Goto(s, Done(r))
        /\ output' = [output EXCEPT !["stderr"] = r.id]
        /\ UNCHANGED <<localJar, remoteJar, pickle, drivers>>
    BY <1>1, <1>10 DEF getOutputStderr, At, FloorOK, StderrOf
  <2>2. output' \in [{"stdout", "stderr"} -> DriverIds \cup {None}]
    BY <1>1, <2>1 DEF ShellOK
  <2> QED
    BY <1>1, <1>2, <2>1, <2>2, ShellStep DEF RecordNamesItsServer
<1>11. CASE sync(s)
  <2> DEFINE floor == IF r.i = 1 THEN localJar ELSE r.floor
             n     == [r EXCEPT !.pc = "rsync", !.jar = localJar, !.floor = floor]
  <2>1. /\ r.tasks # <<>> /\ Head(r.tasks) = "sync" /\ r.pc = "task"
        /\ r.i \in DOMAIN All /\ Goto(s, n) /\ localJar # 0
        /\ UNCHANGED <<localJar, remoteJar, pickle, output, drivers>>
    BY <1>11 DEF sync, At, appVars
  <2>2. localJar \in Nat /\ floor \in Nat /\ floor # 0 /\ floor <= localJar
    BY <1>1, <2>1 DEF Inv, TypeOK, FloorOK, Shell
  <2>3. /\ n \in Shell /\ n.pc = "rsync" /\ n.tasks = r.tasks /\ n.i = r.i
        /\ n.jar = localJar /\ n.floor = floor
    BY <1>1, <2>2 DEF Shell
  <2> HIDE DEF n
  <2>4. \A t \in Shells : shell'[t] = IF t = s THEN n ELSE shell[t]
    BY <2>1 DEF Goto, Inv, TypeOK
  <2>5. ASSUME NEW f, f <= localJar, NEW v, Held(f, v) PROVE Held(f, v)'
    BY <2>1, <2>3, <2>4, <2>5 DEF Held
  <2>6. TypeOK' /\ RecordNamesItsServer'
    BY <1>1, <2>1, <2>3 DEF Inv, TypeOK, RecordNamesItsServer, Goto
  <2>7. ASSUME NEW t \in Shells PROVE ShellOK(t)' /\ FloorOK(t)'
    <3>1. ShellOK(t) /\ FloorOK(t)
      BY DEF Inv
    <3>2. ShellOK(t)'
      BY <2>1, <2>3, <2>4, <3>1 DEF ShellOK
    <3>3. CASE t = s
      <4>1. ASSUME NEW j \in DOMAIN All, j < r.i PROVE Held(floor, All[j])
        <5>1. r.i # 1
          BY <2>1, <4>1, AppAssumption
        <5> QED BY <1>1, <4>1, <5>1 DEF FloorOK
      <4>2. \A f : f = floor => \A j \in DOMAIN All : j < r.i => Held(f, All[j])'
        BY <2>2, <2>5, <4>1
      <4>3. shell'[s] = n
        BY <2>4
      <4> QED BY <2>1, <2>2, <2>3, <3>2, <3>3, <4>2, <4>3 DEF FloorOK
    <3>4. CASE t # s
      BY <2>1, <2>4, <2>5, <3>1, <3>2, <3>4 DEF FloorOK
    <3> QED BY <3>3, <3>4
  <2>8. ASSUME NEW d \in DriverIds PROVE DriverOK(d)' /\ DriverFloorOK(d)'
    BY <2>1, <2>5 DEF Inv, DriverOK, DriverFloorOK, Launched
  <2> QED BY <2>6, <2>7, <2>8 DEF Inv
<1>12. CASE syncRename(s)
  <2> DEFINE v     == All[r.i]
             floor == IF OlderUnderWay(s, v, r.floor) THEN 1 ELSE r.floor
             q     == [r EXCEPT !.pc = "task", !.jar = 0, !.floor = floor]
             n     == IF SyncedAll(r.i) THEN Done(q) ELSE [q EXCEPT !.i = r.i + 1]
  <2>1. /\ r.tasks # <<>> /\ Head(r.tasks) = "sync" /\ r.pc = "rsync"
        /\ Goto(s, n) /\ remoteJar' = [remoteJar EXCEPT ![v] = r.jar]
        /\ UNCHANGED <<localJar, pickle, output, drivers>>
    BY <1>12 DEF syncRename, At
  <2>2. /\ localJar \in Nat /\ remoteJar \in [Servers -> Nat]
        /\ r.i \in 1 .. Len(All) /\ Len(All) \in Nat /\ v \in Servers
        /\ r.jar \in Nat /\ r.floor \in Nat /\ r.floor # 0 /\ r.floor <= r.jar
        /\ r.floor <= localJar
    BY <1>1, <2>1, AppAssumption DEF Inv, TypeOK, FloorOK, Shell
  <2>3. floor \in Nat /\ floor # 0 /\ floor <= r.floor
    BY <2>2
  <2>4. q \in Shell /\ q.tasks = r.tasks /\ q.pc = "task" /\ q.i = r.i /\ q.floor = floor
    BY <1>1, <2>3 DEF Shell
  <2>5. /\ Done(q) \in Shell /\ Done(q).i = 1
        /\ Done(q).pc \in {"idle", "task"} /\ Done(q).floor \in {0, floor}
    BY <2>1, <2>4, DoneType
  <2>6. n \in Shell /\ n.pc \in {"idle", "task"} /\ n.floor \in {0, floor}
        /\ IF SyncedAll(r.i) THEN n.i = 1
           ELSE /\ n.i = r.i + 1 /\ n.pc = "task" /\ n.floor = floor
                /\ Head(n.tasks) = "sync"
    <3>1. CASE SyncedAll(r.i)
      BY <2>5, <3>1
    <3>2. CASE ~SyncedAll(r.i)
      <4> DEFINE m == [q EXCEPT !.i = r.i + 1]
      <4>1. r.i + 1 \in Nat
        BY <2>2
      <4> HIDE DEF q
      <4>2. /\ m \in Shell /\ m.pc = q.pc /\ m.tasks = q.tasks
            /\ m.floor = q.floor /\ m.i = r.i + 1
        BY <2>4, <4>1 DEF Shell
      <4> QED BY <2>1, <2>4, <3>2, <4>2
    <3> QED BY <3>1, <3>2
  <2> HIDE DEF n, q
  <2>7. \A t \in Shells : shell'[t] = IF t = s THEN n ELSE shell[t]
    BY <2>1 DEF Goto, Inv, TypeOK
  <2>8. ASSUME NEW f, NEW w \in Servers, Held(f, w) PROVE Held(f, w)'
    <3>1. w = v => f <= r.jar
      BY <2>1, <2>8 DEF Held
    <3>2. remoteJar'[w] = IF w = v THEN r.jar ELSE remoteJar[w]
      BY <2>1, <2>2
    <3> QED BY <2>6, <2>7, <2>8, <3>1, <3>2 DEF Held
  <2>9. ASSUME NEW f, f = floor, NEW w, w = v PROVE Held(f, w)'
    <3>1. f <= remoteJar'[w]
      BY <2>1, <2>2, <2>3, <2>9
    <3>2. ASSUME NEW t \in Shells, shell'[t].pc = "rsync", All[shell'[t].i] = w
          PROVE  f <= shell'[t].jar
      <4>1. t # s /\ shell'[t] = shell[t]
        BY <2>6, <2>7, <3>2
      <4>2. shell[t].jar \in Nat /\ shell[t].floor # 0 /\ shell[t].floor <= shell[t].jar
            /\ shell[t].floor \in Nat
        BY <3>2, <4>1 DEF Inv, FloorOK, TypeOK, Shell
      <4>3. shell[t].jar < r.floor => OlderUnderWay(s, v, r.floor)
        BY <2>9, <3>2, <4>1 DEF OlderUnderWay
      <4> QED BY <2>2, <2>9, <4>1, <4>2, <4>3
    <3> QED BY <3>1, <3>2 DEF Held
  <2>10. TypeOK' /\ RecordNamesItsServer'
    BY <1>1, <2>1, <2>2, <2>6 DEF Inv, TypeOK, RecordNamesItsServer, Goto
  <2>11. ASSUME NEW j \in DOMAIN All, n.i = 1 \/ j < n.i, NEW g, g = n.floor
         PROVE  Held(g, All[j])'
    <3>1. j \in 1 .. Len(All) /\ All[j] \in Servers /\ j <= r.i
      <4>1. j \in 1 .. Len(All) /\ All[j] \in Servers
        BY <2>11, AppAssumption
      <4>2. CASE SyncedAll(r.i)
        BY <2>2, <4>1, <4>2 DEF SyncedAll
      <4>3. CASE ~SyncedAll(r.i)
        BY <2>2, <2>6, <2>11, <4>1, <4>3
      <4> QED BY <4>1, <4>2, <4>3
    <3>2. ASSUME NEW f \in Nat, NEW h \in Nat, f <= h, NEW w \in Servers, Held(h, w)'
          PROVE  Held(f, w)'
      <4>1. remoteJar'[w] \in Nat /\ \A t \in Shells : shell'[t].jar \in Nat
        BY <2>10 DEF TypeOK, Shell
      <4> QED BY <3>2, <4>1 DEF Held
    <3>3. ASSUME NEW f, f = floor PROVE Held(f, All[j])'
      <4>1. CASE j = r.i
        BY <2>9, <3>3, <4>1
      <4>2. CASE j < r.i
        <5>1. Held(r.floor, All[j])
          BY <1>1, <4>2 DEF FloorOK
        <5>2. ASSUME NEW h, h = r.floor PROVE Held(h, All[j])'
          BY <2>8, <3>1, <5>1, <5>2
        <5> QED BY <2>2, <2>3, <3>1, <3>2, <3>3, <5>2
      <4> QED BY <2>2, <3>1, <4>1, <4>2
    <3> QED BY <2>3, <2>6, <2>11, <3>1, <3>2, <3>3
  <2>12. ASSUME NEW t \in Shells PROVE ShellOK(t)' /\ FloorOK(t)'
    <3>1. ShellOK(t) /\ FloorOK(t)
      BY DEF Inv
    <3>2. ShellOK(t)'
      BY <2>1, <2>6, <2>7, <3>1 DEF ShellOK
    <3>3. CASE t = s
      <4>1. shell'[s] = n /\ n.floor <= localJar
        BY <2>2, <2>3, <2>6, <2>7
      <4> QED BY <2>1, <2>3, <2>6, <2>11, <3>2, <3>3, <4>1 DEF FloorOK
    <3>4. CASE t # s
      BY <2>1, <2>7, <2>8, <3>1, <3>2, <3>4, AppAssumption DEF FloorOK
    <3> QED BY <3>3, <3>4
  <2>13. ASSUME NEW d \in DriverIds PROVE DriverOK(d)' /\ DriverFloorOK(d)'
    BY <2>1, <2>8 DEF Inv, DriverOK, DriverFloorOK, Launched
  <2> QED BY <2>10, <2>12, <2>13 DEF Inv
<1>13. CASE start(s)
  <2>1. PICK d \in DriverIds :
           /\ drivers[d].state = "UNKNOWN"
           /\ drivers' = [drivers EXCEPT ![d].state = "SUBMITTED",
                                         ![d].floor = r.floor]
           /\ Goto(s, [r EXCEPT !.pc = "submitted", !.id = d])
    BY <1>13 DEF start
  <2> DEFINE q == [r EXCEPT !.pc = "submitted", !.id = d]
             e == [drivers[d] EXCEPT !.state = "SUBMITTED", !.floor = r.floor]
  <2>2. r.i = 1 /\ r.pc = "task" /\ UNCHANGED appVars /\ r.floor \in Nat
    BY <1>1, <1>13 DEF start, At, FloorOK, Shell
  <2>3. /\ drivers[d] \in Driver /\ drivers[d].server = None
        /\ drivers[d].jar = 0
    BY <2>1 DEF Inv, TypeOK, DriverOK
  <2>4. /\ e \in Driver /\ e.state = "SUBMITTED" /\ e.server = None
        /\ e.jar = 0 /\ e.floor = r.floor
    BY <2>2, <2>3 DEF Driver, DriverStates
  <2>5. q \in Shell /\ q.pc = "submitted" /\ q.id = d /\ q.i = 1
        /\ q.floor = r.floor
    BY <1>1, <2>2 DEF Shell
  <2>6. Goto(s, q) /\ drivers' = [drivers EXCEPT ![d] = e]
    BY <2>1, <2>3 DEF Inv, TypeOK
  <2> HIDE DEF q, e
  <2>7. \A c \in DriverIds : drivers'[c] = IF c = d THEN e ELSE drivers[c]
    BY <2>6 DEF Inv, TypeOK
  <2>8. TypeOK'
    BY <2>2, <2>4, <2>5, <2>6 DEF Inv, TypeOK, Goto, appVars
  <2>9. /\ r.floor <= localJar
        /\ \A f : f = r.floor => \A v \in Servers : Held(f, v)'
        /\ \A f, v : Held(f, v) => Held(f, v)'
    <3>1. \A f, v : Held(f, v) => Held(f, v)'
      BY <2>2, <2>5, <2>6, HeldStep DEF appVars, Inv
    <3>2. r.floor <= localJar /\ \A v \in Servers : Held(r.floor, v)
      BY <1>1, <2>2, AppAssumption DEF FloorOK
    <3> QED BY <3>1, <3>2
  <2>10. ASSUME NEW c \in DriverIds PROVE DriverOK(c)' /\ DriverFloorOK(c)'
    <3>1. DriverOK(c) /\ DriverFloorOK(c)
      BY DEF Inv
    <3> QED
      BY <2>2, <2>4, <2>7, <2>9, <3>1 DEF DriverOK, DriverFloorOK, Launched, appVars
  <2>11. ASSUME NEW t \in Shells PROVE ShellOK(t)'
    <3>1. shell'[t] = IF t = s THEN q ELSE shell[t]
      BY <2>6 DEF Goto, Inv, TypeOK
    <3>2. ShellOK(t)
      BY DEF Inv
    <3> QED
      BY <2>3, <2>4, <2>5, <2>7, <3>1, <3>2 DEF ShellOK
  <2>12. \A t \in Shells : FloorOK(t)'
    BY <2>2, <2>5, <2>6, FloorStep DEF appVars
  <2>13. RecordNamesItsServer'
    BY <1>1, <2>2, <2>3, <2>4, <2>7
       DEF RecordNamesItsServer, appVars, Record
  <2> QED BY <2>8, <2>10, <2>11, <2>12, <2>13 DEF Inv
<1>14. CASE kill(s)
  <2>1. PICK d \in DriverIds :
           drivers' = IF Alive(d) THEN [drivers EXCEPT ![d].state = "KILLED"]
                      ELSE drivers
    BY <1>14 DEF kill
  <2>2. /\ r.tasks # <<>> /\ r.i = 1 /\ r.pc = "task" /\ Goto(s, Done(r))
        /\ UNCHANGED appVars
    BY <1>1, <1>14 DEF kill, At, FloorOK
  <2>3. \A c \in DriverIds :
           /\ drivers'[c] \in Driver /\ drivers[c] \in Driver
           /\ drivers'[c].server = drivers[c].server
           /\ drivers'[c].jar = drivers[c].jar
           /\ drivers'[c].floor = drivers[c].floor
           /\ drivers'[c].state \in {drivers[c].state, "KILLED"}
    BY <2>1 DEF Inv, TypeOK, Driver, DriverStates
  <2>4. TypeOK'
    BY <1>2, <2>1, <2>2, <2>3 DEF Inv, TypeOK, Goto, appVars
  <2>5. ASSUME NEW c \in DriverIds PROVE DriverOK(c)' /\ DriverFloorOK(c)'
    <3>1. \A f, v : Held(f, v) => Held(f, v)'
      BY <1>2, <2>2, HeldStep DEF appVars, Inv
    <3> QED
      BY <2>2, <2>3, <3>1 DEF Inv, DriverOK, DriverFloorOK, Launched, appVars
  <2>6. ASSUME NEW t \in Shells PROVE ShellOK(t)'
    <3>1. shell'[t] = IF t = s THEN Done(r) ELSE shell[t]
      BY <2>2 DEF Goto, Inv, TypeOK
    <3>2. ShellOK(t)
      BY DEF Inv
    <3> QED
      BY <1>2, <2>2, <2>3, <3>1, <3>2 DEF ShellOK
  <2>7. \A t \in Shells : FloorOK(t)'
    BY <1>2, <2>2, FloorStep DEF appVars
  <2>8. RecordNamesItsServer'
    BY <1>1, <2>2, <2>3 DEF RecordNamesItsServer, appVars, Record
  <2> QED BY <2>4, <2>5, <2>6, <2>7, <2>8 DEF Inv
<1> QED
  BY <1>3, <1>4, <1>5, <1>6, <1>7, <1>8, <1>9, <1>10, <1>11, <1>12,
     <1>13, <1>14      DEF TaskStep

(* So does a step of the Spark Master or of a Worker.                      *)
LEMMA ClusterInv ==
    ASSUME Inv, NEW d \in DriverIds,
           MasterLaunch(d) \/ WorkerCopyJar(d) \/ DriverEnd(d)
    PROVE  Inv'
<1> DEFINE c == drivers[d]
<1>1. c \in Driver /\ DriverOK(d) /\ DriverFloorOK(d) /\ c.floor \in Nat
  BY DEF Inv, TypeOK, Driver
<1>2. CASE MasterLaunch(d)
  <2>1. PICK v \in Servers :
           drivers' = [drivers EXCEPT ![d].state = "RUNNING", ![d].server = v]
    BY <1>2 DEF MasterLaunch
  <2> DEFINE e == [c EXCEPT !.state = "RUNNING", !.server = v]
  <2>2. c.server = None /\ c.jar = 0 /\ UNCHANGED <<appVars, shell>>
    BY <1>1, <1>2 DEF MasterLaunch, DriverOK
  <2>3. /\ e \in Driver /\ e.state = "RUNNING" /\ e.server = v /\ e.jar = 0
        /\ e.floor = c.floor
    BY <1>1, <2>2 DEF Driver, DriverStates
  <2>4. drivers' = [drivers EXCEPT ![d] = e]
    BY <2>1 DEF Inv, TypeOK
  <2> HIDE DEF e
  <2> QED BY <2>2, <2>3, <2>4, DriverStep
<1>3. CASE WorkerCopyJar(d)
  <2> DEFINE jar == remoteJar[c.server]
             e   == [c EXCEPT !.jar = jar,
                              !.state = IF jar = 0 THEN "ERROR" ELSE c.state]
  <2>1. c.state = "RUNNING" /\ UNCHANGED <<appVars, shell>>
    BY <1>3 DEF WorkerCopyJar
  <2>2. c.server \in Servers /\ jar \in Nat /\ c.floor <= jar
    BY <1>1, <2>1 DEF DriverOK, DriverFloorOK, Held, Launched, Inv, TypeOK
  <2>3. /\ e \in Driver /\ e.state \in {"RUNNING", "ERROR"} /\ e.jar = jar
        /\ e.server = c.server /\ e.floor = c.floor
    BY <1>1, <2>1, <2>2 DEF Driver, DriverStates
  <2>4. drivers' = [drivers EXCEPT ![d] = e]
    BY <1>3 DEF WorkerCopyJar, Inv, TypeOK
  <2> HIDE DEF e
  <2> QED BY <2>1, <2>2, <2>3, <2>4, DriverStep
<1>4. CASE DriverEnd(d)
  <2>1. PICK st \in {"FINISHED", "FAILED", "ERROR"} :
           drivers' = [drivers EXCEPT ![d].state = st]
    BY <1>4 DEF DriverEnd
  <2> DEFINE e == [c EXCEPT !.state = st]
  <2>2. UNCHANGED <<appVars, shell>>
    BY <1>4 DEF DriverEnd
  <2>3. /\ e \in Driver /\ e.state = st /\ e.jar = c.jar
        /\ e.server = c.server /\ e.floor = c.floor
    BY <1>1 DEF Driver, DriverStates
  <2>4. drivers' = [drivers EXCEPT ![d] = e]
    BY <2>1 DEF Inv, TypeOK
  <2>5. c.floor <= c.jar
    BY <1>1, <1>4 DEF DriverFloorOK, Launched, DriverEnd
  <2> HIDE DEF e
  <2> QED BY <2>1, <2>2, <2>3, <2>4, <2>5, DriverStep
<1> QED BY <1>2, <1>3, <1>4

LEMMA StutterInv == ASSUME Inv, UNCHANGED vars PROVE Inv'
BY DEF Inv, TypeOK, ShellOK, FloorOK, Held, DriverOK, DriverFloorOK, Launched,
       RecordNamesItsServer, vars

(* The inductive invariant holds in every behaviour of the tasks.          *)
THEOREM Invariance == Spec => []Inv
<1>1. Init => Inv
  BY InitInv
<1>2. Inv /\ [Next]_vars => Inv'
  BY TaskInv, ClusterInv, StutterInv DEF Next
<1> QED BY <1>1, <1>2, PTL DEF Spec

(* Files, record, driver table and shells keep their types: in particular  *)
(* a record always names a driver and a server.                            *)
THEOREM TypeCorrect == Spec => []TypeOK
<1>1. Inv => TypeOK
  BY DEF Inv
<1> QED BY <1>1, Invariance, PTL

(* However builds, rsyncs and starts of any number of shells interleave,   *)
(* no launch finds a JAR older than the one its own invocation had         *)
(* synchronised, unless another shell's rsync of an older one was still    *)
(* under way; and no launch after a sync finds none.                       *)
THEOREM NeverStale == Spec => []NoStaleLaunch
<1>1. Inv => NoStaleLaunch
  BY DEF Inv, DriverFloorOK, NoStaleLaunch
<1> QED BY <1>1, Invariance, PTL

(* lastJobStarted.pickle always pairs a driver with the server it was      *)
(* launched on.                                                            *)
THEOREM RecordCorrect == Spec => []RecordNamesItsServer
<1>1. Inv => RecordNamesItsServer
  BY DEF Inv
<1> QED BY <1>1, Invariance, PTL

-----------------------------------------------------------------------------
(* Only a shell that may be asked for output has getOutput among its       *)
(* tasks, and what the first copy wrote is still there at the second.      *)
Asked(s) == \A k \in 1..Len(shell[s].tasks) :
                shell[s].tasks[k] = "getOutput" => Fetches(s)
Copied(s) == shell[s].pc = "stderr" => /\ shell[s].tasks # <<>>
                                       /\ Head(shell[s].tasks) = "getOutput"
                                       /\ output["stdout"] = shell[s].id
OutputInv == \A s \in Shells : Asked(s) /\ Copied(s)

LEMMA HeadAsked ==
    ASSUME TypeOK, NEW s \in Shells, Asked(s), shell[s].tasks # <<>>,
           Head(shell[s].tasks) = "getOutput"
    PROVE  Fetches(s)
<1>1. shell[s].tasks \in Seq(Tasks)
  BY DEF TypeOK, Shell
<1>2. 1 \in 1..Len(shell[s].tasks) /\ shell[s].tasks[1] = "getOutput"
  BY <1>1
<1> QED BY <1>2 DEF Asked

(* A step that moves one shell and leaves its tasks, or ends the first.    *)
LEMMA ShellOutput ==
    ASSUME TypeOK, OutputInv, NEW s \in Shells, NEW r, Goto(s, r),
           \/ r.tasks = shell[s].tasks \/ r = Idle
           \/ shell[s].tasks # <<>> /\ r.tasks = Tail(shell[s].tasks),
           output'["stdout"] = output["stdout"], r.pc # "stderr"
    PROVE  OutputInv'
<1> SUFFICES ASSUME NEW t \in Shells PROVE Asked(t)' /\ Copied(t)'
  BY DEF OutputInv
<1>1. shell'[t] = IF t = s THEN r ELSE shell[t]
  BY DEF Goto, TypeOK
<1>2. Asked(t) /\ Copied(t)
  BY DEF OutputInv
<1>3. CASE t # s \/ r.tasks = shell[s].tasks
  BY <1>1, <1>2, <1>3 DEF Asked, Copied
<1>4. CASE t = s /\ r = Idle
  BY <1>1, <1>4 DEF Asked, Copied, Idle
<1>5. CASE t = s /\ shell[s].tasks # <<>> /\ r.tasks = Tail(shell[s].tasks)
  <2>1. shell[s].tasks \in Seq(Tasks)
    BY DEF TypeOK, Shell
  <2>2. \A k \in 1..Len(r.tasks) : /\ k + 1 \in 1..Len(shell[s].tasks)
                                    /\ r.tasks[k] = shell[s].tasks[k + 1]
    BY <1>5, <2>1
  <2> QED BY <1>1, <1>2, <1>5, <2>2 DEF Asked, Copied
<1> QED BY <1>3, <1>4, <1>5

LEMMA OutputStep ==
    ASSUME OneFetcher, Inv, OutputInv, [Next]_vars PROVE OutputInv'
<1>1. TypeOK
  BY DEF Inv
<1>2. ASSUME UNCHANGED <<shell, output>> PROVE OutputInv'
  BY <1>2 DEF OutputInv, Asked, Copied
<1>3. ASSUME NEW s \in Shells, Invoke(s) PROVE OutputInv'
  <2>1. PICK inv \in Invocations[s] : Goto(s, [Idle EXCEPT !.pc = "task", !.tasks = inv])
    BY <1>3 DEF Invoke
  <2>2. ASSUME NEW t \in Shells PROVE Asked(t)' /\ Copied(t)'
    <3>1. shell'[t] = IF t = s THEN [Idle EXCEPT !.pc = "task", !.tasks = inv] ELSE shell[t]
      BY <1>1, <2>1 DEF Goto, TypeOK
    <3>2. Asked(t) /\ Copied(t) /\ output' = output
      BY <1>3 DEF OutputInv, Invoke, appVars
    <3>3. \A k \in 1..Len(inv) : inv[k] = "getOutput" => Fetches(s)
      BY DEF Fetches
    <3>4. CASE t = s
      BY <3>1, <3>3, <3>4 DEF Asked, Copied, Idle
    <3>5. CASE t # s
      BY <3>1, <3>2, <3>5 DEF Asked, Copied
    <3> QED BY <3>4, <3>5
  <2> QED BY <2>2 DEF OutputInv
<1>4. ASSUME NEW s \in Shells, getOutput(s) PROVE OutputInv'
  <2>1. PICK d \in DriverIds, v \in Servers :
           /\ output' = [output EXCEPT !["stdout"] = d]
           /\ Goto(s, [shell[s] EXCEPT !.pc = "stderr", !.id = d, !.server = v])
    BY <1>4 DEF getOutput
  <2>2. /\ shell[s] \in Shell /\ shell[s].tasks # <<>>
        /\ Head(shell[s].tasks) = "getOutput" /\ output'["stdout"] = d
    BY <1>1, <1>4, <2>1 DEF getOutput, At, TypeOK
  <2>3. Fetches(s)
    BY <1>1, <2>2, HeadAsked DEF OutputInv
  <2>4. ASSUME NEW t \in Shells PROVE Asked(t)' /\ Copied(t)'
    <3>1. shell'[t] = IF t = s THEN [shell[s] EXCEPT !.pc = "stderr", !.id = d, !.server = v]
                      ELSE shell[t]
      BY <1>1, <2>1 DEF Goto, TypeOK
    <3>2. Asked(t) /\ Copied(t)
      BY DEF OutputInv
    <3>3. CASE t = s
      <4>1. shell'[t].tasks = shell[s].tasks /\ shell'[t].id = d
        BY <2>2, <3>1, <3>3 DEF Shell
      <4> QED BY <2>2, <3>2, <3>3, <4>1 DEF Asked, Copied
    <3>4. CASE t # s
      <4>1. shell[t].pc # "stderr"
        BY <1>1, <2>3, <3>2, <3>4, HeadAsked DEF Copied, OneFetcher
      <4> QED BY <3>1, <3>2, <3>4, <4>1 DEF Asked, Copied
    <3> QED BY <3>3, <3>4
  <2> QED BY <2>4 DEF OutputInv
<1>5. ASSUME NEW s \in Shells, TaskStep(s), ~ getOutput(s) PROVE OutputInv'
  <2>1. shell[s] \in Shell /\ output \in [{"stdout", "stderr"} -> DriverIds \cup {None}]
    BY <1>1 DEF TypeOK
  <2>2. output'["stdout"] = output["stdout"]
    BY <1>5, <2>1
    DEF TaskStep, assembly, sync, syncRename, start, startStatus, startOpen, startDump, kill,
        getOutputStderr, abort, appVars
  <2>3. /\ Idle.pc = "idle"
        /\ \A q : Done(q).pc # "stderr" /\ Done(q).tasks = Tail(q.tasks)
    BY DEF Idle, Done
  <2>4. CASE abort(s)
    BY <1>1, <2>2, <2>3, <2>4, ShellOutput DEF abort
  <2>5. CASE assembly(s) \/ startDump(s) \/ kill(s) \/ getOutputStderr(s)
    BY <1>1, <2>2, <2>3, <2>5, ShellOutput DEF assembly, startDump, kill, getOutputStderr, At
  <2>6. CASE start(s) \/ startOpen(s)
    <3>1. PICK r : /\ Goto(s, r)
                   /\ \/ \E d : r = [shell[s] EXCEPT !.pc = "submitted", !.id = d]
                      \/ r = [shell[s] EXCEPT !.pc = "dump"]
      BY <2>6 DEF start, startOpen
    <3>2. r.tasks = shell[s].tasks /\ r.pc # "stderr"
      BY <2>1, <3>1 DEF Shell
    <3> QED BY <1>1, <2>2, <3>1, <3>2, ShellOutput
  <2>7. CASE startStatus(s)
    <3>1. CASE Recorded(drivers[shell[s].id].state)
      <4>1. PICK r : /\ Goto(s, r)
                     /\ \E v : r = [shell[s] EXCEPT !.pc = "open", !.server = v]
        BY <2>7, <3>1 DEF startStatus
      <4>2. r.tasks = shell[s].tasks /\ r.pc # "stderr"
        BY <2>1, <4>1 DEF Shell
      <4> QED BY <1>1, <2>2, <4>1, <4>2, ShellOutput
    <3>2. CASE ~ Recorded(drivers[shell[s].id].state)
      BY <1>1, <2>2, <2>3, <2>7, <3>2, ShellOutput DEF startStatus, At
    <3> QED BY <3>1, <3>2
  <2>8. CASE sync(s)
    <3>1. PICK r : /\ Goto(s, r)
                   /\ \E j, f : r = [shell[s] EXCEPT !.pc = "rsync", !.jar = j, !.floor = f]
      BY <2>8 DEF sync
    <3>2. r.tasks = shell[s].tasks /\ r.pc # "stderr"
      BY <2>1, <3>1 DEF Shell
    <3> QED BY <1>1, <2>2, <3>1, <3>2, ShellOutput
  <2>9. CASE syncRename(s)
    <3>1. PICK q : /\ \E f : q = [shell[s] EXCEPT !.pc = "task", !.jar = 0, !.floor = f]
                   /\ Goto(s, IF SyncedAll(shell[s].i) THEN Done(q)
                              ELSE [q EXCEPT !.i = shell[s].i + 1])
      BY <2>9 DEF syncRename
    <3>2. q.tasks = shell[s].tasks /\ q.pc = "task" /\ shell[s].tasks # <<>>
      BY <2>1, <2>9, <3>1 DEF Shell, syncRename, At
    <3>3. CASE SyncedAll(shell[s].i)
      <4>1. Goto(s, Done(q)) /\ Done(q).pc # "stderr" /\ Done(q).tasks = Tail(shell[s].tasks)
        BY <2>3, <3>1, <3>2, <3>3
      <4> QED BY <1>1, <2>2, <3>2, <4>1, ShellOutput
    <3>4. CASE ~ SyncedAll(shell[s].i)
      <4>1. PICK r : Goto(s, r) /\ r = [q EXCEPT !.i = shell[s].i + 1]
        BY <3>1, <3>4
      <4>2. r.tasks = shell[s].tasks /\ r.pc # "stderr"
        BY <2>1, <3>1, <3>2, <4>1 DEF Shell
      <4> QED BY <1>1, <2>2, <4>1, <4>2, ShellOutput
    <3> QED BY <3>3, <3>4
  <2> QED BY <1>5, <2>4, <2>5, <2>6, <2>7, <2>8, <2>9
          DEF TaskStep
<1>6. ASSUME NEW d \in DriverIds, MasterLaunch(d) \/ WorkerCopyJar(d) \/ DriverEnd(d)
      PROVE  OutputInv'
  BY <1>2, <1>6 DEF MasterLaunch, WorkerCopyJar, DriverEnd, appVars
<1> QED BY <1>2, <1>3, <1>4, <1>5, <1>6 DEF Next, vars

(* When one shell fetches output, both files that getOutput leaves are of  *)
(* one driver, whatever the other shells start and record in between.      *)
THEOREM OutputsMatch == ASSUME OneFetcher PROVE Spec => OutputFilesMatch
<1>1. ASSUME Init PROVE OutputInv
  <2>1. Idle.tasks = <<>> /\ Idle.pc = "idle" /\ \A s \in Shells : shell[s] = Idle
    BY <1>1 DEF Init, Idle
  <2>2. ASSUME NEW s \in Shells PROVE Asked(s)
    <3>1. shell[s].tasks = <<>>
      BY <2>1
    <3>2. 1..Len(shell[s].tasks) = {}
      BY <3>1
    <3> QED BY <3>2 DEF Asked
  <2> QED BY <2>1, <2>2 DEF OutputInv, Copied
<1>2. Inv /\ OutputInv /\ [Next]_vars => OutputInv'
  BY OutputStep
<1>3. ASSUME Inv, OutputInv, NEW s \in Shells, getOutputStderr(s)
      PROVE  output'["stdout"] = output'["stderr"]
  <2>1. shell[s].pc = "stderr" /\ output' = [output EXCEPT !["stderr"] = shell[s].id]
    BY <1>3 DEF getOutputStderr, At, StderrOf
  <2> QED BY <1>3, <2>1 DEF Inv, TypeOK, OutputInv, Copied
<1>4. Inv /\ OutputInv /\ [Next]_vars =>
        [\A s \in Shells : getOutputStderr(s) => output'["stdout"] = output'["stderr"]]_vars
  BY <1>3
<1> QED BY <1>1, <1>2, <1>4, Invariance, PTL DEF Spec, OutputFilesMatch
=============================================================================
