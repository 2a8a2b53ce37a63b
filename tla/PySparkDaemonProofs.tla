------------------------ MODULE PySparkDaemonProofs ------------------------
(***************************************************************************)
(* Proofs about PySparkDaemon for every pool size, any number of clients   *)
(* and any disturbances.                                                   *)
(***************************************************************************)
EXTENDS PySparkDaemon, TLAPS

(* A worker that took a client after shutdown began is on its way to the   *)
(* check that ends it.                                                     *)
LateOK(w) ==
    late[w] # 0 => /\ late[w] = 1 /\ flag = TRUE
                   /\ worker[w] \in {"fork", "check"} \cup Ended

Inv == TypeOK /\ \A w \in Workers : LateOK(w)

LEMMA InitInv == ASSUME Init PROVE Inv
<1>1. TypeOK
  BY DEF Init, TypeOK
<1> QED BY <1>1 DEF Init, Inv, LateOK

(* What a SIGCHLD leaves of the manager.                                   *)
LEMMA SigchldType ==
    ASSUME TypeOK, NEW crash \in BOOLEAN, sigchld(crash)
    PROVE  /\ mgr' \in {"launch", "init", "check", "read", "blocked", "final",
                        "hup", "dead", "aborted"}
           /\ pending' \subseteq {"term", "crash"}
BY DEF TypeOK, sigchld

(* A worker moves to pc and neither takes a client nor forks.              *)
LEMMA WorkerMove ==
    ASSUME Inv, NEW w \in Workers,
           NEW pc \in {"boot", "check", "accept", "blocked"} \cup Ended,
           worker' = [worker EXCEPT ![w] = pc], worker[w] # "fork",
           late[w] # 0 => pc \in {"check"} \cup Ended,
           UNCHANGED <<flag, stdin, sock, client, owner, late>>,
           mgr' \in {"launch", "init", "check", "read", "blocked", "final",
                     "hup", "dead", "aborted"},
           pending' \subseteq {"term", "crash"}
    PROVE  Inv'
<1>1. TypeOK'
  BY DEF Inv, TypeOK, Ended
<1>2. ASSUME NEW v \in Workers PROVE LateOK(v)'
  <2>1. worker'[v] = IF v = w THEN pc ELSE worker[v]
    BY DEF Inv, TypeOK
  <2> QED BY <2>1 DEF Inv, LateOK
<1> QED BY <1>1, <1>2 DEF Inv
-----------------------------------------------------------------------------
(* The manager's steps.                                                    *)
LEMMA ManagerInv == ASSUME Inv, Manager PROVE Inv'
<1>1. ASSUME NEW w \in Workers, launch_worker(w) PROVE Inv'
  <2>1. late[w] = 0
    BY <1>1 DEF launch_worker, Inv, LateOK, Ended
  <2> QED
    BY <1>1, <2>1, WorkerMove DEF launch_worker, mgrVars, Inv, TypeOK
<1>2. CASE installHandlers \/ announce \/ mgrCheck \/ readBlock
  <2>1. /\ mgr' \in {"init", "check", "final", "read", "blocked"}
        /\ UNCHANGED <<pending, flag, stdin, worker, sock, client, owner, late>>
    BY <1>2 DEF installHandlers, announce, mgrCheck, readBlock
  <2> QED BY <2>1 DEF Inv, TypeOK, LateOK
<1>3. CASE readEof
  <2>1. flag' \in BOOLEAN /\ flag' = TRUE
    BY <1>3 DEF readEof, FlagOnEof
  <2>2. /\ mgr' = "check" /\ pending' = {}
        /\ UNCHANGED <<stdin, worker, sock, client, owner, late>>
    BY <1>3 DEF readEof
  <2>3. TypeOK'
    BY <2>1, <2>2 DEF Inv, TypeOK
  <2> QED BY <2>1, <2>2, <2>3 DEF Inv, LateOK
<1>4. CASE finalFlag
  <2>1. flag' \in BOOLEAN /\ flag' = TRUE
    BY <1>4 DEF finalFlag
  <2>2. mgr' = "hup" /\ UNCHANGED <<pending, stdin, worker, sock, client, owner, late>>
    BY <1>4 DEF finalFlag
  <2>3. TypeOK'
    BY <2>1, <2>2 DEF Inv, TypeOK
  <2> QED BY <2>1, <2>2, <2>3 DEF Inv, LateOK
<1>5. CASE killHup
  <2>1. /\ mgr' = "dead"
        /\ UNCHANGED <<pending, flag, stdin, sock, owner, late>>
    BY <1>5 DEF killHup
  <2>2. /\ worker' \in [Workers -> {"none", "boot", "check", "accept", "blocked",
                                    "fork"} \cup Ended]
        /\ \A w \in Workers : worker'[w] = "fork" <=> worker[w] = "fork"
        /\ \A w \in Workers : worker[w] \in {"fork", "check"} \cup Ended =>
                                 worker'[w] = worker[w]
    BY <1>5 DEF killHup, Inv, TypeOK, Ended
  <2>3. client' \in [Clients -> {"idle", "backlog", "accepted", "child", "task",
                                 "unsent", "answered", "closed", "done", "reset"}]
    BY <1>5 DEF killHup, Inv, TypeOK
  <2>4. TypeOK'
    BY <2>1, <2>2, <2>3 DEF Inv, TypeOK
  <2>5. ASSUME NEW w \in Workers PROVE LateOK(w)'
    BY <2>1, <2>2 DEF Inv, LateOK
  <2> QED BY <2>4, <2>5 DEF Inv
<1> QED BY <1>1, <1>2, <1>3, <1>4, <1>5 DEF Manager

(* The steps of a pool worker.                                             *)
LEMMA WorkerInv ==
    ASSUME Inv, NEW w \in Workers, Worker(w) \/ workerCrash(w)
    PROVE  Inv'
<1>1. TypeOK /\ LateOK(w)
  BY DEF Inv
<1>2. CASE workerBoot(w)
  BY <1>1, <1>2, WorkerMove DEF workerBoot, mgrVars, TypeOK
<1>3. CASE workerCheck(w)
  <2>1. CASE flag = TRUE
    <3>1. AfterCheck(w) = "exited" /\ sigchld(FALSE)
      BY <1>3, <2>1 DEF workerCheck, AfterCheck
    <3>2. /\ mgr' \in {"launch", "init", "check", "read", "blocked", "final",
                       "hup", "dead", "aborted"}
          /\ pending' \subseteq {"term", "crash"}
      BY <1>1, <3>1, SigchldType
    <3> QED
      BY <1>3, <3>1, <3>2, WorkerMove DEF workerCheck, Ended
  <2>2. CASE flag # TRUE
    <3>1. AfterCheck(w) = "accept" /\ late[w] = 0
      BY <1>1, <2>2 DEF AfterCheck, LateOK, TypeOK
    <3> QED
      BY <1>1, <1>3, <3>1, WorkerMove DEF workerCheck, TypeOK
  <2> QED BY <2>1, <2>2
<1>4. CASE acceptBlock(w)
  <2>1. late[w] = 0
    BY <1>1, <1>4 DEF acceptBlock, LateOK, Ended
  <2> QED
    BY <1>1, <1>4, <2>1, WorkerMove DEF acceptBlock, mgrVars, TypeOK
<1>5. CASE accept(w)
  <2>1. PICK c \in Clients :
           /\ client' = [client EXCEPT ![c] = "accepted"]
           /\ sock' = [sock EXCEPT ![w] = c]
    BY <1>5 DEF accept
  <2>2. /\ worker' = [worker EXCEPT ![w] = "fork"]
        /\ late' = [late EXCEPT ![w] = IF flag THEN late[w] + 1 ELSE late[w]]
        /\ UNCHANGED <<mgr, pending, stdin, flag, owner>>
    BY <1>5 DEF accept, mgrVars
  <2>3. late[w] = 0
    BY <1>1, <1>5 DEF accept, LateOK, Ended
  <2>4. late'[w] \in {0, 1} /\ (late'[w] = 1 => flag = TRUE)
        /\ \A v \in Workers \ {w} : late'[v] = late[v]
    BY <1>1, <2>2, <2>3 DEF TypeOK
  <2>5. c # None
    BY DaemonAssumption
  <2>6. late' \in [Workers -> Nat]
    BY <1>1, <2>2, <2>3 DEF TypeOK
  <2>7. TypeOK'
    BY <1>1, <2>1, <2>2, <2>5, <2>6 DEF TypeOK
  <2>8. ASSUME NEW v \in Workers PROVE LateOK(v)'
    <3>1. worker'[v] = IF v = w THEN "fork" ELSE worker[v]
      BY <1>1, <2>2 DEF TypeOK
    <3> QED BY <2>2, <2>4, <3>1 DEF Inv, LateOK
  <2> QED BY <2>7, <2>8 DEF Inv
<1>6. CASE fork(w)
  <2>1. sock[w] \in Clients
    BY <1>1, <1>6 DEF fork, TypeOK
  <2>2. /\ client' = [client EXCEPT ![sock[w]] = "child"]
        /\ owner' = [owner EXCEPT ![sock[w]] = w]
        /\ sock' = [sock EXCEPT ![w] = None]
        /\ worker' = [worker EXCEPT ![w] = "check"]
        /\ UNCHANGED <<mgr, pending, stdin, flag, late>>
    BY <1>6 DEF fork, mgrVars, ForkForClient, SockAfterFork
  <2>3. TypeOK'
    BY <1>1, <2>1, <2>2 DEF TypeOK
  <2>4. ASSUME NEW v \in Workers PROVE LateOK(v)'
    <3>1. worker'[v] = IF v = w THEN "check" ELSE worker[v]
      BY <1>1, <2>2 DEF TypeOK
    <3> QED BY <2>2, <3>1 DEF Inv, LateOK
  <2> QED BY <2>3, <2>4 DEF Inv
<1>7. CASE workerCrash(w)
  <2>1. /\ worker' = [worker EXCEPT ![w] = "crashed"]
        /\ sock' = [sock EXCEPT ![w] = None]
        /\ UNCHANGED <<flag, stdin, owner, late>>
    BY <1>7 DEF workerCrash
  <2>2. client' \in [Clients -> {"idle", "backlog", "accepted", "child", "task",
                                 "unsent", "answered", "closed", "done", "reset"}]
    BY <1>1, <1>7 DEF workerCrash, TypeOK
  <2>3. /\ mgr' \in {"launch", "init", "check", "read", "blocked", "final",
                     "hup", "dead", "aborted"}
        /\ pending' \subseteq {"term", "crash"}
    BY <1>1, <1>7, SigchldType DEF workerCrash
  <2>4. TypeOK'
    BY <1>1, <2>1, <2>2, <2>3 DEF TypeOK, Ended
  <2>5. ASSUME NEW v \in Workers PROVE LateOK(v)'
    <3>1. worker'[v] = IF v = w THEN "crashed" ELSE worker[v]
      BY <1>1, <2>1 DEF TypeOK
    <3> QED BY <2>1, <3>1 DEF Inv, LateOK, Ended
  <2> QED BY <2>4, <2>5 DEF Inv
<1> QED BY <1>2, <1>3, <1>4, <1>5, <1>6, <1>7 DEF Worker

(* The steps of children, of Spark and of the kernel.                      *)
LEMMA ClientInv ==
    ASSUME Inv, NEW c \in Clients,
           Child(c) \/ connect(c) \/ closeSocket(c) \/ refuse(c)
    PROVE  Inv'
<1>1. PICK st \in {"backlog", "task", "unsent", "answered", "closed", "done", "reset"} :
         client' = [client EXCEPT ![c] = st]
  BY DEF Child, leavePool, worker_main, flush, AfterMain, waitSocketClose,
         ChildStep, connect, closeSocket, refuse
<1>2. UNCHANGED <<mgr, pending, stdin, flag, sock, owner, late>>
  BY DEF Child, leavePool, worker_main, flush, waitSocketClose, ChildStep,
         connect, closeSocket, refuse, mgrVars
<1>3. \/ worker' = worker
      \/ worker' = [worker EXCEPT ![owner[c]] =
                       IF worker[owner[c]] = "blocked" THEN "check"
                       ELSE worker[owner[c]]]
  BY DEF Child, leavePool, worker_main, flush, waitSocketClose, ChildStep,
         connect, closeSocket, refuse
<1>4. /\ worker' \in [Workers -> {"none", "boot", "check", "accept", "blocked",
                                  "fork"} \cup Ended]
      /\ \A w \in Workers : \/ worker'[w] = worker[w]
                            \/ worker[w] = "blocked" /\ worker'[w] = "check"
  BY <1>3 DEF Inv, TypeOK
<1>5. TypeOK'
  BY <1>1, <1>2, <1>4 DEF Inv, TypeOK
<1>6. ASSUME NEW w \in Workers PROVE LateOK(w)'
  BY <1>2, <1>4 DEF Inv, LateOK, Ended
<1> QED BY <1>5, <1>6 DEF Inv

LEMMA OutsideInv == ASSUME Inv, closeStdin \/ sigterm PROVE Inv'
<1>1. CASE closeStdin
  BY <1>1 DEF closeStdin, Inv, TypeOK, LateOK
<1>2. CASE sigterm
  <2>1. flag' = TRUE \/ flag' = flag
    BY <1>2 DEF sigterm
  <2>2. flag' \in BOOLEAN
    BY <2>1 DEF Inv, TypeOK
  <2>3. /\ mgr' \in {"launch", "init", "check", "read", "blocked", "final",
                     "hup", "dead", "aborted"}
        /\ pending' \subseteq {"term", "crash"}
    BY <1>2 DEF sigterm, Inv, TypeOK
  <2>4. UNCHANGED <<stdin, worker, sock, client, owner, late>>
    BY <1>2 DEF sigterm
  <2>5. TypeOK'
    BY <2>2, <2>3, <2>4 DEF Inv, TypeOK
  <2> QED BY <2>1, <2>4, <2>5 DEF Inv, LateOK
<1> QED BY <1>1, <1>2

(* The inductive invariant of the daemon.                                  *)
THEOREM Invariance == Spec => []Inv
<1>1. Init => Inv
  BY InitInv
<1>2. Inv /\ [Next]_vars => Inv'
  <2>1. Inv /\ UNCHANGED vars => Inv'
    BY DEF vars, Inv, TypeOK, LateOK
  <2> QED BY <2>1, ManagerInv, WorkerInv, ClientInv, OutsideInv DEF Next
<1> QED BY <1>1, <1>2, PTL DEF Spec

(* After shutdown began a worker accepts at most one more client, whatever *)
(* the pool size and however many clients are waiting.                     *)
THEOREM ShutdownDrains == Spec => []AtMostOneLate
<1>1. Inv => AtMostOneLate
  <2> SUFFICES ASSUME Inv, NEW w \in Workers PROVE late[w] <= 1
    BY DEF AtMostOneLate
  <2>1. late[w] = 0 \/ late[w] = 1
    BY DEF Inv, LateOK
  <2> QED BY <2>1
<1> QED BY <1>1, Invariance, PTL

(* No accepted client is dropped except by its worker's crash.             *)
THEOREM AcceptedServed == Spec => AcceptedIsServed
<1> DEFINE Served(c) ==
      client[c] = "accepted" /\ client'[c] # "accepted" =>
         \/ client'[c] = "child"
         \/ \E w \in Workers : sock[w] = c /\ worker'[w] = "crashed"
<1>1. Inv /\ [Next]_vars => [\A c \in Clients : Served(c)]_vars
  <2> SUFFICES ASSUME Inv, Next, NEW c \in Clients PROVE Served(c)
    OBVIOUS
  <2>1. /\ client \in [Clients -> {"idle", "backlog", "accepted", "child", "task",
                                   "unsent", "answered", "closed", "done", "reset"}]
        /\ worker \in [Workers -> {"none", "boot", "check", "accept", "blocked",
                                   "fork"} \cup Ended]
    BY DEF Inv, TypeOK
  <2>2. CASE Manager
    BY <2>1, <2>2
       DEF Manager, launch_worker, installHandlers, announce, mgrCheck,
           readBlock, readEof, finalFlag, killHup
  <2>3. ASSUME NEW w \in Workers, Worker(w) PROVE Served(c)
    BY <2>1, <2>3
       DEF Worker, workerBoot, workerCheck, acceptBlock, accept, fork,
           ForkForClient
  <2>4. ASSUME NEW w \in Workers, workerCrash(w) PROVE Served(c)
    BY <2>1, <2>4 DEF workerCrash
  <2>5. ASSUME NEW d \in Clients,
               Child(d) \/ connect(d) \/ closeSocket(d) \/ refuse(d)
        PROVE  Served(c)
    BY <2>1, <2>5
       DEF Child, leavePool, worker_main, flush, waitSocketClose, ChildStep,
           connect, closeSocket, refuse
  <2>6. CASE closeStdin \/ sigterm
    BY <2>6 DEF closeStdin, sigterm
  <2> QED BY <2>2, <2>3, <2>4, <2>5, <2>6 DEF Next
<1> QED BY <1>1, Invariance, PTL DEF Spec, AcceptedIsServed
=============================================================================
