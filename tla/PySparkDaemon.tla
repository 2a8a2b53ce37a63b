--------------------------- MODULE PySparkDaemon ---------------------------
(***************************************************************************)
(* pyspark/daemon.py: the manager process, its pool of pre-forked workers  *)
(* that share one listening socket, and the child each worker forks for a  *)
(* client.  Shutdown goes by an exit flag in shared memory and signals.    *)
(*                                                                         *)
(* CPython runs a signal handler between two bytecodes.  A signal that     *)
(* finds the process blocked in a system call ends the call with EINTR; a  *)
(* signal that comes when the process is already committed to the call but *)
(* not yet blocked ("read", "accept") is handled only when the call        *)
(* returns.                                                                *)
(***************************************************************************)
EXTENDS Naturals

CONSTANTS Workers, \* the pool: POOLSIZE processes
          Clients, \* connections the Scala side makes over the daemon's life
          Events,  \* the disturbances considered
          None     \* no client

ASSUME DaemonAssumption ==
    None \notin Clients /\ Events \subseteq {"sigterm", "crash"}

VARIABLES mgr,     \* where the manager stands
          pending, \* signals the manager has yet to handle
          flag,    \* exit_flag, shared by all processes
          stdin,   \* the manager's stdin, closed by Spark to end the daemon
          worker,  \* where each worker stands; an ended one by its end
          sock,    \* the client a worker has accepted and not yet forked for
          client,  \* what became of each connection
          owner,   \* the worker that forked the child of a client
          late     \* clients a worker accepted after the exit flag was set

mgrVars == <<mgr, pending, stdin>>
vars    == <<mgr, pending, flag, stdin, worker, sock, client, owner, late>>

Ended == {"exited", "crashed", "killed"}

(* "aborted": the manager died before it announced the port.  A worker     *)
(* holds a client's socket exactly from accept to fork.                    *)
TypeOK ==
    /\ mgr \in {"launch", "init", "check", "read", "blocked", "final", "hup",
                "dead", "aborted"}
    /\ pending \subseteq {"term", "crash"}
    /\ flag \in BOOLEAN
    /\ stdin \in {"open", "closed"}
    /\ worker \in [Workers -> {"none", "boot", "check", "accept", "blocked",
                               "fork"} \cup Ended]
    /\ sock \in [Workers -> Clients \cup {None}]
    /\ client \in [Clients -> {"idle", "backlog", "accepted", "child", "task",
                               "unsent", "answered", "closed", "done", "reset"}]
    /\ owner \in [Clients -> Workers \cup {None}]
    /\ late \in [Workers -> Nat]
    /\ \A w \in Workers : sock[w] # None <=> worker[w] = "fork"

Init ==
    /\ mgr = "launch" /\ pending = {} /\ flag = FALSE /\ stdin = "open"
    /\ worker = [w \in Workers |-> "none"]
    /\ sock = [w \in Workers |-> None]
    /\ client = [c \in Clients |-> "idle"]
    /\ owner = [c \in Clients |-> None]
    /\ late = [w \in Workers |-> 0]

Gone(w) == worker[w] \in Ended \cup {"none"}
-----------------------------------------------------------------------------
(* The manager.  The pool is forked before any handler is installed.       *)
launch_worker(w) ==
    /\ mgr = "launch" /\ worker[w] = "none"
    /\ worker' = [worker EXCEPT ![w] = "boot"]
    /\ UNCHANGED <<mgrVars, flag, sock, client, owner, late>>

installHandlers ==
    /\ mgr = "launch" /\ \A w \in Workers : worker[w] # "none"
    /\ mgr' = "init"
    /\ UNCHANGED <<pending, flag, stdin, worker, sock, client, owner, late>>

(* sys.stdout.close() hands the port to Spark; then the loop begins.       *)
announce ==
    /\ mgr = "init"
    /\ mgr' = "check"
    /\ UNCHANGED <<pending, flag, stdin, worker, sock, client, owner, late>>

mgrCheck ==
    /\ mgr = "check"
    /\ mgr' = IF flag THEN "final" ELSE "read"
    /\ UNCHANGED <<pending, flag, stdin, worker, sock, client, owner, late>>

readBlock ==
    /\ mgr = "read" /\ stdin = "open"
    /\ mgr' = "blocked"
    /\ UNCHANGED <<pending, flag, stdin, worker, sock, client, owner, late>>

(* os.read returns '': shutdown().  Handlers that were due run as well and *)
(* come to the same end.                                                   *)
FlagKept  == flag  \* mutant: shutdown() is not called on end of file
FlagOnEof == TRUE

readEof ==
    /\ mgr \in {"read", "blocked"} /\ stdin = "closed"
    /\ flag' = FlagOnEof
    /\ mgr' = "check" /\ pending' = {}
    /\ UNCHANGED <<stdin, worker, sock, client, owner, late>>

(* The finally clause: SIGTERM back to its default, the flag, then SIGHUP  *)
(* to the process group, which the manager itself ignores.                 *)
finalFlag ==
    /\ mgr = "final"
    /\ mgr' = "hup" /\ flag' = TRUE
    /\ UNCHANGED <<pending, stdin, worker, sock, client, owner, late>>

(* SIGHUP ends a worker without its handler and interrupts one blocked in  *)
(* accept; a child that has left the pool dies, one that still has the     *)
(* worker's handler goes on.                                               *)
killHup ==
    /\ mgr = "hup"
    /\ mgr' = "dead"
    /\ worker' = [w \in Workers |->
                    CASE worker[w] = "boot"    -> "killed"
                      [] worker[w] = "blocked" -> "check"
                      [] OTHER                 -> worker[w]]
    /\ client' = [c \in Clients |->
                    CASE client[c] \in {"task", "unsent"}     -> "reset"
                      [] client[c] \in {"answered", "closed"} -> "done"
                      [] OTHER                                -> client[c]]
    /\ UNCHANGED <<pending, flag, stdin, sock, owner, late>>

(* SIGCHLD to the manager when a worker ends with this status: ignored     *)
(* until the handler is there, RuntimeError("worker crashed") unless the   *)
(* flag is set, else an interrupted read.  The error skips the finally     *)
(* clause before the try and cuts it short inside.                         *)
sigchld(crash) ==
    IF crash /\ ~flag
      THEN CASE mgr \in {"check", "blocked"} ->
                  mgr' = "final" /\ pending' = {}
             [] mgr = "init"  -> mgr' = "aborted" /\ UNCHANGED pending
             [] mgr = "final" -> mgr' = "dead" /\ UNCHANGED pending
             [] mgr = "read"  -> pending' = pending \cup {"crash"} /\ UNCHANGED mgr
             [] OTHER         -> UNCHANGED <<mgr, pending>>
      ELSE mgr' = (IF mgr = "blocked" THEN "check" ELSE mgr) /\ UNCHANGED pending
-----------------------------------------------------------------------------
(* A pool worker: its loop, from should_exit() to accept and fork.         *)
workerBoot(w) ==
    /\ worker[w] = "boot"
    /\ worker' = [worker EXCEPT ![w] = "check"]
    /\ UNCHANGED <<mgrVars, flag, sock, client, owner, late>>

NeverExit(w)  == "accept"  \* mutant: the loop does not look at the flag
AfterCheck(w) == IF flag THEN "exited" ELSE "accept"

workerCheck(w) ==
    /\ worker[w] = "check"
    /\ worker' = [worker EXCEPT ![w] = AfterCheck(w)]
    /\ IF AfterCheck(w) = "exited" THEN sigchld(FALSE)
       ELSE UNCHANGED <<mgr, pending>>
    /\ UNCHANGED <<flag, stdin, sock, client, owner, late>>

acceptBlock(w) ==
    /\ worker[w] = "accept" /\ \A c \in Clients : client[c] # "backlog"
    /\ worker' = [worker EXCEPT ![w] = "blocked"]
    /\ UNCHANGED <<mgrVars, flag, sock, client, owner, late>>

accept(w) ==
    /\ worker[w] \in {"accept", "blocked"}
    /\ \E c \in Clients :
          /\ client[c] = "backlog"
          /\ client' = [client EXCEPT ![c] = "accepted"]
          /\ sock' = [sock EXCEPT ![w] = c]
    /\ worker' = [worker EXCEPT ![w] = "fork"]
    /\ late' = [late EXCEPT ![w] = IF flag THEN @ + 1 ELSE @]
    /\ UNCHANGED <<mgrVars, flag, owner>>

ForkUnlessExit == ~flag  \* mutant: a client that comes last is dropped
ForkForClient  == TRUE

SockAfterFork(w) == None

(* `if sock is not None`: fork, and close the parent's copy.               *)
fork(w) ==
    /\ worker[w] = "fork"
    /\ client' = [client EXCEPT ![sock[w]] =
                     IF ForkForClient THEN "child" ELSE "reset"]
    /\ owner' = [owner EXCEPT ![sock[w]] = w]
    /\ sock' = [sock EXCEPT ![w] = SockAfterFork(w)]
    /\ worker' = [worker EXCEPT ![w] = "check"]
    /\ UNCHANGED <<mgrVars, flag, late>>

(* An exception in the worker (accept or fork fails): os._exit(1), and an  *)
(* accepted connection is closed with the process.                         *)
workerCrash(w) ==
    /\ "crash" \in Events /\ worker[w] \in {"accept", "fork"}
    /\ worker' = [worker EXCEPT ![w] = "crashed"]
    /\ client' = [c \in Clients |-> IF c = sock[w] THEN "reset" ELSE client[c]]
    /\ sock' = [sock EXCEPT ![w] = None]
    /\ sigchld(TRUE)
    /\ UNCHANGED <<flag, stdin, owner, late>>
-----------------------------------------------------------------------------
(* The child: leaves the pool (SIGHUP default, listening socket closed),   *)
(* runs worker_main, flushes the answer and waits for the Scala side to    *)
(* close the socket.  SIGCHLD interrupts its worker's accept.              *)
ChildStep(c, from, to) ==
    /\ client[c] = from
    /\ client' = [client EXCEPT ![c] = to]
    /\ UNCHANGED <<mgrVars, flag, sock, owner, late>>

leavePool(c) == ChildStep(c, "child", "task") /\ UNCHANGED worker

worker_main(c) == ChildStep(c, "task", "unsent") /\ UNCHANGED worker

NoFlush   == "unsent"  \* mutant: outfile.flush() is missing
AfterMain == "answered"
flush(c)  == ChildStep(c, "unsent", AfterMain) /\ UNCHANGED worker

waitSocketClose(c) ==
    /\ ChildStep(c, "closed", "done")
    /\ worker' = [worker EXCEPT ![owner[c]] = IF @ = "blocked" THEN "check" ELSE @]
-----------------------------------------------------------------------------
(* Outside: Spark connects, closes the connection when it has the answer,  *)
(* closes stdin or sends SIGTERM; the kernel resets a connection nobody    *)
(* can accept any more.                                                    *)
Listening == \/ \E w \in Workers : ~Gone(w)
             \/ \E c \in Clients : client[c] = "child"

connect(c) ==
    /\ client[c] = "idle" /\ mgr \notin {"launch", "init", "aborted"}
    /\ client' = [client EXCEPT ![c] = IF Listening THEN "backlog" ELSE "reset"]
    /\ UNCHANGED <<mgrVars, flag, worker, sock, owner, late>>

refuse(c) ==
    /\ client[c] = "backlog" /\ ~Listening
    /\ client' = [client EXCEPT ![c] = "reset"]
    /\ UNCHANGED <<mgrVars, flag, worker, sock, owner, late>>

closeSocket(c) == ChildStep(c, "answered", "closed") /\ UNCHANGED worker

closeStdin ==
    /\ stdin = "open"
    /\ stdin' = "closed"
    /\ UNCHANGED <<mgr, pending, flag, worker, sock, client, owner, late>>

sigterm ==
    /\ "sigterm" \in Events
    /\ mgr \notin {"dead", "aborted"} /\ "term" \notin pending
    /\ CASE mgr = "launch"  -> mgr' = "aborted" /\ UNCHANGED <<pending, flag>>
         [] mgr = "hup"     -> mgr' = "dead" /\ UNCHANGED <<pending, flag>>
         [] mgr = "read"    -> pending' = pending \cup {"term"}
                               /\ UNCHANGED <<mgr, flag>>
         [] mgr = "blocked" -> mgr' = "check" /\ flag' = TRUE /\ pending' = {}
         [] OTHER           -> flag' = TRUE /\ UNCHANGED <<mgr, pending>>
    /\ UNCHANGED <<stdin, worker, sock, client, owner, late>>
-----------------------------------------------------------------------------
Manager ==
    \/ \E w \in Workers : launch_worker(w)
    \/ installHandlers \/ announce \/ mgrCheck \/ readBlock \/ readEof
    \/ finalFlag \/ killHup

Worker(w) == workerBoot(w) \/ workerCheck(w) \/ acceptBlock(w) \/ accept(w) \/ fork(w)
Child(c)  == leavePool(c) \/ worker_main(c) \/ flush(c) \/ waitSocketClose(c)

Next ==
    \/ Manager
    \/ \E w \in Workers : Worker(w) \/ workerCrash(w)
    \/ \E c \in Clients : Child(c) \/ connect(c) \/ closeSocket(c) \/ refuse(c)
    \/ closeStdin \/ sigterm

Spec == Init /\ [][Next]_vars

(* The kernel schedules every process, a task that runs ends and the Scala *)
(* side closes a connection whose answer it has; nobody has to connect, to *)
(* close stdin, to send SIGTERM or to crash.                               *)
FairSpec ==
    /\ Spec /\ WF_vars(Manager)
    /\ \A w \in Workers : WF_vars(Worker(w))
    /\ \A c \in Clients : WF_vars(Child(c)) /\ WF_vars(closeSocket(c) \/ refuse(c))
-----------------------------------------------------------------------------
(* Shutdown drains: once the exit flag is set a worker takes at most one   *)
(* more client, the one its pending accept returns.                        *)
AtMostOneLate == \A w \in Workers : late[w] <= 1

(* A client that was accepted gets a child of its own, also when shutdown  *)
(* comes between accept and fork; only the worker's crash can prevent it.  *)
AcceptedIsServed ==
    [][\A c \in Clients :
          client[c] = "accepted" /\ client'[c] # "accepted" =>
             \/ client'[c] = "child"
             \/ \E w \in Workers : sock[w] = c /\ worker'[w] = "crashed"]_vars

(* A client that connected is served or gets an error, whatever part of    *)
(* the daemon is gone by then.                                             *)
NoClientHangs ==
    \A c \in Clients : client[c] = "backlog" ~> client[c] \in {"done", "reset"}

(* Spark tells the daemon to exit by closing stdin: the manager ends.      *)
EofEndsManager == stdin = "closed" ~> mgr \in {"dead", "aborted"}

(* tests.py: "Ensure that daemon and workers terminate when stdin is       *)
(* closed."  A worker between should_exit() and accept misses the SIGHUP.  *)
EofEndsWorkers == stdin = "closed" ~> \A w \in Workers : Gone(w)
=============================================================================
