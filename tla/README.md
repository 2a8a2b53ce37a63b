# A TLA+ verification of spark-cluster-deployment

The repository deploys Hadoop and Spark on a cluster and applications on Spark.
It consists of two Fabric files (the operator's commands), a tree of Puppet
modules that the first of them copies to the servers and applies, and, inside
the `spark` module, a Spark 1.0 distribution with its shell scripts, its EC2
script and PySpark.  This project models the parts that keep state and run
concurrently or across failures and the algorithms of PySpark, checks them with
TLC and proves central properties with TLAPS.

## Inventory

| Part | State | Operations | Hard behaviour |
|---|---|---|---|
| Application deployment, `application-deployment-fabfile.py`, `env.sh` | the fat JAR, its copies on the servers, `lastJobStarted.pickle`, `stdout.txt`, `stderr.txt` | `assembly`, `sync`, `start`, `kill`, `getOutput` | several shells in one directory; rsync's copy appears long after it opened the JAR; a Worker copies the JAR long after `start`; the record is not written atomically; a task may end anywhere |
| Cluster deployment, `initial-deployment-fabfile.py`, Hadoop worker catalog | tools, ssh entries, packages and services of every host | `init`, `start*`, `stop*` per role, all hosts of a role at once | a host that is lost, Puppet failures that Fabric does not see, repeated `init`, a half-made clone |
| Hadoop master: `cdh4` classes of `hdfs-master.pp`, `startHdfsMaster`, `stopHdfsMaster` | packages, files, HDFS directories, format, services | one Puppet resource after another, in any order the requires admit | interrupted and repeated runs, half-made directories, HA transition, a stop that fails half-way |
| Spark service: `spark-*-runner.sh.erb`, `spark-*.conf.erb`, `master.pp`, `worker.pp` | Upstart's goal and process, the numbered logs | rotate and run, respawn, restart on notify, `initctl stop` | a kill in the middle of the rotation; the respawn limit; a reboot |
| Stand-alone script, `sbin/spark-daemon.sh` | pid files, processes | `start`, `stop` | stale and half-written pid files, a reused pid, two starts at once, a script killed before it has written the pid |
| EC2 script, `spark_ec2.py` | instances, spot requests, security groups, keys, deployed slave list | `launch`, `launch --resume`, `destroy`, `stop`, `start` | an interrupt between any two calls, retries, spot requests granted late |
| PySpark daemon, `daemon.py` | exit flag in shared memory, pool, children, sockets | launch, accept, fork, serve, shut down by end of file or SIGTERM | signals between any two steps; a worker crash while the manager shuts down |
| PySpark worker task, `worker.py`, `serializers.py`, `broadcast.py` | the two streams, the loaded broadcast variables | read the task, stream records in batches, report | an input that stops early, an error in mid-stream, a killed process |
| Accumulators, `accumulators.py` | registry, values, reports on their way | create, add, report, apply updates | failed and repeated tasks, updates applied one by one beside the driver |
| Driver context, `context.py`, `java_gateway.py` | gateway, active context, JVM context, update server | constructor, `stop`, `__del__` | constructors and stops that raise, several threads, the garbage collector |
| RDDs, `rdd.py`, `join.py`, `rddsampler.py`, `statcounter.py` | RDDs in the driver and in the JVM, pickled broadcast variables | transformations, `persist`, `checkpoint`, actions, shuffles, sort, sampling, statistics | fusing under changing flags, marks set before calls that fail, shared sets, boundaries of batches, ranges and partitions |
| MLlib vectors, `mllib/*.py` | none | bytes, products, distances, `predict`, LIBSVM text | offsets, mixed operands, empty and sparse data |

How they interact.  `startHdfsMaster` and `startSparkMaster` rsync the Puppet
tree and run `puppet apply`, which installs the daemons and hands Spark's to
Upstart; the stop tasks go around Puppet, directly to the services.
`spark_ec2.py` and `spark-daemon.sh` are the distribution's other way to the
same daemons.  The Spark daemons then run drivers submitted by `start`.  A
driver in Python has a context, builds commands with their broadcast variables
from RDDs and runs an accumulator server; an executor that runs Python starts
`daemon.py`, which forks a process per task in which `worker.main` reads the
command and the data and writes results and accumulator updates.

The deployment tools share only files and service states on hosts, and the two
sides of PySpark only byte streams.  Each part is therefore a specification of
its own, and a part takes from its neighbour what the neighbour is shown to
provide: `WorkerTask` assumes a header whose broadcast variables may be
incomplete, because `RddPipeline` shows when they are; `Accumulators` assumes
that a failed task reports nothing, which `WorkerTask` shows.

What makes each part correct: no launch goes behind its own sync and the record names
the right server (application deployment); one undisturbed deployment repairs
whatever is there, never formats a file system with data and never starts a
daemon before its directories (cluster, Hadoop); no log lost or out of order
and the daemon always back (service); a second daemon of an
instance only after overlapping or killed starts, and a stop that reaches every
recorded one (stand-alone script); a cluster called done is
complete and a destroyed one is gone (EC2); every accepted client served,
nobody waits for ever and a shutdown drains (daemon); success means the results of all
whole frames and matching updates (worker, accumulators); one context at a time, lineage and
broadcast variables intact (driver); the same result as on unpartitioned data
(algorithms).

`PROJECT.json` lists all parts, also the ones left out, and the hazards line by
line with the properties that cover them.

## Modules

| Module | Models | Proofs |
|---|---|---|
| `AppDeploy` | the application Fabric file | `AppDeployProofs` |
| `ClusterDeploy` | the cluster's Fabric file on all hosts, the worker catalog | `DeploymentProofs` |
| `HadoopMaster` | the master catalog and `stopHdfsMaster` | `HadoopMasterProofs` |
| `SparkService` | runner, Upstart job, Puppet service, stop task | `SparkServiceProofs` |
| `SparkDaemonScript`, `SparkDaemons` | `spark-daemon.sh` | `DeploymentProofs` |
| `Ec2Cluster`, `Ec2Instances` | `spark_ec2.py` | `DeploymentProofs` |
| `PySparkDaemon` | `daemon.py` | `PySparkDaemonProofs` |
| `WorkerTask`, `WorkerStreams` | `worker.main` and both streams of a task | `WorkerTaskProofs` |
| `Accumulators`, `AccumulatorSpec` | `accumulators.py`, and what it promises | `AccumulatorsProofs` |
| `DriverContext`, `ActiveContext` | the life of a `SparkContext` | `DriverProofs` |
| `RddPipeline`, `RddGraph` | `PipelinedRDD`, `persist`, `checkpoint`, broadcast variables | `DriverProofs` |
| `RddSampling`, `RddSample` | `takeSample` and the samplers | `DriverProofs` |
| `Serializers`, `RddActions`, `RddShuffle`, `StatCounter`, `MllibVectors` | pure algorithms as operators | |

`SparkDaemons`, `Ec2Instances`, `WorkerStreams`, `ActiveContext`, `RddGraph` and
`RddSample` declare the part of their component's state that its properties
speak of, and state the properties.  The component's module extends them with the rest of the state and
the steps; the modules of runs that check several components extend them too,
so that a run and a proof are about one and the same property.

`MC*.tla` give the constants values.  A run's module has a `.cfg` file
(`driver_context_two` runs `DriverContext` itself);
`MCSerializers`, `MCRddActions`, `MCRddShuffle`, `MCStatCounter` and
`MCMllibVectors` put one question after the other to a module of operators and
are instantiated by `MCData`.  `MCDeployment`, `MCWorker`, `MCDriver`, `MCData`
and `MCProgress` each check several specifications: a variable (`tool`, `part`,
`program`, `turn`) chosen in the initial state says which one the behaviour is
of, and the variables of the others keep their initial values, so each
specification is explored exactly as if it were alone.  Definitions named
`Mut...`, or "mutant" in a comment, are variations of the definition below
them, as a plausible bug would have it; each property of a passing run is
violated by one.

### AppDeploy

A shell (`shell[s]`) runs an invocation, a sequence of tasks of which a failing
one cancels the rest: `fab t1 t2` and `ss t1 && ss t2` behave alike.  JARs are
build numbers.  One action is one effect another shell can observe:
`assembly` is one step (a failed build leaves the old JAR: `abort`; that sbt
replaces the JAR as a whole is external), `sync` two
steps per server of `config['all']`, since rsync opens the JAR (`sync`), streams
it and renames its copy at the end (`syncRename`), `start` four (submit, status, `open('wb')`,
`dump`), `kill` one, `getOutput` two.  `abort` ends a task at any point with
the effects it had; it stands for nonzero exit statuses, the uncaught errors
(a status the regular expression does not match, `m` unbound in `kill`, an
empty pickle) and Ctrl-C.  The Spark Master and Workers are external: the
Master runs a submitted driver on any server, and that server's Worker copies
the JAR from its own disk at some later time.  `floor` in shells and drivers is
an auxiliary variable that remembers the build the invocation's own `sync`
began with; it becomes 1 (any JAR) when an rsync of another shell that had
opened an older JAR is still under way to a server where this one ends
(`OlderUnderWay`).  No guard reads it.

### SparkService

`proc` walks through the runner script, one `mv` at a time; `Crash` may end it
at any point.  `logs` records for `log`, `log.1` .. which run wrote the file.
`goal`, `killed` and `respawns` are Upstart's: a death below the respawn limit
is respawned, one too many makes the goal stop; `Reboot` starts the job whatever
the goal was, because of `start on runlevel [2345]`.  Puppet's `ensureRunning` goes by
`initctl status | grep "/running"`, `refresh` is `initctl restart`, `stopSpark`
the Fabric task.

### PySparkDaemon

Every process has a program counter.  Python runs signal handlers between
bytecodes, so there are two positions at a system call: blocked (a signal ends
the call with EINTR) and committed but not yet blocked (`"read"`, `"accept"`:
the handler runs only when the call returns, for the manager kept in
`pending`).  `sigchld` is the manager's handler, with its different outcome
before the try, in the loop and in the finally clause.  `client[c]` follows a
connection from the backlog to its child and to its end; the JVM connects,
closes connections whose answer it has and closes stdin.  `late` counts the
clients accepted after the exit flag was set (auxiliary).

### HadoopMaster

The catalog is a set of pairs (`Edges`), one operator per class, chosen by the
profile `conf` (YARN or MRv1, HA or not) as `master.pp` and `primary.pp` do.  A
run gives every resource a status; `skip`, `noop`, `apply` and `fail` are what
Puppet does with a resource whose requires are decided, according to `InSync`
(`creates`, `unless`, `refreshonly`) and `Works` (what the command needs).
`disturbed`, `interrupt` and `serviceDies` are the faults, `HalfMade` what a
failing `mkdir && chmod && chown` leaves behind.  `clean` says that nothing was
disturbed since the run began (auxiliary).  `stopHdfsMaster` is one step per
command and ends at the first service that is not installed.  Abstractions:
the configuration files of `cdh4::hadoop` are one resource; the JobTracker's
six-link chain below `/var/lib` is two links.

### ClusterDeploy

`cmd` holds the tasks of the invocation, `todo[h]` the rest of the current task
on host `h`.  A task ends when it has ended on all its hosts; one that failed on
any host ends the invocation.  `Steps` translates each task into the commands
it sends, `Roles` its decorator.  A host's state is what the tasks change:
`tools` (yum), `dotted` (the clone of the dot files: missing, half or whole),
`entries` in `.ssh/config`, `raid`, installed and running services, and
`broken`, the services whose directories in HDFS an earlier run has left half
made, which no later run mends.  `chsh` may fail (there is no such user) and
changes nothing that is read; a clone that fails is no error (`warn_only`), the
`git pull` after it is.  A catalog is the set of its services: `puppetApply` starts them,
as far as `raid` and `broken` admit; `resourceFails` starts only some, may
install only those, may leave directories half made and may end with the
connection.  As `puppet apply` does, both exit with 0 otherwise.  The
order of resources inside a catalog is `HadoopMaster`'s subject.

### SparkDaemonScript and Ec2Cluster

One step of `SparkDaemonScript` is one command of the script that touches the
pid file or a process; `echo $newpid > $pid` is two, the truncation and the
write.  Operators run it on the same instances, and `interrupt` (Ctrl-C, a lost
session) ends a script anywhere; a daemon that it has launched goes on.  `stray`
(auxiliary) are the daemons whose start overlapped another one of the instance
(`spoilt`) or was killed before it had written the pid; `due[o]` (auxiliary) are
the ones whose start had ended when the stop that `o` runs began.  A process
ends at any time, and the pid of a dead one may be given to
another program.

One step of `Ec2Cluster` is one call to EC2 or one ssh.  A spot request and the
instance it becomes share a number.  `op[o]` is an operator's process with the
local variables of `launch_cluster`, `setup_cluster` and `real_main`; `fresh`
are the groups that were seen without rules.  EC2 is external: instances become
running or fail, stop and go, requests are granted at any time, spot instances
are taken back.  `Interrupt` ends the process anywhere.  In the
polling loop `SpotRaises` goes to the `except` clause instead, whose call,
`SpotCancel`, may itself be interrupted or refused: that is `Interrupt` again.
`orphans` (auxiliary) are requests lost by an interrupt.

### WorkerTask and Accumulators

`WorkerTask` has streams of cells, two for a length or a body of the input, one
for a token of the output, so that an input can be cut inside either; `cut` is
where the JVM stops writing.  An input cut inside a length is an error; one that ends in or before a
payload, or before a length, is taken for the end of the data
(`EndOfData`), because `load_stream` swallows every `EOFError`, also the one
that unpickling a truncated payload raises.  `LoopError` may happen anywhere in
the loop, so a truncated payload that raises another error is there too.
`main` reads lazily while it writes; `flushed` is
how much of the buffer has reached the JVM, and a killed process loses the
rest.  The JVM's reader is external: it takes a non-negative length as a record
and a negative one as a marker, and becomes `"garbled"` when it meets something
else.

In `Accumulators` `+=` is a read and a write, in the driver program and in the
server's handler.  Tasks fail and are run again, the handler applies a report
one term after the other and may meet an error.  The driver program may add
while a report is applied.  `due` (auxiliary) is what should have been added,
`raced` (auxiliary) the accumulators to which both sides added at the same
moment.  `AccumulatorSpec` is the promise: every addition reads and then writes
a value; a task that succeeded owes a term to each accumulator and pays them one
by one, each whole and once, or the rest of the report is given up with an
error.  A term is lost only to an addition that had read the value before.
`ImplementsSpec` instantiates it with `owed`, the terms of the reports in flight
seen by accumulator, and `reading`, what driver and server have read.

### DriverContext and RddPipeline

`DriverContext`: each thread makes one context and tries again when it is
refused.  `phase` is how far `__init__` came, `stop` the next line of a call of
`stop`; `jsc` and `server` are the attributes and what they stand for.  The
class attributes `active` and `files` keep a context from being collected, so
`Del` needs both to name another.  `stray` (auxiliary) records that a stop
reset the active context although it was another one.

`RddPipeline`: `rdds` are the driver's objects, `jrdds` the JVM's.  A
transformation fuses with its predecessor according to the flags at that
moment; asking for `_jrdd` pickles the command, lists the broadcast variables
met, clears the set and creates the JVM's RDD, each a step, because threads
share RDDs and the set.  `persist` and `unpersist` set the mark first; then the
argument of `persist`, the pickling of the command (`DumpsRaises`) or the JVM
(`Refused`) may end the call.  `failed` (auxiliary) are the RDDs whose last
change of the mark ended so.

### Algorithms

`Serializers` (streams of cells, batches, pairs, unions, `parallelize`),
`RddActions` (`reduce`, `fold`, `aggregate`, counts, `top`, `takeOrdered` with
its heap, with and without a key function, `take`), `RddShuffle` (`partitionBy`, `combineByKey`, joins, set
operations, `sortByKey` with its sampled bounds), `StatCounter` (exact
fractions instead of floats) and `MllibVectors` (bytes as cells) are operators
with the source's names.  A reference definition on the whole data stands in
the `MC` module.  `RddSampling` is a state machine because `takeSample` repeats;
a seed stands for any stream of draws.

## Runs

| Run | Instance | Shows |
|---|---|---|
| `app_deploy` | two shells, two servers, two drivers, two builds; 4.2 million states | `NoStaleLaunch`, `RecordNamesItsServer`, `OutputFilesMatch` in every interleaving |
| `spark_service` | the real numbers, 5 logs and limit 10, 13 faults | `LogsInOrder`, `NoGapInHistory`, `LostOnlyFromLast`, `Restarted` |
| `pyspark_daemon` | two workers, two clients, SIGTERM and crashes | `AtMostOneLate`, `AcceptedIsServed`, `NoClientHangs`, `EofEndsManager` |
| `hadoop_master` | YARN and MRv1 with two faults, HA with one; 1.2 million states | `CleanRunSucceeds`, `ServicesAfterDirs`, `HdfsNeverWiped` |
| `deployment` | Fabric: two hosts, four invocations, two faults. Script: two operators of one instance, three pids, reuse. EC2: one operator, two slaves in two zones, three commands, two interrupts; 6 million states | `CleanDeployWorks`, `EntriesRight`; `OneDaemon`, `StopRight`; `DoneIsComplete` (sizes, keys and configuration of a finished command), `DestroyLeavesNothing` |
| `worker` | stream: two broadcast variables, four frames of two records, batches of three, two accumulators. Accumulators: two, two tasks with two attempts, one addition of the driver, one error; 820 thousand states | `StreamAligned`, `SuccessIsWhole`; `UpdatesPropagated`, the refinement `ImplementsSpec` |
| `driver` | contexts: three threads, everything may raise. RDDs: one thread with all operations on three, one that maps and persists four, one with a function that cannot be pickled, two threads; 6.4 million states | `ActiveOwnsAll`; `LineageKept`, `PartitioningSound`, `BroadcastsSent`, `CacheHeld` |
| `data` | all lists up to length 2 to 5 in all splits, batch sizes 2 to 4, vectors up to dimension 2; 860 thousand states | `StreamsRight`, `ActionsRight`, `ShuffleRight`, `StatsRight`, `VectorsRight`: the algorithms agree with their reference definitions, one conjunct per algorithm in the modules `MCSerializers`, `MCRddActions`, `MCRddShuffle`, `MCStatCounter`, `MCMllibVectors` |
| `progress` | EC2: one slave, two commands. Two tasks, two threads, four RDDs; 130 thousand states | `CommandEnds`, `ReportsEnd`, `GetsContext`, `SampleEnds`, and `FixedSize` |
| `pyspark_daemon_orphan` | two workers, no client | violated: a worker misses the SIGHUP and stays after stdin was closed |
| `hadoop_dirs` | YARN, one fault | violated: success reported for a directory without its owner and mode |
| `driver_context_two` | three threads, nothing raises | violated: a late `stop` frees the place of another context and two run |

`app_deploy` checks the type invariant that is proved; the `TypeOK` of the other
modules documents their state.

The violated properties state what a line of the documentation, a comment or a
test says; `PROJECT.json` quotes each under "findings".

Why the bounds are enough.  `app_deploy`: two shells suffice for a race on a
shared file, two servers for a half-done sync, two drivers for a record that
names the wrong one, two builds for stale code and for an older JAR that lands
after a newer one.  The shells type different
invocations (the driver ids are symmetric, the shells are not); only one of
them fetches output, since two that do overwrite each other's files by design.
`spark_service`: 13 faults exceed the respawn limit and the number of logs, so
the limit is reached and every slot is filled and overwritten; the script's own
numbers are used.  `pyspark_daemon`: with two workers one can crash while the
other serves; with two clients one can be late while one is being served.
`hadoop_master`: two faults cut off one run and disturb its repetition.
`deployment`: four invocations are `init`, a broken start, a stop and a start;
the first host is both master and worker, so both catalogs meet on it.  Three
EC2 commands are a launch, a broken command and its repair, or a launch that
follows a stop; two slaves in two zones fill both.  Three pids are a daemon, the stray one beside it and a third start after both.
Two interrupts reach the handler of the first.  `worker`:
batches of three over frames of two make full, partial and straddling batches;
every cut is an initial state.  `driver`: three contexts are needed for a late
stop that lets a third one start beside a second; four RDDs make chains with
two cached points, and three are a lineage whose middle is marked and not persisted.  `data`: batches, partitions and heaps of up to five
elements meet every boundary (empty, partial, exactly full); `StatCounter` has
runs of 12 and 20 so that all three formulas for the mean are used.  What could
still depend on larger numbers is what the proofs cover.

Restrictions of the instances, stated because they matter.  `deployment` lets
one operator use EC2.  `worker` has `Together` false and no reloads: one
driver thread creates accumulators.  `driver` states
`BroadcastsSent` and `CacheHeld` for programs with one thread.  `data` leaves out
the inputs on which the algorithms are known to go wrong (`None` as a value or
key, the empty RDD in `sortByKey`, zips of different batch sizes, repeated
indices, matrices without elements).  What some
properties leave out is in their statement: daemons of overlapping or killed
starts (`OneDaemon`, `StopRight`), accumulators changed from both sides at one
moment (`UpdatesPropagated`), marks whose last change failed (`CacheHeld`),
syncs overtaken by an older rsync (`NoStaleLaunch`), hosts with half-made
directories (`CleanDeployWorks`), lost spot requests (`DoneIsComplete`,
`DestroyLeavesNothing`).  What happens
without a restriction is under Known divergences.

Deadlock checking is on for `app_deploy`, `hadoop_master` and `hadoop_dirs`.  It
is off where the system may stop: a job that was stopped, a daemon that ended,
an operator who gives no more commands, a task that is over, a question that
was answered.

Fairness.  `SparkService`: weak fairness of the runner's steps, of Upstart's
spawn and of the delivery of SIGTERM, since the kernel schedules processes and
Upstart acts on its goal; none for crashes, stops, Puppet or operators.
`PySparkDaemon`: weak fairness of the manager, of each worker, of each child (a
task ends) and of the JVM's closing of a connection whose answer it has; none
for connecting, closing stdin, SIGTERM or crashes.  `Ec2Cluster`: the script's
calls return, and instances leave `pending`, `stopping` and `shutting-down`;
none for granting a request, so a command may wait there, as the script does.
`Accumulators`: the server thread and a thread in the middle of `+=` run on;
none for tasks.  `DriverContext`: threads run, try again when refused and stop
the context they hold once.  `RddSampling`: strong fairness of a sample that is
large enough: a random generator does not avoid for ever what it can draw.
`MCProgress` states these per component, each in its own turn.

## Proofs

All for every value of the constants under the named assumption of the module
(`AppAssumption`: `config['all']` is a non-empty list naming every server, and
`None` and `Truncated` are neither servers nor records; `ServiceAssumption`:
`Num` is positive; `DaemonAssumption`: `None` is not a client;
`MasterAssumption`, `DeployAssumption` and `BoundsAssumption`: types of the
constants, and finitely many accumulators; `InstancesAssumption`: there is an
instance).  TLC evaluates each of them.

A theorem that needs more of the constants says so in its `ASSUME`.  These
hypotheses are the restrictions of the runs, named where the module is defined,
and `MCAppDeploy`, `MCDeployment`, `MCWorker`, `MCDriver` and `MCProgress` have
TLC confirm that their instances meet them (the mark `None` is in `ContextAssumption`).  That a driver
program has one thread is not among them: `BroadcastsSent` and `CacheHeld` say
it themselves (`OneThread`), and claim nothing of a program with more.

| Hypothesis | Says | Without it |
|---|---|---|
| `AppDeploy.OneFetcher` | one shell fetches output | two overwrite each other's files, by design |
| `ClusterDeploy.NamesApart` | no host name lies inside another's | known divergence of `EntriesRight` |
| `Ec2Cluster.OneOperator` | one person runs the script at a time | known divergence of `LaunchFailsIfRunning` |
| `Ec2Cluster.Bounds` | at least one slave, zone and rule; types of the constants | |
| `RddSampling.DistinctElements` | an RDD holds no element twice, and fewer than `sys.maxint` | "none twice" would not be about places; `total` stops at `maxint - 1` |
| `WorkerTask.Sizes` | sizes are numbers, a batch of results holds at least one | not a stream |
| `RddPipeline.FlagsOK` | `preservesPartitioning` is a Boolean | |
| `None \notin Threads` | the mark for "no context" is not a context | |
| `~Together` | one driver thread creates accumulators | known divergence of `UpdatesPropagated` |
| `MaxReloads = 0` | no second unpickling of an accumulator (`UpdatesPropagated` only) | known divergence |
| `IsFiniteSet(Tasks)` | finitely many tasks (`UpdatesPropagated` only) | no sum |

* `AppDeployProofs`: `TypeCorrect`, `NeverStale`, `RecordCorrect`, `OutputsMatch`.
  `NoStaleLaunch` is not inductive, since the state in which a driver has not yet
  copied its JAR says nothing about the JARs on the servers.  The inductive invariant
  `Inv` says that a server *holds* a floor (`Held`): its JAR is at least as new and
  no rsync under way to it, of whichever shell, carries an older one.  Servers
  that a shell's sync loop has passed hold the shell's floor, all servers do
  once sync is over, and what the shell's own rsync carries is not older
  (`FloorOK`); a driver's floor is held by every server from submission on
  (`DriverFloorOK`);
  a driver that left SUBMITTED normally has a server, and that server is what
  `start` carries to the record (`ShellOK`, `DriverOK`).  A build on a server need
  not grow; it works because an rsync that starts later carries a JAR that is
  not older than any floor.  `OutputsMatch` has an invariant of its own
  (`OutputInv`): between its two copies a `getOutput` holds what it read of the
  record (the code reads it once), and `stdout.txt` is of that driver, because
  only the fetching shell writes the file.
* `SparkServiceProofs`: `LogsOrdered`, `LatestLogsKept`, `OnlyLastOverwritten`.
  The strengthening (`RotationOK`) says that in the middle of a rotation the
  slot `num`, the next target, is free unless it is the last one, that the
  current log is free when the daemon is about to create it, and that no log is
  from a later run than the latest.
* `PySparkDaemonProofs`: `ShutdownDrains`, `AcceptedServed`.  The invariant
  (`LateOK`) ties `late` to the worker's position: a worker with a late client
  is between accept and the check that ends it, and the exit flag, once set,
  is never cleared.
* `HadoopMasterProofs`: `TypeCorrect`, `DirsBeforeServices`, `NeverWiped`,
  `CleanRunWorks`, for all four profiles.  That a service runs only with its
  directories is not inductive, since the service waits for its package and only
  the package waits for the directories: the invariant says what each present
  package and service had before it (`PackagesAfterDirs`), and that what a run
  reports as ok has everything it requires reported as ok (`DepsOK`) and, for
  packages and directories, present (`Lasting`).  The format is never repeated
  because whoever uses HDFS came after it and its mark stays (`FormatFirst`).
  `CleanRunWorks` needs `CleanOK`: in an undisturbed run nothing fails unless a
  standby NameNode was met, which then stays one to the end of the run.
* `DeploymentProofs`, about `ClusterDeploy`: `EntriesOnce`, `CleanDeploy`.  For
  the first, every entry that is missing while `init` runs still has its step
  before it on that host, unless a host has failed (`Covered`).  For the second, the
  deployment is in its n-th task, each host has all, the last step or nothing
  of that task before it, and what the finished tasks and hosts started is running (`Deploying`).
  About `SparkDaemonScript`: `OneDaemonOnly`, `StopSignals`.  The check of the
  pid file is a separate step from the launch and from the writing of the file,
  and a script may be killed between any two.  The
  invariant carries the check's answer across: a live daemon that is not stray is named
  by its file or by the script that is about to write it (`Known`); starts of one
  instance that are past their check together are marked, and so is what they
  launch (`Marked`); a start that is past its check meets no daemon but its own
  (`OnlyNew`).  For the stop: a daemon that is due was recorded, and the file
  names it as long as it runs (`DueKept`), until it is signalled
  (`SignalGiven`).
  About `Ec2Cluster`: `ClusterComplete`, `DestroyClean`.  Both speak of the end of
  a command, and what they say was settled many calls before, while EC2 went on
  by itself.  `ClusterInv` says for every position of the script what it may
  rely on.  Numbers not given yet belong to no instance, so each zone adds new
  ones (`NumbersOK`); after n zones there are `Spread(n)` slaves, which is what
  `get_partition` sums up to, and `Spread(NumZones)` is `Slaves` (`SizeOK`,
  `SpreadFacts`).  A request is open only while the launch that made it looks
  on: the polling loop leaves none, since as many active ones as slaves are all
  of them, the handler cancels them, and an interrupt before or in it makes them
  orphans (`OpenOK`).  So from its check or from its answer of
  `get_existing_cluster` on, the script knows every slave that lives or may
  come to life (`ListOK`), whatever EC2 does, because nothing dead comes back; the slaves
  not left to do hold the master's key (`KeyOK`); and what is not terminated is
  still on destroy's list (`DestroyOK`).
* `WorkerTaskProofs`: `Aligned`, `WholeSuccess`.  The invariant is a grammar of
  the output: m pairs of a length and a batch, where c[k] results are in the
  first k, then nothing, half a pair, the end sections, all updates or the error section
  (`DataInv`, `FormInv`); the reader stands behind one of the pairs or behind
  the timing data with exactly the results before it (`ReaderInv`).  m and c are
  existentially quantified; each action's lemma gives the new ones.  The input
  side says that n whole frames are read and their records are used or wait in
  order (`InputInv`).
* `AccumulatorsProofs`: `Implements`, the refinement of `AccumulatorSpec`, step by
  step, with the driver adding beside the server and with reloads and errors, and
  `Propagated`.  The invariant (`IInv`): ids are given once and lead
  to their accumulator in the driver and in every running task (`CreationInv`,
  `TasksInv`), and what the server or the driver has read before its write still
  holds, unless both were at that accumulator (`AddingInv`, `ServingInv`).  Under it each step of the code is a step of
  the specification or a stutter.  `Propagated` adds that what an
  accumulator outside `raced` is due exceeds its value by the sum of what the tasks' reports in
  flight owe it (`Balanced`).
* `DriverProofs`, about `RddPipeline`: `LineageSafe` and `PartitioningKept` for
  any number of threads, `VariablesSent` and `CacheKept` for one.  `LineageKept`
  speaks of RDDs that have one in the JVM; the invariant (`LineInv`) speaks of
  all: the JVM parent's path followed by the fused functions is the lineage, so
  it does not matter when, and after which changes of flags, the JVM's RDD is
  made.  `KeepInv` is the same for the flags.  `SentInv` follows the variables
  of a command through the shared set to the call that makes the RDD.
  `CacheInv`: RDDs do not share one in the JVM, and a mark
  differs from the JVM's only while the call that made the difference is under
  way or when that call failed (`MarkOK`).
  About `DriverContext`: `ActiveOwner`, `OneUntilStray`.  That everything which
  runs belongs to the active context is not inductive: a constructor that is
  under way has nothing running yet, and a stop that is under way has taken
  down only a part.  The invariant adds: before `__init__` ends nobody has
  called `stop` on the context (`EarlyOK`); what a running `stop` has passed is
  down (`StopOK`); a context that is up, or on its way up, is the active one
  (`OwnOK`), as long as no stop has reset another's entry.  `OneUntilStray` says
  that only such a stop can lead to two running contexts, which is the
  behaviour `driver_context_two` exhibits.
  About `RddSampling`: `SampleFixed`, however the RDD is partitioned and whatever
  is drawn.  The size follows from the loop's condition (`SampleInv`: what goes
  to the shuffle is not short of `total`).  That elements come from the RDD and
  none comes twice goes through two flattenings, the copies of an element in
  `func` and the splits in `sample` (`FlattenFacts`, `FuncPicks`, `SamplePicks`), and
  through the shuffle, whose places are distinct (`RangeCount`).

Induction over data is avoided where a property needs it.  `Along` (the
functions on the way from the root) is a recursive function; that a function
with its equation exists, that its values are sequences and that RDDs made
later do not change it are proved by looking at the least number for which it
fails (`Least`).  `FlattenSeq` of the community modules is treated the same way
(`JoinsExists`, `JoinStep`).  Sums over tasks are stated by a witness, the function of
partial sums (`Sums`), which changes at one point when one task's debt does.

Only model-checked: the liveness properties (`Restarted`, `NoClientHangs`,
`EofEndsManager` and the temporal properties of `progress`), because liveness under
fairness is out of the prover's reach, and the algorithms in `data`
(`StreamsRight`, `ActionsRight`, `ShuffleRight`, `StatsRight`, `VectorsRight`).
These are recursive operators and folds that take an operator as a parameter,
which the provers cannot instantiate.  Every other property that a passing run
checks is a theorem.

## Known divergences

Beside the three runs that expect a violation, modelling met these places where
the code differs from a comment, a document or a test.  Where a property is
named, it is defined in the module and TLC refutes it on the instance given;
the others follow from the definition named.

* `AppDeploy.sync`: rsync renames its copy at the end
  (`application-deployment-fabfile.py:54`), so that of an older build, opened by
  another shell, can land after a newer one, and that shell's or this one's `start`
  then runs the older code.  `NoStaleLaunch` makes an exception of it.
* `AppDeploy.StartIsRecorded`: `start` writes the record only for a driver that
  is RUNNING when the status is printed (`application-deployment-fabfile.py:97`),
  so `getOutput` after it fails or fetches the previous driver's output
  (README.md:232).  One shell.
* `stopHdfsMaster` with YARN: the JobTracker is not installed, its stop fails
  (`initial-deployment-fabfile.py:94`) and the HistoryServer and ResourceManager
  keep running (README.md:161).  `HadoopMaster.StopLeavesNothing`,
  which holds for MRv1.
* `HadoopMaster.ActiveBeforeDirs`: the transition to active is `refreshonly`, so
  after an interrupted HA run the directories are tried on a standby
  (`primary.pp:22`, comment at 26).  HA, one fault.
* `ClusterDeploy.SuccessMeansStarted`: `puppet apply` exits with 0 when resources
  failed (`initial-deployment-fabfile.py:41`, README.md:175).  One fault.
* `ClusterDeploy.cloneFails`: a clone that fails half-way leaves a `.dotfiles` in
  which `git pull` fails, and `init` clones only when there is none
  (`initial-deployment-fabfile.py:114`): every later `init` ends there, on that
  host, before the entries and `/raid/hadoop`.
* `ClusterDeploy.WorkersStopped`: `stopHdfsWorkers` stops only the DataNode; the
  NodeManager or TaskTracker goes on (`initial-deployment-fabfile.py:103`).
* `ClusterDeploy.EntriesRight` when a host name occurs inside an earlier one
  (`node1` after `node10`): `contains` finds it and `init` writes no entry
  (`initial-deployment-fabfile.py:124`).  `Within` accordingly.
* `SparkDaemonScript.stray`: two starts of one instance may both pass the check
  (`spark-daemon.sh:134`) before either writes the file, and a start killed
  between the launch (148) and the `echo` (150) leaves a daemon that no file
  names.  The next start launches another beside it, and `stop` does not reach
  it.  `OneDaemon` and `StopRight` do not hold with these daemons included.
* `spark-daemon.sh:163`: `kill -0` answers for any process with the pid; after a
  reuse, `stop` kills another program (`"hit"`).
* `Ec2Cluster.LaunchFailsIfRunning` (`spark_ec2.py:226`) with two operators: the
  check and the launches are separate calls.
* `Ec2Cluster.GroupsSetUp` with two rules and one interrupt: `rules == []` stands
  for "just now created" (`spark_ec2.py:237`), and a group with some rules is
  taken as set up.
* `Ec2Cluster.AtMostFiveRetries`: a failing ssh is retried six times
  (`spark_ec2.py:616` says five, the test at 625 is `tries > 5`).
* `DriverContext.RefusedOnlyIfRunning` with `Faults`: a constructor registers
  itself (`context.py:199`) before it checks its configuration (117); when it
  raises there, later ones are refused for ever.
* `Accumulators.UpdatesPropagated` with `Together` (two threads get one id,
  `context.py:379`), for accumulators in `raced` (a `+=` of the driver program
  beside the server's loses one, `accumulators.py:217`) and with `MaxReloads = 1` (a second
  unpickling replaces the registered copy, `accumulators.py:107`).
* `RddGraph.BroadcastsSent` and `CacheHeld` without `OneThread`, when there are two
  threads: the set of pickled variables and `_jrdd_val` are shared without a lock (`rdd.py:1409`,
  `1422`).
* `RddPipeline.persist`: the mark is set (`rdd.py:208`) before the argument is checked
  (209) and before the JVM is asked (210), so a `persist` that raises leaves an
  RDD that is marked and not persisted, which ends fusing at it; `unpersist`
  (217) likewise.  `CacheHeld` makes an exception of it.
* `WorkerTask.EndOfData`: input that stops inside a payload is taken for the end
  of the data (`serializers.py:127`), and the task reports success for what came
  before.  Only the JVM knows that its writer failed.
* `Serializers`: a truncated payload of a pickle or marshal format mostly ends
  the stream silently (`"cut"`), one of a `NoOpSerializer` or UTF-8 stream comes
  through shorter (`serializers.py:141`); `zip` of RDDs with different batch sizes drops elements
  (`rdd.py:1306`); an empty payload ends a `NoOpSerializer` stream
  (`serializers.py:144`).
* `RddActions`: `reduce` drops an intermediate result that is `None`
  (`rdd.py:613`); `fold` calls `op(obj, acc)`, which reverses the elements for an
  operator that does not commute (`rdd.py:639`), and hands the caller's zero
  value to an `op` that may modify it (`rdd.py:642`).
* `RddShuffle`: `hash(None)` differs between machines (`rdd.py:1068`); descending,
  `sortByKey` leaves the middle bins empty (`rdd.py:484`), and it raises
  `IndexError` without elements (`rdd.py:480`).
* `StatCounter`: the extrema of a counter more than ten times smaller or larger
  are lost in a merge (`statcounter.py:72`).
* `MllibVectors`: a sparse vector built from pairs with a repeated index can be
  written and not read (`linalg.py:58`); a matrix without elements cannot be
  serialised (`_common.py:215`); `exp` overflows for points far on the negative
  side (`classification.py:66`).

## Not modelled

The HA standby and the JournalNodes and the classes of Hive, Oozie, Hue, Pig,
Sqoop and HCatalog (no manifest of the deployment includes them; Hue's init
script is the distribution's), templates and XML configuration (text
substitution), JMX query lists, the ssh wrappers around `spark-daemon.sh` (no
state), launch scripts, Windows scripts and examples, `cloudpickle.py` (third
party), `sql.py`, MLlib's training, ALS and naive Bayes, `SparkConf`, `addFile`
and the shell (thin calls into the JVM), `pipe` and `saveAsTextFile`.  Numbers
are integers or exact fractions: rounding of floats and the statistical quality
of samples are outside.  The JVM side of Spark, Puppet, Upstart, Fabric and EC2
are external: modelled as far as the code here depends on them.

## Plan

What is left is outside the prover's reach or asks for a different model: the
algorithms of `data` as recursive functions on numbered places, so that the
least-number argument of `FlattenFacts` applies to them, starting with `Batched`
and `combineByKey`; and two EC2 operators at once, where the theorems would have
to say what each launch may rely on although the other goes on.
