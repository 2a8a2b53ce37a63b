------------------------- MODULE HadoopMasterProofs -------------------------
(***************************************************************************)
(* Proofs about HadoopMaster for every set of profiles and every number of *)
(* failures, interruptions and services that die.                          *)
(***************************************************************************)
EXTENDS HadoopMaster, TLAPS

(* The catalog of the configuration, spelled out.                          *)
LEMMA EdgesAre ==
    ASSUME TypeOK
    PROVE  Edges = HadoopEdges \cup NamenodeEdges \cup PrimaryEdges(conf.ha) \cup
                     (IF conf.yarn THEN ResourcemanagerEdges \cup HistoryserverEdges
                                   ELSE JobtrackerEdges)
BY DEF TypeOK, Edges, Catalog

LEMMA EndsDeclared ==
    ASSUME TypeOK
    PROVE  /\ \A e \in Edges : e[1] \in Resources /\ e[2] \in Resources
           /\ \A r \in Resources : \E e \in Edges : r = e[1] \/ r = e[2]
BY DEF TypeOK, Resources, Declared, Edges

MasterResources ==
    {P("hadoop-client"), F("conf"), P("namenode"), F("hosts.exclude"), F("name"),
     E("format"), S("namenode"), D("/tmp"), D("/user"), D("/user/hdfs"), D("/var"),
     D("/var/lib"), D("/var/log")}
YarnResources ==
    {D("/var/log/hadoop-yarn"), P("resourcemanager"), S("resourcemanager"),
     D("/user/history"), P("historyserver"), S("historyserver")}
Mrv1Resources ==
    {D("/tmp/mapred"), D("/tmp/mapred/system"), D("/var/lib/hadoop-hdfs"),
     D("/var/lib/hadoop-hdfs/staging"), P("jobtracker"), S("jobtracker")}

LEMMA ResourcesAre ==
    ASSUME TypeOK, NEW r \in Resources
    PROVE  \/ r \in MasterResources
           \/ conf.ha /\ r = E("transition")
           \/ conf.yarn /\ r \in YarnResources
           \/ ~conf.yarn /\ r \in Mrv1Resources
<1>1. PICK e \in Edges : r = e[1] \/ r = e[2]
  BY EndsDeclared
<1>2. CASE e \in HadoopEdges \cup NamenodeEdges
  BY <1>1, <1>2 DEF HadoopEdges, NamenodeEdges, MasterResources, P, F, E, S
<1>3. CASE e \in PrimaryEdges(conf.ha)
  BY <1>1, <1>3 DEF PrimaryEdges, DirDefault, MasterResources, P, F, E, S, D
<1>4. CASE conf.yarn /\ e \in ResourcemanagerEdges \cup HistoryserverEdges
  BY <1>1, <1>4 DEF ResourcemanagerEdges, HistoryserverEdges, MasterResources, YarnResources, P, S, D
<1>5. CASE ~conf.yarn /\ e \in JobtrackerEdges
  BY <1>1, <1>5 DEF JobtrackerEdges, MapredDirs, MasterResources, Mrv1Resources, P, S, D
<1> QED BY <1>2, <1>3, <1>4, <1>5, EdgesAre

(* The requires that the proofs follow.                                    *)
LEMMA Requires ==
    ASSUME TypeOK
    PROVE  /\ <<E("format"), F("name")>> \in Edges
           /\ <<S("namenode"), E("format")>> \in Edges
           /\ <<S("namenode"), F("hosts.exclude")>> \in Edges
           /\ <<F("hosts.exclude"), P("namenode")>> \in Edges
           /\ \A x \in {"/tmp", "/user", "/var"} : <<D(x), DirDefault(conf.ha)>> \in Edges
           /\ <<D("/user/hdfs"), D("/user")>> \in Edges
           /\ \A x \in {"/var/lib", "/var/log"} : <<D(x), D("/var")>> \in Edges
           /\ conf.ha => <<E("transition"), S("namenode")>> \in Edges
BY EdgesAre DEF NamenodeEdges, PrimaryEdges

LEMMA YarnRequires ==
    ASSUME TypeOK, conf.yarn
    PROVE  /\ <<D("/var/log/hadoop-yarn"), D("/var/log")>> \in Edges
           /\ <<P("resourcemanager"), D("/var/log/hadoop-yarn")>> \in Edges
           /\ <<S("resourcemanager"), P("resourcemanager")>> \in Edges
           /\ <<D("/user/history"), D("/user")>> \in Edges
           /\ <<P("historyserver"), D("/user/history")>> \in Edges
           /\ <<S("historyserver"), P("historyserver")>> \in Edges
BY EdgesAre DEF ResourcemanagerEdges, HistoryserverEdges

LEMMA Mrv1Requires ==
    ASSUME TypeOK, ~conf.yarn
    PROVE  /\ <<D("/tmp/mapred"), D("/tmp")>> \in Edges
           /\ <<D("/tmp/mapred/system"), D("/tmp/mapred")>> \in Edges
           /\ <<D("/var/lib/hadoop-hdfs"), D("/var/lib")>> \in Edges
           /\ <<D("/var/lib/hadoop-hdfs/staging"), D("/var/lib/hadoop-hdfs")>> \in Edges
           /\ \A d \in MapredDirs : <<P("jobtracker"), D(d)>> \in Edges
           /\ <<S("jobtracker"), P("jobtracker")>> \in Edges
BY EdgesAre DEF JobtrackerEdges

-----------------------------------------------------------------------------
(* A resource that is reported ok was not evaluated before what it         *)
(* requires, and that is ok too.                                           *)
DepsOK == \A e \in Edges : status[e[1]] = "ok" => status[e[2]] = "ok"

(* Whoever uses HDFS came after the format, which is never undone.         *)
FormatFirst ==
    (S("namenode") \in present \/ \E r \in present : r[1] = "directory") =>
        E("format") \in present

(* Packages and directories stay once they are reported.                   *)
Lasting == \A r \in Resources :
              r[1] \in {"package", "directory"} /\ status[r] = "ok" => r \in present

(* What a package in the present state waited for.                         *)
PackagesAfterDirs ==
    /\ P("resourcemanager") \in present => D("/var/log/hadoop-yarn") \in present
    /\ P("historyserver") \in present => D("/user/history") \in present
    /\ P("jobtracker") \in present => \A d \in MapredDirs : D(d) \in present
    /\ \A r \in present : r[1] = "service" => P(r[2]) \in present

(* A run that nothing disturbs: what is reported is there, and nothing has *)
(* failed unless a standby NameNode was met, of which it stays one.        *)
AllWell == \A r \in Resources : status[r] \in {"todo", "ok"}
Standby == conf.ha /\ ~active /\ status[E("transition")] = "ok"
CleanOK ==
    phase = "apply" /\ clean =>
        /\ \A r \in Resources : status[r] = "ok" /\ r # E("transition") => r \in present
        /\ AllWell \/ Standby

Inv == TypeOK /\ DepsOK /\ FormatFirst /\ Lasting /\ PackagesAfterDirs /\ CleanOK

LEMMA InitInv == ASSUME Init PROVE Inv
<1>1. TypeOK
  <2>1. MaxFaults[conf] \in Nat
    BY MasterAssumption DEF Init
  <2>2. Len(StopOrder) = 5
    BY DEF StopOrder
  <2>3. stopAt \in 1 .. Len(StopOrder) /\ faults \in 0 .. MaxFaults[conf]
    BY <2>1, <2>2 DEF Init
  <2> QED BY <2>3 DEF Init, TypeOK
<1>2. DepsOK /\ Lasting
  BY <1>1, EndsDeclared DEF Init, DepsOK, Lasting
<1> QED BY <1>1, <1>2 DEF Init, Inv, FormatFirst, PackagesAfterDirs, CleanOK

-----------------------------------------------------------------------------
(* Resources and Edges depend on the configuration alone.                  *)
LEMMA SameCatalog ==
    ASSUME conf' = conf
    PROVE  Edges' = Edges /\ Resources' = Resources /\ \A k : Kind(k)' = Kind(k)
BY DEF Edges, Resources, Kind

(* The namenode is formatted only once, so formatting wipes nothing.       *)
LEMMA ApplyAdds ==
    ASSUME Inv, NEW r \in Resources, apply(r)
    PROVE  /\ present' = IF r = E("transition") THEN present ELSE present \cup {r}
           /\ owned' = IF r[1] = "directory" THEN owned \cup {r} ELSE owned
<1>1. CASE r = E("format")
  <2>1. r \notin present /\ r[1] # "directory" /\ r # E("transition")
    BY <1>1 DEF apply, InSync, E
  <2>2. present \cap Kind("directory") = {}
    BY <1>1, <2>1 DEF Inv, FormatFirst, Kind
  <2>3. present \ Kind("directory") = present /\ owned \cap present = owned
    BY <2>2 DEF Inv, TypeOK
  <2> QED BY <1>1, <2>1, <2>3 DEF apply
<1>2. CASE r # E("format")
  <2>1. owned \cap present = owned
    BY DEF Inv, TypeOK
  <2> QED BY <1>2, <2>1 DEF apply
<1> QED BY <1>1, <1>2

(* What a step of a Puppet run on resource r may do, whichever it is.      *)
LEMMA EvaluateShape ==
    ASSUME Inv, NEW r \in Resources, Evaluate(r) \/ disturbed(r)
    PROVE  /\ phase = "apply" /\ phase' = "apply" /\ status[r] = "todo"
           /\ conf' = conf /\ stopAt' = stopAt
           /\ \E st \in {"ok", "failed", "skipped"} :
                 /\ status' = [status EXCEPT ![r] = st]
                 /\ st = "ok" => \A e \in Edges : e[1] = r => status[e[2]] = "ok"
                 /\ st = "ok" /\ r # E("transition") => r \in present'
           /\ present \subseteq present'
           /\ \A q \in present' : q \in present \/ q = r
           /\ r \in present' \ present =>
                 /\ Works(r) /\ r # E("transition")
                 /\ \A e \in Edges : e[1] = r => status[e[2]] = "ok"
<1>1. ASSUME Ready(r), ~Blocked(r), NEW e \in Edges, e[1] = r PROVE status[e[2]] = "ok"
  <2>1. status[e[2]] \in {"todo", "ok", "failed", "skipped"}
    BY EndsDeclared DEF Inv, TypeOK
  <2> QED BY <1>1, <2>1 DEF Ready, Blocked
<1>2. CASE skip(r) \/ fail(r)
  BY <1>2 DEF skip, fail, Ready, Report, host
<1>3. CASE noop(r)
  <2>1. r # E("transition") => r \in present
    BY <1>3 DEF noop, InSync
  <2> QED BY <1>3, <1>1, <2>1 DEF noop, Ready, Report, host
<1>4. CASE apply(r)
  BY <1>4, <1>1, ApplyAdds DEF apply, Ready, Report
<1>5. CASE disturbed(r)
  <2>1. present' = present \/ (r[1] = "directory" /\ present' = present \cup {r})
    BY <1>5 DEF disturbed, HalfMade
  <2>2. r[1] = "directory" => r # E("transition")
    BY DEF E
  <2> QED BY <1>5, <1>1, <2>1, <2>2 DEF disturbed, Ready, Report
<1> QED BY <1>2, <1>3, <1>4, <1>5 DEF Evaluate

LEMMA EvaluateType ==
    ASSUME Inv, NEW r \in Resources, Evaluate(r) \/ disturbed(r) PROVE TypeOK'
<1>1. conf' \in Profiles /\ Resources' = Resources /\ Kind("directory")' = Kind("directory")
  BY EvaluateShape, SameCatalog DEF Inv, TypeOK
<1>2. present' \subseteq Resources /\ status' \in [Resources -> {"todo", "ok", "failed", "skipped"}]
  BY EvaluateShape DEF Inv, TypeOK
<1>3. phase' \in {"idle", "apply", "stop"} /\ stopAt' \in 1 .. Len(StopOrder)
  BY EvaluateShape DEF Inv, TypeOK
<1>4. active' \in BOOLEAN /\ formatted' \in BOOLEAN /\ clean' \in BOOLEAN
  BY DEF Evaluate, skip, noop, apply, fail, disturbed, host, Inv, TypeOK
<1>5. faults' \in 0 .. MaxFaults[conf]'
  <2>1. MaxFaults[conf] \in Nat /\ conf' = conf
    BY MasterAssumption, EvaluateShape DEF Inv, TypeOK
  <2>2. faults' = faults \/ (faults < MaxFaults[conf] /\ faults' = faults + 1)
    BY DEF Evaluate, skip, noop, apply, fail, disturbed, Fault
  <2> QED BY <2>1, <2>2 DEF Inv, TypeOK
<1>6. owned' \subseteq present' \cap Kind("directory")
  <2>1. CASE apply(r)
    BY <2>1, ApplyAdds DEF Inv, TypeOK, Kind, E
  <2>2. CASE disturbed(r)
    BY <2>2, EvaluateShape DEF disturbed, HalfMade, Inv, TypeOK
  <2>3. CASE skip(r) \/ noop(r) \/ fail(r)
    BY <2>3 DEF skip, noop, fail, host, Inv, TypeOK
  <2> QED BY <2>1, <2>2, <2>3 DEF Evaluate
<1> QED BY <1>1, <1>2, <1>3, <1>4, <1>5, <1>6 DEF TypeOK

LEMMA EvaluateDeps ==
    ASSUME Inv, NEW r \in Resources, Evaluate(r) \/ disturbed(r)
    PROVE  DepsOK' /\ FormatFirst' /\ Lasting' /\ PackagesAfterDirs'
<1>1. Edges' = Edges /\ Resources' = Resources
  BY EvaluateShape, SameCatalog
<1>2. PICK st \in {"ok", "failed", "skipped"} :
          /\ status' = [status EXCEPT ![r] = st]
          /\ st = "ok" => \A e \in Edges : e[1] = r => status[e[2]] = "ok"
          /\ st = "ok" /\ r # E("transition") => r \in present'
  BY EvaluateShape
<1>3. DepsOK'
  BY <1>1, <1>2, EvaluateShape, EndsDeclared DEF DepsOK, Inv, TypeOK
<1>4. FormatFirst'
  BY EvaluateShape DEF FormatFirst, Works, Serving, Inv
<1>5. Lasting'
  <2> SUFFICES ASSUME NEW q \in Resources, q[1] \in {"package", "directory"}, status'[q] = "ok"
               PROVE  q \in present'
    BY <1>1 DEF Lasting
  <2>1. CASE q = r
    <3>1. st = "ok" /\ r # E("transition")
      BY <1>2, <2>1 DEF E, Inv, TypeOK
    <3> QED BY <1>2, <2>1, <3>1
  <2>2. CASE q # r
    <3>1. status[q] = "ok"
      BY <1>2, <2>2 DEF Inv, TypeOK
    <3> QED BY <3>1, EvaluateShape DEF Inv, Lasting
  <2> QED BY <2>1, <2>2
<1>6. PackagesAfterDirs'
  <2>1. ASSUME NEW q \in present' PROVE q \in present \/ q = r
    BY EvaluateShape
  <2>2. ASSUME r \in present' \ present, NEW d \in Resources, d[1] = "directory", <<r, d>> \in Edges
        PROVE  d \in present
    BY <2>2, EvaluateShape DEF Inv, Lasting
  <2>3. P("resourcemanager") \in present' => D("/var/log/hadoop-yarn") \in present'
    <3>1. CASE r = P("resourcemanager") /\ r \in present' \ present
      <4>1. conf.yarn
        BY <3>1, ResourcesAre DEF Inv, MasterResources, Mrv1Resources, P, F, E, S, D
      <4>2. <<r, D("/var/log/hadoop-yarn")>> \in Edges
        BY <3>1, <4>1, YarnRequires DEF Inv
      <4>3. D("/var/log/hadoop-yarn") \in Resources /\ D("/var/log/hadoop-yarn")[1] = "directory"
        BY <4>2, EndsDeclared DEF Inv, D
      <4> QED BY <3>1, <4>2, <4>3, <2>2, EvaluateShape
    <3> QED BY <3>1, <2>1, EvaluateShape DEF Inv, PackagesAfterDirs
  <2>4. P("historyserver") \in present' => D("/user/history") \in present'
    <3>1. CASE r = P("historyserver") /\ r \in present' \ present
      <4>1. conf.yarn
        BY <3>1, ResourcesAre DEF Inv, MasterResources, Mrv1Resources, P, F, E, S, D
      <4>2. <<r, D("/user/history")>> \in Edges
        BY <3>1, <4>1, YarnRequires DEF Inv
      <4>3. D("/user/history") \in Resources /\ D("/user/history")[1] = "directory"
        BY <4>2, EndsDeclared DEF Inv, D
      <4> QED BY <3>1, <4>2, <4>3, <2>2, EvaluateShape
    <3> QED BY <3>1, <2>1, EvaluateShape DEF Inv, PackagesAfterDirs
  <2>5. P("jobtracker") \in present' => \A d \in MapredDirs : D(d) \in present'
    <3>1. CASE r = P("jobtracker") /\ r \in present' \ present
      <4>1. ~conf.yarn
        BY <3>1, ResourcesAre DEF Inv, MasterResources, YarnResources, P, F, E, S, D
      <4>2. ASSUME NEW d \in MapredDirs PROVE D(d) \in present'
        <5>1. <<r, D(d)>> \in Edges
          BY <3>1, <4>1, Mrv1Requires DEF Inv
        <5>2. D(d) \in Resources /\ D(d)[1] = "directory"
          BY <5>1, EndsDeclared DEF Inv, D
        <5> QED BY <3>1, <5>1, <5>2, <2>2, EvaluateShape
      <4> QED BY <4>2
    <3> QED BY <3>1, <2>1, EvaluateShape DEF Inv, PackagesAfterDirs
  <2>6. \A q \in present' : q[1] = "service" => P(q[2]) \in present'
    BY <2>1, EvaluateShape DEF Inv, PackagesAfterDirs, Works
  <2> QED BY <2>3, <2>4, <2>5, <2>6 DEF PackagesAfterDirs
<1> QED BY <1>3, <1>4, <1>5, <1>6

-----------------------------------------------------------------------------
(* Every directory comes after the NameNode and, with HA, the transition.  *)
LEMMA DirsNeedNamenode ==
    ASSUME Inv, NEW r \in Resources, r[1] = "directory",
           \A e \in Edges : e[1] = r => status[e[2]] = "ok"
    PROVE  /\ status[S("namenode")] = "ok"
           /\ conf.ha => status[E("transition")] = "ok"
           /\ \A p \in Parent : p[1] = r[2] => status[D(p[2])] = "ok"
<1> USE DEF Inv
<1>1. ASSUME NEW q, NEW x, <<q, x>> \in Edges, status[q] = "ok" PROVE status[x] = "ok"
  BY <1>1 DEF DepsOK
<1>2. ASSUME NEW x, <<r, x>> \in Edges PROVE status[x] = "ok"
  BY <1>2
<1>3. ASSUME NEW x \in {"/tmp", "/user", "/var"}, status[D(x)] = "ok" \/ r = D(x)
      PROVE  status[DirDefault(conf.ha)] = "ok"
  BY <1>1, <1>2, <1>3, Requires
<1>4. ASSUME status[DirDefault(conf.ha)] = "ok"
      PROVE  status[S("namenode")] = "ok" /\ (conf.ha => status[E("transition")] = "ok")
  BY <1>1, <1>4, Requires DEF DirDefault
<1>5. CASE r \in {D("/tmp"), D("/user"), D("/var")}
  BY <1>3, <1>4, <1>5 DEF Parent, D
<1>6. CASE r \in {D("/user/hdfs"), D("/var/lib"), D("/var/log")}
  <2>1. /\ r = D("/user/hdfs") => status[D("/user")] = "ok"
        /\ r \in {D("/var/lib"), D("/var/log")} => status[D("/var")] = "ok"
    BY <1>2, Requires
  <2>2. status[DirDefault(conf.ha)] = "ok"
    BY <1>3, <1>6, <2>1
  <2> QED BY <1>4, <1>6, <2>1, <2>2 DEF Parent, D
<1>7. CASE conf.yarn /\ r = D("/var/log/hadoop-yarn")
  <2>1. status[D("/var/log")] = "ok"
    BY <1>2, <1>7, YarnRequires
  <2>2. status[D("/var")] = "ok"
    BY <1>1, <2>1, Requires
  <2> QED BY <1>3, <1>4, <1>7, <2>1, <2>2 DEF Parent, D
<1>8. CASE conf.yarn /\ r = D("/user/history")
  <2>1. status[D("/user")] = "ok"
    BY <1>2, <1>8, YarnRequires
  <2> QED BY <1>3, <1>4, <1>8, <2>1 DEF Parent, D
<1>9. CASE ~conf.yarn /\ r \in {D("/tmp/mapred"), D("/tmp/mapred/system")}
  <2>1. /\ r = D("/tmp/mapred/system") => status[D("/tmp/mapred")] = "ok"
        /\ status[D("/tmp")] = "ok"
    BY <1>1, <1>2, <1>9, Mrv1Requires
  <2> QED BY <1>3, <1>4, <1>9, <2>1 DEF Parent, D
<1>10. CASE ~conf.yarn /\ r \in {D("/var/lib/hadoop-hdfs"), D("/var/lib/hadoop-hdfs/staging")}
  <2>1. /\ r = D("/var/lib/hadoop-hdfs/staging") => status[D("/var/lib/hadoop-hdfs")] = "ok"
        /\ status[D("/var/lib")] = "ok"
    BY <1>1, <1>2, <1>10, Mrv1Requires
  <2>2. status[D("/var")] = "ok"
    BY <1>1, <2>1, Requires
  <2> QED BY <1>3, <1>4, <1>10, <2>1, <2>2 DEF Parent, D
<1> QED BY <1>5, <1>6, <1>7, <1>8, <1>9, <1>10, ResourcesAre
        DEF MasterResources, YarnResources, Mrv1Resources, P, F, E, S, D

(* In an undisturbed run a command whose requires are met works, unless it *)
(* is a directory that meets a standby.                                    *)
LEMMA WorksWhenClean ==
    ASSUME Inv, phase = "apply", clean, NEW r \in Resources, Ready(r), ~Blocked(r), ~InSync(r)
    PROVE  Works(r) \/ Standby
<1> USE DEF Inv
<1>1. \A e \in Edges : e[1] = r => status[e[2]] = "ok"
  <2>1. ASSUME NEW e \in Edges, e[1] = r PROVE status[e[2]] = "ok"
    <3>1. status[e[2]] \in {"todo", "ok", "failed", "skipped"}
      BY EndsDeclared DEF TypeOK
    <3> QED BY <2>1, <3>1 DEF Ready, Blocked
  <2> QED BY <2>1
<1>2. ASSUME NEW x, <<r, x>> \in Edges PROVE status[x] = "ok" /\ x \in Resources
  BY <1>1, <1>2, EndsDeclared
<1>3. ASSUME NEW x \in Resources, status[x] = "ok", x # E("transition") PROVE x \in present
  BY <1>3 DEF CleanOK
<1>4. CASE r[1] = "directory"
  <2>1. /\ status[S("namenode")] = "ok"
        /\ conf.ha => status[E("transition")] = "ok"
        /\ \A p \in Parent : p[1] = r[2] => status[D(p[2])] = "ok"
    BY <1>1, <1>4, DirsNeedNamenode
  <2>2. S("namenode") \in present
    <3>1. S("namenode") \in Resources /\ S("namenode") # E("transition")
      BY Requires, EndsDeclared DEF S, E
    <3> QED BY <2>1, <3>1, <1>3
  <2>3. CASE conf.ha /\ ~active
    BY <2>1, <2>3 DEF Standby
  <2>4. CASE ~(conf.ha /\ ~active)
    <3>1. Serving
      BY <2>2, <2>4 DEF Serving
    <3>2. r \notin present
      <4>1. r # E("transition")
        BY <1>4 DEF E
      <4>2. InSync(r) = (r \in present /\ Serving)
        BY <1>4, <4>1 DEF InSync
      <4> QED BY <3>1, <4>2
    <3>3. ASSUME NEW p \in Parent, p[1] = r[2] PROVE D(p[2]) \in present
      <4>1. status[D(p[2])] = "ok" /\ D(p[2]) # E("transition")
        BY <2>1, <3>3 DEF D, E
      <4>2. D(p[2]) \in Resources
        <5>1. {D("/tmp"), D("/user"), D("/var"), D("/var/lib"), D("/var/log")} \subseteq Resources
          BY Requires, EndsDeclared
        <5>2. ~conf.yarn => {D("/tmp/mapred"), D("/var/lib/hadoop-hdfs")} \subseteq Resources
          BY Mrv1Requires, EndsDeclared
        <5>3. r \in {D("/tmp/mapred/system"), D("/var/lib/hadoop-hdfs/staging")} => ~conf.yarn
          BY ResourcesAre DEF MasterResources, YarnResources, P, F, E, S, D
        <5>4. r = D(r[2])
          BY <1>4, ResourcesAre DEF MasterResources, YarnResources, Mrv1Resources, P, F, E, S, D
        <5> QED BY <3>3, <5>1, <5>2, <5>3, <5>4 DEF Parent
      <4> QED BY <4>1, <4>2, <1>3
    <3> QED BY <1>4, <3>1, <3>2, <3>3 DEF Works, S, E
  <2> QED BY <2>3, <2>4
<1>5. CASE r = E("format")
  <2>1. F("name") \in Resources /\ status[F("name")] = "ok" /\ F("name") # E("transition")
    BY <1>2, <1>5, Requires DEF F, E
  <2>2. F("name") \in present
    BY <2>1, <1>3
  <2> QED BY <1>5, <2>2 DEF Works, S, E
<1>6. CASE r = E("transition")
  <2>1. conf.ha
    BY <1>6, ResourcesAre DEF MasterResources, YarnResources, Mrv1Resources, P, F, E, S, D
  <2>2. S("namenode") \in Resources /\ status[S("namenode")] = "ok" /\ S("namenode") # E("transition")
    BY <1>2, <1>6, <2>1, Requires DEF S, E
  <2>3. S("namenode") \in present
    BY <2>2, <1>3
  <2> QED BY <1>6, <2>3 DEF Works, S, E
<1>7. CASE r[1] = "service"
  <2>1. CASE r = S("namenode")
    <3>1. status[E("format")] = "ok" /\ status[F("hosts.exclude")] = "ok"
      BY <1>2, <2>1, Requires
    <3>2. status[P("namenode")] = "ok"
      BY <3>1, Requires DEF DepsOK
    <3>3. {E("format"), P("namenode")} \subseteq Resources
      BY Requires, EndsDeclared
    <3>4. E("format") \in present /\ P("namenode") \in present
      BY <3>1, <3>2, <3>3, <1>3 DEF E, P
    <3> QED BY <2>1, <3>4 DEF Works, S, E
  <2>2. CASE conf.yarn /\ r \in {S("resourcemanager"), S("historyserver")}
    <3>1. P(r[2]) \in Resources /\ status[P(r[2])] = "ok" /\ P(r[2]) # E("transition")
      BY <1>2, <2>2, YarnRequires DEF S, P, E
    <3>2. P(r[2]) \in present
      BY <3>1, <1>3
    <3> QED BY <1>7, <2>2, <3>2 DEF Works, S, E
  <2>3. CASE ~conf.yarn /\ r = S("jobtracker")
    <3>1. P(r[2]) \in Resources /\ status[P(r[2])] = "ok" /\ P(r[2]) # E("transition")
      BY <1>2, <2>3, Mrv1Requires DEF S, P, E
    <3>2. P(r[2]) \in present
      BY <3>1, <1>3
    <3> QED BY <1>7, <2>3, <3>2 DEF Works, S, E
  <2> QED BY <1>7, <2>1, <2>2, <2>3, ResourcesAre
          DEF MasterResources, YarnResources, Mrv1Resources, P, F, E, S, D
<1>8. CASE r[1] \notin {"directory", "service"} /\ r \notin {E("format"), E("transition")}
  BY <1>8 DEF Works, S
<1> QED BY <1>4, <1>5, <1>6, <1>7, <1>8

LEMMA EvaluateClean ==
    ASSUME Inv, NEW r \in Resources, Evaluate(r) \/ disturbed(r) PROVE CleanOK'
<1> SUFFICES ASSUME clean' PROVE CleanOK'
  BY DEF CleanOK
<1>1. clean /\ phase = "apply" /\ Evaluate(r)
  BY EvaluateShape DEF Evaluate, skip, noop, apply, fail, disturbed
<1>2. conf' = conf /\ Resources' = Resources /\ present \subseteq present'
  BY EvaluateShape, SameCatalog
<1>3. PICK st \in {"ok", "failed", "skipped"} :
          /\ status' = [status EXCEPT ![r] = st]
          /\ st = "ok" /\ r # E("transition") => r \in present'
  BY EvaluateShape
<1>4. \A q \in Resources : status'[q] = "ok" /\ q # E("transition") => q \in present'
  BY <1>1, <1>2, <1>3 DEF Inv, CleanOK, TypeOK
<1>5. Standby => Standby'
  <2> SUFFICES ASSUME Standby PROVE Standby'
    OBVIOUS
  <2>1. r # E("transition")
    BY EvaluateShape DEF Standby
  <2>2. active' = active
    BY <1>1, <2>1 DEF Evaluate, skip, noop, apply, fail, host, Inv, TypeOK
  <2>3. status'[E("transition")] = status[E("transition")]
    BY <1>3, <2>1 DEF Inv, TypeOK
  <2> QED BY <1>2, <2>2, <2>3 DEF Standby
<1>6. AllWell' \/ Standby'
  <2>1. CASE skip(r)
    <3>1. \E q \in Resources : status[q] \in {"failed", "skipped"}
      BY <2>1, EndsDeclared DEF skip, Blocked, Inv
    <3>2. ~AllWell
      BY <3>1 DEF AllWell
    <3> QED BY <1>1, <1>5, <3>2 DEF Inv, CleanOK
  <2>2. CASE noop(r) \/ apply(r)
    <3>1. status' = [status EXCEPT ![r] = "ok"]
      BY <2>2 DEF noop, apply, Report
    <3>2. AllWell => AllWell'
      BY <1>2, <3>1 DEF AllWell, Inv, TypeOK
    <3> QED BY <1>1, <1>5, <3>2 DEF Inv, CleanOK
  <2>3. CASE fail(r)
    <3>1. Standby
      BY <1>1, <2>3, WorksWhenClean DEF fail
    <3> QED BY <1>5, <3>1
  <2> QED BY <1>1, <2>1, <2>2, <2>3 DEF Evaluate
<1> QED BY <1>2, <1>4, <1>6 DEF CleanOK

-----------------------------------------------------------------------------
(* The steps that only begin or end something.                             *)
LEMMA OperatorInv ==
    ASSUME Inv, puppetApply \/ finish \/ interrupt \/ stopBegin \/ stopAbort \/ UNCHANGED vars
    PROVE  Inv'
<1>1. UNCHANGED host /\ Edges' = Edges /\ Resources' = Resources
                     /\ Kind("directory")' = Kind("directory")
  BY SameCatalog DEF puppetApply, finish, interrupt, stopBegin, stopAbort, vars, host
<1>2. FormatFirst' /\ PackagesAfterDirs'
  BY <1>1 DEF host, Inv, FormatFirst, PackagesAfterDirs
<1>3. Len(StopOrder) = 5
  BY DEF StopOrder
<1>4. CASE puppetApply
  <2>1. TypeOK'
    <3>1. status' \in [Resources -> {"todo", "ok", "failed", "skipped"}]
      BY <1>4 DEF puppetApply
    <3> QED BY <1>1, <1>4, <3>1 DEF puppetApply, host, Inv, TypeOK
  <2>2. DepsOK' /\ Lasting' /\ CleanOK'
    BY <1>1, <1>4, EndsDeclared DEF puppetApply, Inv, DepsOK, Lasting, CleanOK, AllWell
  <2> QED BY <1>2, <2>1, <2>2 DEF Inv
<1>5. CASE finish \/ interrupt \/ stopBegin \/ stopAbort \/ UNCHANGED vars
  <2>1. status' = status /\ formatted' = formatted
    BY <1>5 DEF finish, interrupt, stopBegin, stopAbort, vars, run
  <2>2. faults' \in 0 .. MaxFaults[conf]'
    <3>1. MaxFaults[conf] \in Nat /\ conf' = conf
      BY MasterAssumption, <1>1 DEF host, Inv, TypeOK
    <3>2. faults' = faults \/ (faults < MaxFaults[conf] /\ faults' = faults + 1)
      BY <1>5 DEF finish, interrupt, stopBegin, stopAbort, vars, Fault
    <3> QED BY <3>1, <3>2 DEF Inv, TypeOK
  <2>3. stopAt' \in 1 .. Len(StopOrder)
    BY <1>3, <1>5 DEF finish, interrupt, stopBegin, stopAbort, vars, Inv, TypeOK
  <2>4. phase' \in {"idle", "apply", "stop"} /\ clean' \in BOOLEAN
    BY <1>5 DEF finish, interrupt, stopBegin, stopAbort, vars, run, Inv, TypeOK
  <2>5. TypeOK'
    BY <1>1, <2>1, <2>2, <2>3, <2>4 DEF host, Inv, TypeOK
  <2>6. DepsOK' /\ Lasting'
    BY <1>1, <2>1 DEF host, Inv, DepsOK, Lasting
  <2>7. CleanOK'
    <3>1. CASE UNCHANGED vars
      BY <1>1, <3>1 DEF vars, Inv, CleanOK, AllWell, Standby
    <3>2. CASE ~ UNCHANGED vars
      BY <1>5, <3>2 DEF finish, interrupt, stopBegin, stopAbort, CleanOK
    <3> QED BY <3>1, <3>2
  <2> QED BY <1>2, <2>5, <2>6, <2>7 DEF Inv
<1> QED BY <1>4, <1>5

(* A service goes down, by itself or by stopHdfsMaster.                    *)
LEMMA DownInv ==
    ASSUME Inv, stopNext \/ \E r \in Kind("service") : serviceDies(r[2]) PROVE Inv'
<1>1. PICK x : present' = present \ {S(x)}
  BY DEF stopNext, serviceDies
<1>2. /\ UNCHANGED <<conf, owned, status, formatted>> /\ clean' = FALSE
      /\ Edges' = Edges /\ Resources' = Resources /\ Kind("directory")' = Kind("directory")
  BY SameCatalog DEF stopNext, serviceDies
<1>3. ASSUME NEW q, q[1] # "service" PROVE q \in present' <=> q \in present
  BY <1>1, <1>3 DEF S
<1>4. TypeOK'
  <2>1. faults' \in 0 .. MaxFaults[conf]'
    <3>1. MaxFaults[conf] \in Nat
      BY MasterAssumption DEF Inv, TypeOK
    <3>2. faults' = faults \/ (faults < MaxFaults[conf] /\ faults' = faults + 1)
      BY DEF stopNext, serviceDies, Fault
    <3> QED BY <1>2, <3>1, <3>2 DEF Inv, TypeOK
  <2>2. stopAt' \in 1 .. Len(StopOrder)
    <3>1. Len(StopOrder) = 5
      BY DEF StopOrder
    <3>2. stopAt' \in {1, stopAt} \/ (stopAt # Len(StopOrder) /\ stopAt' = stopAt + 1)
      BY DEF stopNext, serviceDies
    <3> QED BY <3>1, <3>2 DEF Inv, TypeOK
  <2>3. phase' \in {"idle", "apply", "stop"} /\ active' \in BOOLEAN
    BY DEF stopNext, serviceDies, Inv, TypeOK
  <2>4. owned' \subseteq present' \cap Kind("directory")
    BY <1>2, <1>3 DEF Inv, TypeOK, Kind
  <2> QED BY <1>1, <1>2, <2>1, <2>2, <2>3, <2>4 DEF Inv, TypeOK
<1>5. DepsOK'
  BY <1>2 DEF Inv, DepsOK
<1>6. FormatFirst'
  BY <1>1, <1>3 DEF Inv, FormatFirst, E
<1>7. Lasting'
  BY <1>2, <1>3 DEF Inv, Lasting
<1>8. PackagesAfterDirs'
  BY <1>1, <1>3 DEF Inv, PackagesAfterDirs, P, D
<1>9. CleanOK'
  BY <1>2 DEF CleanOK
<1> QED BY <1>4, <1>5, <1>6, <1>7, <1>8, <1>9 DEF Inv

LEMMA NextInv == ASSUME Inv, [Next]_vars PROVE Inv'
<1>1. CASE \E r \in Resources : Evaluate(r) \/ disturbed(r)
  BY <1>1, EvaluateType, EvaluateDeps, EvaluateClean DEF Inv
<1> QED BY <1>1, OperatorInv, DownInv DEF Next

-----------------------------------------------------------------------------
(* The model of the master catalog keeps to the types of its state.        *)
THEOREM TypeCorrect == Spec => []TypeOK
BY InitInv, NextInv, PTL DEF Spec, Inv

(* resourcemanager.pp, historyserver.pp, jobtracker.pp: in every profile,  *)
(* after any number of failed, interrupted and repeated runs, a service    *)
(* runs only if its HDFS directories have been made.                       *)
THEOREM DirsBeforeServices == Spec => []ServicesAfterDirs
<1>1. ASSUME Inv PROVE ServicesAfterDirs
  <2>1. ASSUME NEW x, S(x) \in present PROVE P(x) \in present
    BY <1>1, <2>1 DEF Inv, PackagesAfterDirs, S
  <2> QED BY <1>1, <2>1 DEF Inv, PackagesAfterDirs, ServicesAfterDirs
<1> QED BY <1>1, InitInv, NextInv, PTL DEF Spec

(* namenode.pp: no run formats a NameNode that holds directories, however  *)
(* often runs are repeated after failures.                                 *)
THEOREM NeverWiped == Spec => HdfsNeverWiped
<1>1. ASSUME Inv, Next, NEW r \in present, r[1] = "directory" PROVE r \in present'
  <2>1. CASE \E q \in Resources : Evaluate(q) \/ disturbed(q)
    BY <1>1, <2>1, EvaluateShape
  <2>2. CASE stopNext \/ \E q \in Kind("service") : serviceDies(q[2])
    <3>1. PICK x : present' = present \ {S(x)}
      BY <2>2 DEF stopNext, serviceDies
    <3> QED BY <1>1, <3>1 DEF S
  <2>3. CASE puppetApply \/ finish \/ interrupt \/ stopBegin \/ stopAbort
    BY <1>1, <2>3 DEF puppetApply, finish, interrupt, stopBegin, stopAbort, host
  <2> QED BY <1>1, <2>1, <2>2, <2>3 DEF Next
<1>2. Inv /\ [Next]_vars => [\A r \in present : r[1] = "directory" => r \in present']_vars
  BY <1>1
<1> QED BY <1>2, InitInv, NextInv, PTL DEF Spec, HdfsNeverWiped

(* Whatever earlier runs left behind, one undisturbed run of the catalog   *)
(* succeeds in any order its requires admit and leaves every service       *)
(* running, given an active NameNode with HA.                              *)
THEOREM CleanRunWorks == Spec => []CleanRunSucceeds
<1>1. ASSUME Inv PROVE CleanRunSucceeds
  <2> SUFFICES ASSUME phase = "apply", Ended, clean, conf.ha => active
               PROVE  (\A r \in Resources : status[r] = "ok") /\ Kind("service") \subseteq present
    BY DEF CleanRunSucceeds
  <2>1. AllWell
    BY <1>1 DEF Inv, CleanOK, Standby
  <2>2. \A r \in Resources : status[r] = "ok"
    BY <2>1 DEF AllWell, Ended
  <2>3. \A r \in Kind("service") : r \in Resources /\ r # E("transition")
    BY DEF Kind, E
  <2> QED BY <1>1, <2>2, <2>3 DEF Inv, CleanOK
<1> QED BY <1>1, InitInv, NextInv, PTL DEF Spec
=============================================================================
