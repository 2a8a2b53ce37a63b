-------------------------- MODULE DeploymentProofs --------------------------
(***************************************************************************)
(* Proofs about the three ways to bring up a cluster: ClusterDeploy for    *)
(* any hosts, commands and number of faults; SparkDaemonScript for any     *)
(* operators, instances and pids, crashes, killed scripts and reused pids  *)
(* included; Ec2Cluster for any number of slaves, zones, rules, instances, *)
(* commands and interrupts, as long as one person runs the script at a     *)
(* time (OneOperator).                                                     *)
(***************************************************************************)
EXTENDS ClusterDeploy, SparkDaemons, Ec2Instances, FiniteSetTheorems, TLAPS

CONSTANT Reuse
VARIABLES file, newpid, spoilt
Script == INSTANCE SparkDaemonScript

CONSTANTS NumZones, NumInst, NumRules, Options, MaxCommands, MaxInterrupts
VARIABLES next, groups, rules, given, interrupts
Ec2 == INSTANCE Ec2Cluster

-----------------------------------------------------------------------------
(* Facts about sequences.                                                  *)
LEMMA EmptyType == ASSUME NEW S PROVE <<>> \in Seq(S) /\ Len(<<>>) = 0
OBVIOUS

LEMMA OneType == ASSUME NEW S, NEW x \in S PROVE <<x>> \in Seq(S) /\ Len(<<x>>) = 1
OBVIOUS

LEMMA TwoType ==
    ASSUME NEW S, NEW x \in S, NEW y \in S PROVE <<x, y>> \in Seq(S) /\ Len(<<x, y>>) = 2
OBVIOUS

LEMMA FourType ==
    ASSUME NEW S, NEW w \in S, NEW x \in S, NEW y \in S, NEW z \in S
    PROVE  <<w, x, y, z>> \in Seq(S) /\ Len(<<w, x, y, z>>) = 4
OBVIOUS

LEMMA FunType ==
    ASSUME NEW S, NEW n \in Nat, NEW f, f = [i \in 1..n |-> f[i]], \A i \in 1..n : f[i] \in S
    PROVE  f \in Seq(S) /\ Len(f) = n
OBVIOUS

LEMMA HeadTail ==
    ASSUME NEW S, NEW s \in Seq(S), s # <<>>
    PROVE  /\ Len(s) \in Nat /\ Len(s) > 0 /\ s[1] \in S /\ Head(s) = s[1]
           /\ Tail(s) \in Seq(S) /\ Len(Tail(s)) = Len(s) - 1
           /\ \A i \in 1..Len(Tail(s)) : Tail(s)[i] = s[i + 1]
OBVIOUS

LEMMA ConcatType ==
    \A S : \A s, t \in Seq(S) :
      /\ s \o t \in Seq(S) /\ Len(s \o t) = Len(s) + Len(t)
      /\ \A i \in 1..(Len(s) + Len(t)) :
           (s \o t)[i] = IF i <= Len(s) THEN s[i] ELSE t[i - Len(s)]
OBVIOUS

LEMMA LongTail ==
    ASSUME NEW S, NEW s \in Seq(S), s # <<>>, Len(s) # 1
    PROVE  Len(s) > 1 /\ s[2] \in S /\ Tail(s) # <<>>
<1>1. Len(s) \in Nat /\ Len(s) > 1 /\ Len(Tail(s)) = Len(s) - 1
  <2>1. Len(s) \in Nat /\ Len(s) > 0 /\ Len(Tail(s)) = Len(s) - 1
    BY HeadTail
  <2> QED BY <2>1
<1>2. s[2] \in S
  BY <1>1
<1>3. Len(Tail(s)) # 0
  BY <1>1
<1> QED BY <1>1, <1>2, <1>3, EmptyType

-----------------------------------------------------------------------------
(* The steps a host may have to take.                                      *)
Modules  == {"hdfs-master", "hdfs-worker", "spark-master", "spark-worker"}
Services == {"namenode", "jobtracker", "historyserver", "nodemanager", "resourcemanager",
             "datanode"}
Kinds == {"rsync", "puppetApply", "stop", "tryStop", "yum", "chsh", "dotfiles", "pull",
          "mkdir"}
StepSet == [do : Kinds, arg : {""} \cup Modules \cup Services]
           \cup [do : {"sshConfig"}, arg : All]

LEMMA DoType ==
    /\ \A w \in Kinds, a \in {""} \cup Modules \cup Services : Do(w, a) \in StepSet
    /\ \A h \in All : Do("sshConfig", h) \in StepSet
BY DEF Do, StepSet

LEMMA InitSteps ==
    /\ initSteps \in Seq(StepSet)
    /\ \A h \in All : \E i \in 1..Len(initSteps) : initSteps[i] = Do("sshConfig", h)
<1> DEFINE a == <<Do("yum", ""), Do("chsh", ""), Do("dotfiles", ""), Do("pull", "")>>
           b == [i \in 1..Len(Hosts) |-> Do("sshConfig", Hosts[i])]
           c == <<Do("mkdir", "")>>
<1>1. Len(Hosts) \in Nat /\ \A i \in 1..Len(Hosts) : Hosts[i] \in All
  BY DeployAssumption DEF All
<1>2. a \in Seq(StepSet) /\ Len(a) = 4 /\ c \in Seq(StepSet) /\ Len(c) = 1
  <2>1. /\ Do("yum", "") \in StepSet /\ Do("chsh", "") \in StepSet
        /\ Do("dotfiles", "") \in StepSet /\ Do("pull", "") \in StepSet
        /\ Do("mkdir", "") \in StepSet
    BY DoType DEF Kinds
  <2> QED BY <2>1, OneType, FourType
<1>3. /\ b \in Seq(StepSet) /\ Len(b) = Len(Hosts)
      /\ \A i \in 1..Len(Hosts) : b[i] = Do("sshConfig", Hosts[i])
  <2>1. \A i \in 1..Len(Hosts) : b[i] = Do("sshConfig", Hosts[i]) /\ b[i] \in StepSet
    BY <1>1, DoType
  <2>2. b = [i \in 1..Len(Hosts) |-> b[i]]
    OBVIOUS
  <2> HIDE DEF b
  <2> QED BY <1>1, <2>1, <2>2, FunType
<1> DEFINE ab == a \o b
<1>4. initSteps = ab \o c
  BY DEF initSteps
<1> HIDE DEF a, b, c
<1>5. /\ ab \in Seq(StepSet) /\ Len(ab) = 4 + Len(Hosts)
      /\ \A i \in 1..(4 + Len(Hosts)) : ab[i] = IF i <= 4 THEN a[i] ELSE b[i - 4]
  <2>1. a \in Seq(StepSet) /\ b \in Seq(StepSet)
    BY <1>2, <1>3
  <2>2. /\ ab \in Seq(StepSet) /\ Len(ab) = Len(a) + Len(b)
        /\ \A i \in 1..(Len(a) + Len(b)) : ab[i] = IF i <= Len(a) THEN a[i] ELSE b[i - Len(a)]
    BY <2>1, ConcatType, Zenon
  <2> QED BY <1>2, <1>3, <2>2
<1> HIDE DEF ab
<1>6. /\ initSteps \in Seq(StepSet) /\ Len(initSteps) = 5 + Len(Hosts)
      /\ \A i \in 1..(4 + Len(Hosts)) : initSteps[i] = ab[i]
  <2> DEFINE all == ab \o c
  <2>1. /\ all \in Seq(StepSet) /\ Len(all) = Len(ab) + Len(c)
        /\ \A i \in 1..(Len(ab) + Len(c)) : all[i] = IF i <= Len(ab) THEN ab[i] ELSE c[i - Len(ab)]
    BY <1>2, <1>5, ConcatType, Zenon
  <2> HIDE DEF all
  <2>2. Len(all) = 5 + Len(Hosts) /\ \A i \in 1..(4 + Len(Hosts)) : all[i] = ab[i]
    BY <1>1, <1>2, <1>5, <2>1
  <2> QED BY <1>4, <2>1, <2>2 DEF all
<1>7. ASSUME NEW h \in All
      PROVE  \E i \in 1..Len(initSteps) : initSteps[i] = Do("sshConfig", h)
  <2>1. PICK j \in 1..Len(Hosts) : Hosts[j] = h
    BY DEF All
  <2>2. /\ j + 4 \in 1..(4 + Len(Hosts)) /\ ~ (j + 4 <= 4) /\ (j + 4) - 4 = j
        /\ j + 4 \in 1..Len(initSteps)
    BY <1>1, <1>6, <2>1
  <2>3. ab[j + 4] = b[j]
    BY <1>5, <2>2
  <2>4. initSteps[j + 4] = Do("sshConfig", h)
    BY <1>3, <1>6, <2>1, <2>2, <2>3
  <2> QED BY <2>2, <2>4
<1> QED BY <1>6, <1>7

LEMMA StepsType == \A t \in Tasks : Steps(t) \in Seq(StepSet)
<1>1. ASSUME NEW m \in Modules PROVE puppet(m) \in Seq(StepSet)
  <2>1. Do("rsync", m) \in StepSet /\ Do("puppetApply", m) \in StepSet
    BY DoType DEF Kinds
  <2> QED BY <2>1, TwoType DEF puppet
<1>2. ASSUME NEW m \in Modules PROVE <<Do("tryStop", m)>> \in Seq(StepSet)
  <2>1. Do("tryStop", m) \in StepSet
    BY DoType DEF Kinds
  <2> QED BY <2>1, OneType
<1>3. ASSUME NEW s, Len(s) \in Nat, \A i \in 1..Len(s) : s[i] \in Services
      PROVE  Sudo(s) \in Seq(StepSet)
  <2>1. \A i \in 1..Len(s) : Do("stop", s[i]) \in StepSet
    BY <1>3, DoType DEF Kinds
  <2>2. Sudo(s) = [i \in 1..Len(s) |-> Do("stop", s[i])]
    BY DEF Sudo
  <2>3. \A i \in 1..Len(s) : Sudo(s)[i] \in StepSet
    BY <2>1, <2>2
  <2>4. Sudo(s) = [i \in 1..Len(s) |-> Sudo(s)[i]]
    BY <2>2
  <2> QED BY <1>3, <2>3, <2>4, FunType
<1>4. Sudo(<<"datanode">>) \in Seq(StepSet)
  <2> DEFINE s == <<"datanode">>
  <2>1. Len(s) = 1 /\ \A i \in 1..Len(s) : s[i] \in Services
    BY DEF Services
  <2> QED BY <2>1, <1>3
<1>5. Sudo(<<"namenode", "jobtracker", "historyserver", "nodemanager", "resourcemanager">>)
        \in Seq(StepSet)
  <2> DEFINE s == <<"namenode", "jobtracker", "historyserver", "nodemanager",
                    "resourcemanager">>
  <2>1. Len(s) = 5 /\ \A i \in 1..Len(s) : s[i] \in Services
    BY DEF Services
  <2> QED BY <2>1, <1>3
<1>6. Modules = {"hdfs-master", "hdfs-worker", "spark-master", "spark-worker"}
  BY DEF Modules
<1> QED BY <1>1, <1>2, <1>4, <1>5, <1>6, InitSteps DEF Steps, Tasks

-----------------------------------------------------------------------------
(* Types, and what Fabric guarantees: a task ends only when every host has *)
(* nothing left of it.                                                     *)
TypeInv ==
    /\ cmd \in Seq(Tasks) /\ last \in Seq(Tasks) /\ todo \in [All -> Seq(StepSet)]
    /\ failed \in BOOLEAN /\ clean \in BOOLEAN
    /\ outcome \in {"none", "running", "done", "aborted"}
    /\ tools \in [All -> BOOLEAN] /\ raid \in [All -> BOOLEAN]
    /\ broken = [h \in All |-> broken[h]]
    /\ entries \in [All -> [All -> Nat]]
    /\ running = [h \in All |-> running[h]]
RestInv == /\ cmd = <<>> => \A h \in All : todo[h] = <<>>
           /\ outcome = "running" <=> cmd # <<>>
Inv == TypeInv /\ RestInv

LEMMA InitInv == Init => Inv
<1> SUFFICES ASSUME Init PROVE Inv
  OBVIOUS
<1>1. TypeInv
  BY EmptyType DEF Init, TypeInv
<1> QED BY <1>1 DEF Init, Inv, RestInv

LEMMA DispatchType == \A t \in Tasks : Dispatch(t) \in [All -> Seq(StepSet)]
<1>1. <<>> \in Seq(StepSet)
  OBVIOUS
<1> QED BY <1>1, StepsType DEF Dispatch

HostAct(h) == \/ lost(h) \/ rsync(h) \/ puppetApply(h) \/ resourceFails(h) \/ stop(h)
              \/ tryStop(h) \/ yum(h) \/ chsh(h) \/ dotfiles(h) \/ cloneFails(h)
              \/ pull(h) \/ mkdir(h) \/ sshConfig(h)

(* A step of a host takes the first of what it has left, or all of it.     *)
LEMMA HostStep ==
    ASSUME Inv, NEW h \in All, HostAct(h)
    PROVE  /\ todo[h] # <<>> /\ Tail(todo[h]) \in Seq(StepSet) /\ UNCHANGED fabric
           /\ \/ todo' = [todo EXCEPT ![h] = Tail(todo[h])] /\ failed' = failed
              \/ todo' = [todo EXCEPT ![h] = <<>>] /\ failed' = TRUE
           /\ clean' \in {clean, FALSE}
<1>1. todo[h] # <<>>
  BY DEF HostAct, lost, rsync, puppetApply, resourceFails, stop, tryStop, yum, chsh,
     dotfiles, cloneFails, pull, mkdir, sshConfig, AtStep
<1>2. Tail(todo[h]) \in Seq(StepSet)
  BY <1>1 DEF Inv, TypeInv
<1>3. CASE lost(h)
  BY <1>1, <1>2, <1>3 DEF lost, Fault
<1>4. CASE rsync(h) \/ tryStop(h) \/ yum(h) \/ dotfiles(h) \/ mkdir(h) \/ sshConfig(h)
  BY <1>1, <1>2, <1>4 DEF rsync, tryStop, yum, dotfiles, Dotted, mkdir, sshConfig, Ok
<1>5. CASE puppetApply(h) \/ stop(h) \/ chsh(h) \/ pull(h)
  BY <1>1, <1>2, <1>5 DEF puppetApply, stop, chsh, pull, Ok, Fail
<1>6. CASE resourceFails(h) \/ cloneFails(h)
  BY <1>1, <1>2, <1>6 DEF resourceFails, cloneFails, Dotted, Fault
<1> QED BY <1>3, <1>4, <1>5, <1>6 DEF HostAct

LEMMA SshStep ==
    ASSUME Inv, NEW h \in All, AtStep(h, "sshConfig")
    PROVE  \E s \in All : Head(todo[h]) = Do("sshConfig", s)
<1>1. Head(todo[h]) \in StepSet /\ Head(todo[h]).do = "sshConfig"
  BY HeadTail DEF Inv, TypeInv, AtStep
<1> QED BY <1>1 DEF StepSet, Kinds, Do

LEMMA ServerType ==
    ASSUME Inv, NEW h \in All, HostAct(h)
    PROVE  /\ tools' \in [All -> BOOLEAN] /\ raid' \in [All -> BOOLEAN]
           /\ entries' \in [All -> [All -> Nat]]
           /\ running' = [g \in All |-> running'[g]]
           /\ broken' = [g \in All |-> broken'[g]]
<1> USE DEF Inv, TypeInv
<1>1. CASE \/ lost(h) \/ rsync(h) \/ chsh(h) \/ dotfiles(h) \/ cloneFails(h) \/ pull(h)
  BY <1>1 DEF lost, rsync, chsh, dotfiles, cloneFails, pull, Dotted, server, initState, puppetState
<1>2. CASE puppetApply(h)
  <2>1. UNCHANGED <<tools, raid, entries, broken>>
    BY <1>2 DEF puppetApply, initState, puppetState
  <2>2. running' = running \/ \E v : running' = [running EXCEPT ![h] = v]
    BY <1>2 DEF puppetApply, puppetState
  <2> QED BY <2>1, <2>2
<1>3. CASE resourceFails(h)
  <2>1. UNCHANGED <<tools, raid, entries>>
    BY <1>3 DEF resourceFails, initState
  <2>2. (\E v : running' = [running EXCEPT ![h] = v]) /\ \E v : broken' = [broken EXCEPT ![h] = v]
    BY <1>3 DEF resourceFails
  <2> QED BY <2>1, <2>2
<1>4. CASE stop(h) \/ tryStop(h)
  <2>1. UNCHANGED <<tools, raid, entries, broken>>
    BY <1>4 DEF stop, tryStop, initState
  <2>2. running' = running \/ \E v : running' = [running EXCEPT ![h] = v]
    BY <1>4 DEF stop, tryStop
  <2> QED BY <2>1, <2>2
<1>5. CASE yum(h) \/ mkdir(h)
  BY <1>5 DEF yum, mkdir, puppetState
<1>6. CASE sshConfig(h)
  <2>1. UNCHANGED <<tools, raid, running, broken>>
    BY <1>6 DEF sshConfig, puppetState
  <2>2. PICK s \in All : Head(todo[h]) = Do("sshConfig", s)
    BY <1>6, SshStep DEF sshConfig, puppetState
  <2>3. entries' = [entries EXCEPT ![h][s] = IF Contained(h, s) THEN @ ELSE @ + 1]
    <3>1. Head(todo[h]).arg = s
      BY <2>2 DEF Do
    <3> QED BY <1>6, <3>1, Zenon DEF sshConfig, puppetState
  <2>4. entries[h][s] \in Nat /\ entries[h][s] + 1 \in Nat
    BY <2>2
  <2> QED BY <2>1, <2>2, <2>3, <2>4
<1> QED BY <1>1, <1>2, <1>3, <1>4, <1>5, <1>6 DEF HostAct

LEMMA NextInv == ASSUME Inv, [Next]_vars PROVE Inv'
<1> USE DEF Inv
<1>1. CASE invoke
  <2>1. PICK c \in Commands : cmd' = c /\ last' = c /\ todo' = Dispatch(c[1])
    BY <1>1 DEF invoke
  <2>2. c \in Seq(Tasks) /\ c # <<>> /\ c[1] \in Tasks
    BY DeployAssumption
  <2>3. todo' \in [All -> Seq(StepSet)]
    BY <2>1, <2>2, DispatchType
  <2> QED BY <1>1, <2>1, <2>2, <2>3 DEF invoke, TypeInv, RestInv, server, initState, puppetState
<1>2. CASE taskEnds
  <2>1. CASE failed \/ Len(cmd) = 1
    <3>1. cmd' = <<>> /\ outcome' \in {"done", "aborted"} /\ todo' = todo
      BY <1>2, <2>1 DEF taskEnds
    <3>2. TypeInv'
      BY <1>2, <3>1, EmptyType DEF taskEnds, TypeInv, server, initState, puppetState
    <3>3. RestInv'
      BY <1>2, <3>1 DEF taskEnds, RestInv
    <3> QED BY <3>2, <3>3
  <2>2. CASE ~(failed \/ Len(cmd) = 1)
    <3>1. cmd' = Tail(cmd) /\ todo' = Dispatch(cmd[2]) /\ outcome' = outcome /\ cmd # <<>>
      BY <1>2, <2>2 DEF taskEnds
    <3>2. Len(cmd) > 1 /\ cmd[2] \in Tasks /\ Tail(cmd) \in Seq(Tasks) /\ Tail(cmd) # <<>>
      <4>1. cmd \in Seq(Tasks) /\ cmd # <<>> /\ Len(cmd) # 1
        BY <2>2, <3>1 DEF TypeInv
      <4> QED BY <4>1, LongTail, HeadTail
    <3>3. todo' \in [All -> Seq(StepSet)]
      BY <3>1, <3>2, DispatchType
    <3> QED BY <1>2, <3>1, <3>2, <3>3 DEF taskEnds, TypeInv, RestInv, server, initState, puppetState
  <2> QED BY <2>1, <2>2
<1>3. ASSUME NEW h \in All, HostAct(h) PROVE Inv'
  <2>1. /\ todo[h] # <<>> /\ UNCHANGED fabric /\ failed' \in BOOLEAN /\ clean' \in BOOLEAN
        /\ todo' \in [All -> Seq(StepSet)]
    <3>1. <<>> \in Seq(StepSet)
      OBVIOUS
    <3> QED BY <1>3, <3>1, HostStep DEF TypeInv
  <2>2. TypeInv'
    BY <1>3, <2>1, ServerType DEF TypeInv, fabric
  <2>3. RestInv'
    BY <2>1 DEF RestInv, fabric
  <2> QED BY <2>2, <2>3
<1>4. CASE UNCHANGED vars
  BY <1>4 DEF vars, server, initState, puppetState, TypeInv, RestInv
<1> QED BY <1>1, <1>2, <1>3, <1>4 DEF Next, HostAct

-----------------------------------------------------------------------------
(* The entries of .ssh/config.  While init runs, a host that has no entry  *)
(* for a server still has the step that adds it before it, or has failed.  *)
Pending(h, s) == \E i \in 1..Len(todo[h]) : todo[h][i] = Do("sshConfig", s)
AtMostOne == \A h, s \in All : entries[h][s] <= 1
Covered ==
    last = <<"init">> =>
      /\ outcome = "running" =>
           Len(cmd) = 1 /\ (failed \/ \A h, s \in All : entries[h][s] = 1 \/ Pending(h, s))
      /\ outcome = "done" => \A h, s \in All : entries[h][s] = 1

LEMMA InvokeCovers == ASSUME Inv, invoke PROVE Covered'
<1> SUFFICES ASSUME last' = <<"init">>
             PROVE  /\ outcome' = "running" /\ Len(cmd') = 1
                    /\ \A h, s \in All : Pending(h, s)'
  BY DEF Covered
<1>1. cmd' = <<"init">> /\ todo' = Dispatch("init") /\ outcome' = "running"
  BY DEF invoke
<1>2. ASSUME NEW h \in All PROVE todo'[h] = initSteps
  BY <1>1 DEF Dispatch, Roles, Steps
<1> QED BY <1>1, <1>2, InitSteps DEF Pending

LEMMA EndCovers == ASSUME Inv, Covered, taskEnds PROVE Covered'
<1>1. outcome = "running" /\ last' = last /\ entries' = entries
      /\ \A h \in All : todo[h] = <<>>
  BY DEF taskEnds, server, initState, puppetState, Inv, RestInv
<1>2. CASE last = <<"init">>
  <2>1. Len(cmd) = 1 /\ (failed \/ \A h, s \in All : entries[h][s] = 1 \/ Pending(h, s))
    BY <1>1, <1>2 DEF Covered
  <2>2. \A h, s \in All : ~ Pending(h, s)
    BY <1>1, EmptyType DEF Pending
  <2>3. outcome' = IF failed THEN "aborted" ELSE "done"
    BY <2>1 DEF taskEnds
  <2> QED BY <1>1, <2>1, <2>2, <2>3 DEF Covered
<1> QED BY <1>1, <1>2 DEF Covered

(* What a step of a host does to the entries.                              *)
LEMMA EntriesStep ==
    ASSUME NamesApart, Inv, AtMostOne, NEW h \in All, HostAct(h)
    PROVE  /\ \A g, s \in All : entries'[g][s] = entries[g][s] \/ entries'[g][s] = 1
           /\ \A s \in All : Head(todo[h]) = Do("sshConfig", s)
                => failed' \/ entries'[h][s] = 1
<1>1. CASE sshConfig(h)
  <2>1. PICK s \in All : Head(todo[h]) = Do("sshConfig", s)
    BY <1>1, SshStep DEF sshConfig, puppetState
  <2>2. Head(todo[h]).arg = s /\ \A r \in All : Do("sshConfig", r) = Head(todo[h]) => r = s
    BY <2>1 DEF Do
  <2>3. entries' = [entries EXCEPT ![h][s] = IF Contained(h, s) THEN @ ELSE @ + 1]
    BY <1>1, <2>2, Zenon DEF sshConfig, puppetState
  <2>4. \A g, r \in All : entries[g][r] \in Nat /\ entries[g][r] <= 1
    BY DEF Inv, TypeInv, AtMostOne
  <2>5. Contained(h, s) <=> entries[h][s] > 0
    BY DEF Contained, NamesApart
  <2>6. \A g, r \in All : entries'[g][r] = IF g = h /\ r = s THEN 1 ELSE entries[g][r]
    <3>1. entries \in [All -> [All -> Nat]]
      BY DEF Inv, TypeInv
    <3>2. entries'[h][s] = 1
      BY <2>3, <2>4, <2>5, <3>1
    <3> QED BY <2>3, <3>1, <3>2
  <2> QED BY <2>2, <2>6
<1>2. CASE ~ sshConfig(h)
  <2>1. entries' = entries
    BY <1>2 DEF HostAct, lost, rsync, puppetApply, resourceFails, stop, tryStop, yum, chsh,
       dotfiles, cloneFails, Dotted, pull, mkdir, server, initState, puppetState
  <2>2. ASSUME NEW s \in All, Head(todo[h]) = Do("sshConfig", s) PROVE failed'
    <3>1. Head(todo[h]).do = "sshConfig"
      BY <2>2 DEF Do
    <3>2. lost(h)
      BY <1>2, <3>1 DEF HostAct, rsync, puppetApply, resourceFails, stop, tryStop, yum, chsh,
         dotfiles, cloneFails, pull, mkdir, AtStep
    <3> QED BY <3>2 DEF lost
  <2> QED BY <2>1, <2>2
<1> QED BY <1>1, <1>2

LEMMA HostCovers ==
    ASSUME NamesApart, Inv, AtMostOne, Covered, NEW h \in All, HostAct(h) PROVE Covered'
<1>1. /\ todo[h] # <<>> /\ UNCHANGED fabric
      /\ \/ todo' = [todo EXCEPT ![h] = Tail(todo[h])] /\ failed' = failed
         \/ todo' = [todo EXCEPT ![h] = <<>>] /\ failed' = TRUE
  BY HostStep
<1>2. outcome = "running"
  BY <1>1 DEF Inv, RestInv, TypeInv
<1> SUFFICES ASSUME last = <<"init">>, ~ failed', NEW g \in All, NEW s \in All
             PROVE  entries'[g][s] = 1 \/ Pending(g, s)'
  BY <1>1, <1>2 DEF Covered, fabric
<1>3. todo' = [todo EXCEPT ![h] = Tail(todo[h])] /\ ~ failed
  BY <1>1
<1>4. entries[g][s] = 1 \/ Pending(g, s)
  BY <1>2, <1>3 DEF Covered
<1>5. CASE entries[g][s] = 1
  BY <1>5, EntriesStep
<1>6. CASE Pending(g, s) /\ g # h
  BY <1>3, <1>6 DEF Pending, Inv, TypeInv
<1>7. CASE Pending(g, s) /\ g = h
  <2>1. PICK i \in 1..Len(todo[h]) : todo[h][i] = Do("sshConfig", s)
    BY <1>7 DEF Pending
  <2>2. /\ Len(todo[h]) \in Nat /\ Head(todo[h]) = todo[h][1]
        /\ Len(Tail(todo[h])) = Len(todo[h]) - 1
        /\ \A j \in 1..Len(Tail(todo[h])) : Tail(todo[h])[j] = todo[h][j + 1]
    BY <1>1, HeadTail DEF Inv, TypeInv
  <2>3. CASE i = 1
    BY <2>1, <2>2, <2>3, <1>7, EntriesStep
  <2>4. CASE i # 1
    <3>1. i - 1 \in 1..Len(Tail(todo[h])) /\ Tail(todo[h])[i - 1] = Do("sshConfig", s)
      BY <2>1, <2>2, <2>4
    <3>2. todo'[h] = Tail(todo[h])
      BY <1>3 DEF Inv, TypeInv
    <3> QED BY <3>1, <3>2, <1>7 DEF Pending
  <2> QED BY <2>3, <2>4
<1> QED BY <1>4, <1>5, <1>6, <1>7

LEMMA EntriesNext ==
    ASSUME NamesApart, Inv, AtMostOne, Covered, [Next]_vars PROVE AtMostOne' /\ Covered'
<1>1. CASE invoke
  BY <1>1, InvokeCovers DEF invoke, server, initState, puppetState, AtMostOne
<1>2. CASE taskEnds
  BY <1>2, EndCovers DEF taskEnds, server, initState, puppetState, AtMostOne
<1>3. ASSUME NEW h \in All, HostAct(h) PROVE AtMostOne' /\ Covered'
  <2>1. AtMostOne'
    BY <1>3, EntriesStep DEF AtMostOne
  <2> QED BY <1>3, <2>1, HostCovers
<1>4. CASE UNCHANGED vars
  BY <1>4 DEF vars, server, initState, puppetState, AtMostOne, Covered, Pending
<1> QED BY <1>1, <1>2, <1>3, <1>4 DEF Next, HostAct

(* initial-deployment-fabfile.py, when no host name occurs inside another: *)
(* however often init (lines 108-129) is run, and wherever it was cut off, *)
(* no host gets two entries for a server, and a run that reports success   *)
(* leaves an entry for every server on every host.                         *)
THEOREM EntriesOnce == ASSUME NamesApart PROVE Spec => []EntriesRight
<1>1. Init => Inv /\ AtMostOne /\ Covered
  <2> SUFFICES ASSUME Init PROVE AtMostOne /\ Covered
    BY InitInv
  <2> QED BY DEF Init, AtMostOne, Covered
<1>2. Inv /\ AtMostOne /\ Covered => EntriesRight
  BY DEF AtMostOne, Covered, EntriesRight
<1> QED BY <1>1, <1>2, NextInv, EntriesNext, PTL DEF Spec

-----------------------------------------------------------------------------
(* A deployment is in its n-th task: the tasks that remain, the module it  *)
(* applies, and what a host may have left of it.                           *)
ModuleOf(n) == CASE n = 1 -> "hdfs-master"  [] n = 2 -> "hdfs-worker"
                 [] n = 3 -> "spark-master" [] n = 4 -> "spark-worker"
Ready == \A h \in All : tools[h] /\ raid[h] /\ broken[h] = {}
Up(n) == \A h \in Roles(Start[n]) : Catalog(ModuleOf(n)) \subseteq running[h]
Rest(n) == Len(cmd) = 5 - n /\ \A i \in 1..Len(cmd) : cmd[i] = Start[i + n - 1]
Left(n) == \A h \in All :
             \/ todo[h] = <<>>
             \/ /\ h \in Roles(Start[n])
                /\ todo[h] \in {puppet(ModuleOf(n)), <<Do("puppetApply", ModuleOf(n))>>}
DoneSoFar(n) == /\ ~ failed /\ \A k \in 1..(n - 1) : Up(k)
                /\ \A h \in Roles(Start[n]) :
                     todo[h] = <<>> => Catalog(ModuleOf(n)) \subseteq running[h]
Deploying(n) == Rest(n) /\ Left(n) /\ (Ready /\ clean => DoneSoFar(n))
Deployment ==
    last = Start =>
      /\ outcome = "running" => \E n \in 1..4 : Deploying(n)
      /\ Ready /\ clean => outcome # "aborted" /\ (outcome = "done" => \A k \in 1..4 : Up(k))

LEMMA StartFacts ==
    /\ Start \in Seq(Tasks) /\ Len(Start) = 4
    /\ \A n \in 1..4 : /\ Start[n] \in Tasks /\ Steps(Start[n]) = puppet(ModuleOf(n))
                       /\ ModuleOf(n) \in Modules /\ Roles(Start[n]) \subseteq All
<1>1. Len(Start) = 4 /\ Start[1] = "startHdfsMaster" /\ Start[2] = "startHdfsWorkers"
      /\ Start[3] = "startSparkMaster" /\ Start[4] = "startSparkWorkers"
  BY DEF Start
<1>2. Start \in Seq(Tasks)
  BY DEF Start, Tasks
<1>3. ASSUME NEW n \in 1..4
      PROVE  Start[n] \in Tasks /\ Steps(Start[n]) = puppet(ModuleOf(n)) /\ ModuleOf(n) \in Modules
  <2>1. n = 1 \/ n = 2 \/ n = 3 \/ n = 4
    OBVIOUS
  <2> QED BY <1>1, <2>1 DEF Tasks, Steps, ModuleOf, Modules
<1>4. ASSUME NEW n \in 1..4 PROVE Roles(Start[n]) \subseteq All
  BY DeployAssumption DEF Roles
<1> QED BY <1>1, <1>2, <1>3, <1>4

(* A task that has just been handed out.                                   *)
LEMMA HandedOut ==
    ASSUME NEW n \in 1..4, todo' = Dispatch(Start[n])
    PROVE  /\ Left(n)'
           /\ \A h \in Roles(Start[n]) : todo'[h] # <<>>
<1>1. ASSUME NEW h \in All
      PROVE  todo'[h] = IF h \in Roles(Start[n]) THEN puppet(ModuleOf(n)) ELSE <<>>
  BY StartFacts DEF Dispatch
<1>2. puppet(ModuleOf(n)) # <<>>
  BY DEF puppet
<1> QED BY <1>1, <1>2, StartFacts DEF Left, Roles

LEMMA InvokeDeploys == ASSUME Inv, invoke PROVE Deployment'
<1> SUFFICES ASSUME last' = Start PROVE outcome' = "running" /\ Deploying(1)'
  BY DEF Deployment
<1>1. cmd' = Start /\ todo' = Dispatch(Start[1]) /\ outcome' = "running" /\ failed' = FALSE
  BY DEF invoke
<1>2. Rest(1)'
  BY <1>1, StartFacts DEF Rest
<1>3. Left(1)' /\ \A h \in Roles(Start[1]) : todo'[h] # <<>>
  BY <1>1, HandedOut
<1>4. DoneSoFar(1)'
  BY <1>1, <1>3 DEF DoneSoFar
<1> QED BY <1>1, <1>2, <1>3, <1>4 DEF Deploying

LEMMA EndDeploys == ASSUME Inv, Deployment, taskEnds PROVE Deployment'
<1>1. /\ outcome = "running" /\ UNCHANGED <<last, clean, failed, tools, raid, running, broken>>
      /\ cmd # <<>> /\ \A h \in All : todo[h] = <<>>
  BY DEF taskEnds, server, initState, puppetState, Inv, RestInv
<1> SUFFICES ASSUME last = Start PROVE Deployment'
  BY <1>1 DEF Deployment
<1>2. PICK n \in 1..4 : Deploying(n)
  BY <1>1 DEF Deployment
<1>3. Ready /\ clean => ~ failed /\ \A k \in 1..n : Up(k)
  <2>1. Roles(Start[n]) \subseteq All
    BY StartFacts
  <2> QED BY <1>1, <1>2, <2>1 DEF Deploying, DoneSoFar, Up
<1>4. Ready' = Ready /\ \A k : Up(k)' = Up(k)
  BY <1>1 DEF Ready, Up
<1>5. CASE failed \/ Len(cmd) = 1
  <2>1. outcome' = (IF failed THEN "aborted" ELSE "done")
    BY <1>5 DEF taskEnds
  <2>2. ~ failed => n = 4
    BY <1>2, <1>5 DEF Deploying, Rest
  <2> QED BY <1>1, <1>3, <1>4, <2>1, <2>2 DEF Deployment
<1>6. CASE ~ (failed \/ Len(cmd) = 1)
  <2>1. cmd' = Tail(cmd) /\ todo' = Dispatch(cmd[2]) /\ outcome' = outcome
    BY <1>6 DEF taskEnds
  <2>2. /\ Len(cmd) \in Nat /\ Len(cmd) > 1 /\ Len(Tail(cmd)) = Len(cmd) - 1
        /\ \A i \in 1..Len(Tail(cmd)) : Tail(cmd)[i] = cmd[i + 1]
    <3>1. cmd \in Seq(Tasks)
      BY DEF Inv, TypeInv
    <3>2. Len(cmd) \in Nat /\ Len(cmd) > 0 /\ Len(Tail(cmd)) = Len(cmd) - 1
          /\ \A i \in 1..Len(Tail(cmd)) : Tail(cmd)[i] = cmd[i + 1]
      BY <1>1, <3>1, HeadTail
    <3> QED BY <1>6, <3>2
  <2>3. Len(cmd) = 5 - n /\ \A i \in 1..Len(cmd) : cmd[i] = Start[i + n - 1]
    BY <1>2 DEF Deploying, Rest
  <2>4. n + 1 \in 1..4 /\ cmd[2] = Start[n + 1]
    <3>1. 2 \in 1..Len(cmd) /\ 2 + n - 1 = n + 1
      BY <2>2
    <3> QED BY <2>2, <2>3, <3>1
  <2>5. Rest(n + 1)'
    <3>1. Len(Tail(cmd)) = 5 - (n + 1)
      BY <2>2, <2>3
    <3>2. ASSUME NEW i \in 1..Len(Tail(cmd)) PROVE Tail(cmd)[i] = Start[i + (n + 1) - 1]
      <4>1. i + 1 \in 1..Len(cmd) /\ (i + 1) + n - 1 = i + (n + 1) - 1
        BY <2>2
      <4> QED BY <2>2, <2>3, <4>1
    <3> QED BY <2>1, <3>1, <3>2 DEF Rest
  <2>6. Left(n + 1)' /\ \A h \in Roles(Start[n + 1]) : todo'[h] # <<>>
    BY <2>1, <2>4, HandedOut
  <2>7. (Ready /\ clean)' => DoneSoFar(n + 1)'
    BY <1>1, <1>3, <1>4, <2>6 DEF DoneSoFar
  <2>8. Deploying(n + 1)'
    BY <2>5, <2>6, <2>7 DEF Deploying
  <2> QED BY <1>1, <2>1, <2>4, <2>8 DEF Deployment
<1> QED BY <1>5, <1>6

(* A deployment only adds to what runs, and a step of it that meets no     *)
(* fault, on a host that init has prepared, starts the services.           *)
LEMMA DeployStep ==
    ASSUME Inv, NEW n \in 1..4, Left(n), NEW h \in All, HostAct(h)
    PROVE  /\ (Ready' => Ready) /\ \A g \in All : running[g] \subseteq running'[g]
           /\ h \in Roles(Start[n])
           /\ todo' = [todo EXCEPT ![h] = <<Do("puppetApply", ModuleOf(n))>>]
              \/ todo' = [todo EXCEPT ![h] = <<>>]
           /\ clean' /\ Ready => /\ clean /\ failed' = failed
                                 /\ todo'[h] = <<>> => Catalog(ModuleOf(n)) \subseteq running'[h]
<1> DEFINE m == ModuleOf(n)
<1>1. /\ todo[h] # <<>> /\ UNCHANGED fabric
      /\ \/ todo' = [todo EXCEPT ![h] = Tail(todo[h])] /\ failed' = failed
         \/ todo' = [todo EXCEPT ![h] = <<>>] /\ failed' = TRUE
      /\ clean' \in {clean, FALSE}
  BY HostStep
<1>2. h \in Roles(Start[n]) /\ todo[h] \in {puppet(m), <<Do("puppetApply", m)>>}
  BY <1>1 DEF Left
<1>3. CASE todo[h] = puppet(m)
  <2>1. /\ Head(todo[h]).do = "rsync" /\ Tail(todo[h]) = <<Do("puppetApply", m)>>
    BY <1>3 DEF puppet, Do
  <2>2. rsync(h) \/ lost(h)
    BY <2>1 DEF HostAct, puppetApply, resourceFails, stop, tryStop, yum, chsh, dotfiles,
       cloneFails, pull, mkdir,
       sshConfig, AtStep
  <2>3. <<Do("puppetApply", m)>> # <<>>
    OBVIOUS
  <2>4. UNCHANGED <<tools, raid, running, broken>> /\ (clean' => rsync(h) /\ clean /\ failed' = failed)
    BY <2>2 DEF rsync, lost, Fault, Ok, server, initState, puppetState
  <2>5. todo' = [todo EXCEPT ![h] = <<Do("puppetApply", m)>>] \/ todo' = [todo EXCEPT ![h] = <<>>]
    BY <1>1, <2>1
  <2>6. rsync(h) => todo'[h] # <<>>
    BY <2>1, <2>3 DEF rsync, Ok, Inv, TypeInv
  <2> QED BY <1>2, <2>4, <2>5, <2>6 DEF Ready
<1>4. CASE todo[h] = <<Do("puppetApply", m)>>
  <2>1. /\ Head(todo[h]).do = "puppetApply" /\ Head(todo[h]).arg = m /\ Tail(todo[h]) = <<>>
    BY <1>4 DEF Do
  <2>2. todo' = [todo EXCEPT ![h] = <<>>]
    BY <1>1, <2>1
  <2>3. CASE lost(h)
    BY <1>2, <2>2, <2>3 DEF lost, Fault, server, initState, puppetState, Ready
  <2>4. CASE resourceFails(h)
    <3>1. PICK up, half : /\ running' = [running EXCEPT ![h] = running[h] \cup up]
                          /\ broken' = [broken EXCEPT ![h] = broken[h] \cup (half \ running[h])]
      BY <2>4 DEF resourceFails
    <3>2. \A g \in All : running[g] \subseteq running'[g] /\ broken[g] \subseteq broken'[g]
      BY <3>1 DEF Inv, TypeInv
    <3>3. UNCHANGED <<tools, raid>> /\ ~ clean'
      BY <2>4 DEF resourceFails, initState, Fault
    <3> QED BY <1>2, <2>2, <3>2, <3>3 DEF Ready
  <2>5. CASE puppetApply(h)
    <3>1. UNCHANGED <<tools, raid, broken, clean>>
      BY <2>5 DEF puppetApply, initState, puppetState, Ok, Fail
    <3>2. CASE ~ tools[h]
      <4>1. running' = running /\ ~ Ready
        BY <2>5, <3>2 DEF puppetApply, puppetState, Ready
      <4> QED BY <1>2, <2>2, <3>1, <4>1 DEF Ready
    <3>3. CASE tools[h]
      <4>1. running' = [running EXCEPT ![h] = running[h] \cup Started(h, m)] /\ Ok(h)
        BY <2>1, <2>5, <3>3 DEF puppetApply
      <4>2. Ready => Started(h, m) = Catalog(m)
        BY DEF Ready, Started, Possible
      <4>3. /\ \A g \in All : running[g] \subseteq running'[g]
            /\ running'[h] = running[h] \cup Started(h, m)
        BY <4>1 DEF Inv, TypeInv
      <4>4. Ready' => Ready
        BY <3>1 DEF Ready
      <4> QED BY <1>2, <2>2, <3>1, <4>1, <4>2, <4>3, <4>4 DEF Ok
    <3> QED BY <3>2, <3>3
  <2>6. ~ (rsync(h) \/ stop(h) \/ tryStop(h) \/ yum(h) \/ chsh(h) \/ dotfiles(h)
          \/ cloneFails(h) \/ pull(h) \/ mkdir(h) \/ sshConfig(h))
    BY <2>1 DEF rsync, stop, tryStop, yum, chsh, dotfiles, cloneFails, pull, mkdir, sshConfig, AtStep
  <2> QED BY <2>3, <2>4, <2>5, <2>6 DEF HostAct
<1> QED BY <1>2, <1>3, <1>4

LEMMA HostDeploys == ASSUME Inv, Deployment, NEW h \in All, HostAct(h) PROVE Deployment'
<1>1. todo[h] # <<>> /\ UNCHANGED fabric
  BY HostStep
<1>2. outcome = "running" /\ outcome' = "running"
  BY <1>1 DEF Inv, RestInv, TypeInv, fabric
<1> SUFFICES ASSUME last = Start PROVE \E n \in 1..4 : Deploying(n)'
  BY <1>1, <1>2 DEF Deployment, fabric
<1>3. PICK n \in 1..4 : Deploying(n)
  BY <1>2 DEF Deployment
<1>4. /\ (Ready' => Ready) /\ \A g \in All : running[g] \subseteq running'[g]
      /\ h \in Roles(Start[n])
      /\ todo' = [todo EXCEPT ![h] = <<Do("puppetApply", ModuleOf(n))>>]
         \/ todo' = [todo EXCEPT ![h] = <<>>]
      /\ clean' /\ Ready => /\ clean /\ failed' = failed
                            /\ todo'[h] = <<>> => Catalog(ModuleOf(n)) \subseteq running'[h]
  BY <1>3, DeployStep DEF Deploying
<1>5. Rest(n)'
  BY <1>1, <1>3 DEF Deploying, Rest, fabric
<1>6. Left(n)'
  BY <1>3, <1>4 DEF Deploying, Left, Inv, TypeInv
<1>7. ASSUME Ready', clean' PROVE DoneSoFar(n)'
  <2>1. Ready /\ clean /\ failed' = failed /\ DoneSoFar(n)
    BY <1>3, <1>4, <1>7 DEF Deploying, Ready
  <2>2. \A k \in 1..4 : Roles(Start[k]) \subseteq All
    BY StartFacts
  <2>3. ASSUME NEW k \in 1..(n - 1) PROVE Up(k)'
    BY <1>4, <2>1, <2>2 DEF DoneSoFar, Up
  <2>4. ASSUME NEW g \in Roles(Start[n]), todo'[g] = <<>>
        PROVE  Catalog(ModuleOf(n)) \subseteq running'[g]
    <3>1. CASE g = h
      BY <1>4, <1>7, <2>1, <2>4, <3>1
    <3>2. CASE g # h
      <4>1. todo[g] = <<>> /\ g \in All
        BY <1>4, <2>2, <2>4, <3>2 DEF Inv, TypeInv
      <4> QED BY <1>4, <2>1, <4>1 DEF DoneSoFar
    <3> QED BY <3>1, <3>2
  <2> QED BY <2>1, <2>3, <2>4 DEF DoneSoFar
<1>8. Deploying(n)'
  BY <1>5, <1>6, <1>7 DEF Deploying
<1> QED BY <1>8

LEMMA DeployNext == ASSUME Inv, Deployment, [Next]_vars PROVE Deployment'
<1>1. CASE UNCHANGED vars
  BY <1>1 DEF vars, server, initState, puppetState, Deployment, Deploying, Rest, Left, DoneSoFar, Ready, Up
<1>2. CASE Next
  BY <1>2, InvokeDeploys, EndDeploys, HostDeploys DEF Next, HostAct
<1> QED BY <1>1, <1>2

(* initial-deployment-fabfile.py: whatever earlier deployments, inits and  *)
(* stops left behind, a deployment (the four start tasks, lines 51-88)     *)
(* that meets no fault on hosts that init has prepared is not aborted, and *)
(* when it is done every service runs on the master and on the workers.    *)
THEOREM CleanDeploy == Spec => []CleanDeployWorks
<1>1. Init => Inv /\ Deployment
  BY InitInv DEF Init, Deployment
<1>2. Inv /\ Deployment => CleanDeployWorks
  <2> SUFFICES ASSUME Deployment, last = Start, clean, Ready
               PROVE  outcome # "aborted" /\ (outcome = "done" => AllUp)
    BY DEF CleanDeployWorks, Ready
  <2>1. outcome # "aborted"
    BY DEF Deployment
  <2>2. ASSUME outcome = "done" PROVE AllUp
    <3>1. Up(1) /\ Up(2) /\ Up(3) /\ Up(4)
      BY <2>2 DEF Deployment
    <3>2. MasterHadoop \subseteq running[Master]
      BY <3>1 DEF Up, Start, ModuleOf, Roles, Catalog
    <3>3. \A h \in Workers : WorkerHadoop \subseteq running[h]
      BY <3>1 DEF Up, Start, ModuleOf, Roles, Catalog
    <3>4. {"spark-master"} \subseteq running[Master]
      BY <3>1 DEF Up, Start, ModuleOf, Roles, Catalog
    <3>5. \A h \in Workers : {"spark-worker"} \subseteq running[h]
      BY <3>1 DEF Up, Start, ModuleOf, Roles, Catalog
    <3> QED BY <3>2, <3>3, <3>4, <3>5 DEF AllUp
  <2> QED BY <2>1, <2>2
<1> QED BY <1>1, <1>2, NextInv, DeployNext, PTL DEF Spec

-----------------------------------------------------------------------------
(* spark-daemon.sh.                                                        *)
Alive(p, i) == proc[p] \in {"daemon", "dying"} /\ owner[p] = i
Counts(p, i) == Alive(p, i) /\ p \notin stray

(* A daemon that counts is named by its pid file, or the script that       *)
(* launched it is about to write the file.                                 *)
Known == \A p \in Pids, i \in Instances : Counts(p, i) =>
            \/ file[i] = p
            \/ \E o \in Operators : Script!Writing(o) /\ instance[o] = i /\ newpid[o] = p

(* Starts of one instance that are there together are marked, and so is    *)
(* what they have launched.                                                *)
Marked == \A o \in Operators :
             /\ \A u \in Operators \ {o} :
                   Script!Between(o) /\ Script!Between(u) /\ instance[u] = instance[o]
                   => o \in spoilt
             /\ Script!Writing(o) /\ o \in spoilt => newpid[o] \in stray

(* Between the check and the end of the echo only the start's own daemon   *)
(* counts.                                                                 *)
OnlyNew == \A o \in Operators : Script!Between(o) =>
              \A p \in Pids : Counts(p, instance[o]) => Script!Writing(o) /\ p = newpid[o]

(* What a stop has to reach: daemons that the file names as long as they   *)
(* run, signalled when it has come to its end.                             *)
DueKept == \A o \in Operators : \A p \in due[o] :
              /\ p \in Pids \ stray /\ proc[p] # "free"
              /\ \A u \in Operators : ~ (Script!Writing(u) /\ newpid[u] = p)
              /\ Alive(p, instance[o]) => file[instance[o]] = p
SignalGiven == \A o \in Operators : pc[o] = "stopped" =>
                 \A p \in due[o] : Alive(p, instance[o]) => proc[p] = "dying"
NoneDue == \A o \in Operators : pc[o] \notin {"stopCheck", "signal", "stopped"} => due[o] = {}

ScriptInv == Script!TypeOK /\ Known /\ Marked /\ OnlyNew /\ DueKept /\ SignalGiven /\ NoneDue

LEMMA ScriptInitInv == ASSUME Script!Init PROVE ScriptInv
<1>1. (CHOOSE i \in Instances : TRUE) \in Instances
  BY InstancesAssumption
<1>2. Script!TypeOK
  BY <1>1 DEF Script!Init, Script!TypeOK
<1> QED BY <1>2 DEF Script!Init, ScriptInv, Known, Marked, OnlyNew, DueKept, SignalGiven,
           NoneDue, Counts, Alive, Script!Writing, Script!Between

-----------------------------------------------------------------------------
(* Steps that leave files and processes alone, and mark nothing.           *)
LEMMA QuietInv ==
    ASSUME ScriptInv, NEW o \in Operators,
           \/ Script!start(o) \/ Script!startEnds(o) \/ Script!stop(o) \/ Script!stopCheck(o)
           \/ Script!stopEnds(o)
    PROVE  ScriptInv'
<1>1. /\ UNCHANGED <<file, proc, owner, stray, spoilt>>
      /\ pc[o] \in {"idle", "sleep", "stopCheck", "stopped"}
      /\ \E q \in {"startCheck", "idle", "stopCheck", "signal", "stopped"} :
            pc' = [pc EXCEPT ![o] = q]
  BY DEF Script!start, Script!startEnds, Script!stop, Script!stopCheck, Script!stopEnds,
     Script!Goto, Script!aux
<1>2. Script!TypeOK'
  <2>1. /\ instance' \in [Operators -> Instances] /\ newpid' \in [Operators -> Pids \cup {Script!None}]
        /\ due' \in [Operators -> SUBSET Pids]
    <3>1. \A i : Script!Recorded(i) \in SUBSET Pids
      BY DEF Script!Recorded, Script!Daemons
    <3> QED BY <3>1 DEF Script!start, Script!startEnds, Script!stop, Script!stopCheck,
               Script!stopEnds, Script!aux, ScriptInv, Script!TypeOK
  <2> QED BY <1>1, <2>1 DEF ScriptInv, Script!TypeOK
<1>3. /\ \A u \in Operators \ {o} : pc'[u] = pc[u] /\ instance'[u] = instance[u]
                                    /\ newpid'[u] = newpid[u] /\ due'[u] = due[u]
      /\ ~ Script!Between(o) /\ ~ Script!Between(o)'
  BY <1>1 DEF Script!start, Script!startEnds, Script!stop, Script!stopCheck, Script!stopEnds,
     Script!Goto, Script!aux, ScriptInv, Script!TypeOK, Script!Between, Script!Writing
<1>4. \A u \in Operators : (Script!Between(u)' <=> Script!Between(u))
                           /\ (Script!Writing(u)' <=> Script!Writing(u))
                           /\ (Script!Between(u) => u # o)
  BY <1>3 DEF Script!Between, Script!Writing
<1>5. \A p, i : Counts(p, i)' <=> Counts(p, i)
  BY <1>1 DEF Counts, Alive
<1>6. \A u \in Operators : Script!Writing(u) => Script!Between(u)
  BY DEF Script!Between
<1>7. Known' /\ Marked' /\ OnlyNew'
  <2>1. Known'
    BY <1>1, <1>3, <1>4, <1>5, <1>6 DEF ScriptInv, Known
  <2>2. Marked'
    BY <1>1, <1>3, <1>4, <1>5, <1>6 DEF ScriptInv, Marked
  <2>3. OnlyNew'
    BY <1>1, <1>3, <1>4, <1>5, <1>6 DEF ScriptInv, OnlyNew
  <2> QED BY <2>1, <2>2, <2>3
<1>8. ASSUME NEW p \in due'[o]
      PROVE  /\ p \in Pids \ stray /\ proc[p] # "free"
             /\ \A u \in Operators : ~ (Script!Writing(u) /\ newpid[u] = p)
             /\ Alive(p, instance'[o]) => file[instance'[o]] = p
  <2>1. CASE Script!stop(o)
    <3>1. PICK i \in Instances : instance'[o] = i /\ due'[o] = Script!Recorded(i)
      BY <2>1 DEF Script!stop, ScriptInv, Script!TypeOK
    <3>2. /\ p \in Pids /\ Counts(p, i)
          /\ \A u \in Operators : ~ (Script!Writing(u) /\ newpid[u] = p)
      BY <1>8, <3>1 DEF Script!Recorded, Script!Daemons, Counts, Alive
    <3>3. file[i] = p
      BY <3>1, <3>2 DEF ScriptInv, Known
    <3> QED BY <3>1, <3>2, <3>3 DEF Counts, Alive
  <2>2. CASE Script!stopCheck(o)
    <3>1. due'[o] = due[o] /\ instance'[o] = instance[o]
      BY <2>2 DEF Script!stopCheck, Script!aux
    <3> QED BY <1>8, <3>1 DEF ScriptInv, DueKept
  <2>3. CASE Script!start(o) \/ Script!startEnds(o) \/ Script!stopEnds(o)
    <3>1. due'[o] = {}
      BY <1>1, <2>3 DEF Script!start, Script!startEnds, Script!stopEnds, Script!aux,
         Script!Goto, ScriptInv, Script!TypeOK, NoneDue
    <3> QED BY <1>8, <3>1
  <2> QED BY <2>1, <2>2, <2>3
<1>9. DueKept'
  <2> SUFFICES ASSUME NEW u \in Operators, NEW p \in due'[u]
               PROVE  /\ p \in Pids \ stray' /\ proc'[p] # "free"
                      /\ \A w \in Operators : ~ (Script!Writing(w)' /\ newpid'[w] = p)
                      /\ Alive(p, instance[u])' => file'[instance'[u]] = p
    BY DEF DueKept
  <2>1. \A w \in Operators : Script!Writing(w)' => Script!Writing(w) /\ newpid'[w] = newpid[w]
    BY <1>3, <1>4, <1>6
  <2>2. Alive(p, instance[u])' <=> Alive(p, instance'[u])
    BY <1>1 DEF Alive
  <2>3. CASE u = o
    BY <1>1, <1>8, <2>1, <2>2, <2>3
  <2>4. CASE u # o
    BY <1>1, <1>3, <2>1, <2>2, <2>4 DEF ScriptInv, DueKept
  <2> QED BY <2>3, <2>4
<1>10. SignalGiven'
  <2> SUFFICES ASSUME NEW u \in Operators, pc'[u] = "stopped", NEW p \in due'[u],
                      Alive(p, instance'[u])
               PROVE  proc[p] = "dying"
    BY <1>1 DEF SignalGiven, Alive
  <2>1. CASE u = o
    <3>1. Script!stopCheck(o) /\ ~ Script!Probe(o) /\ instance' = instance
      BY <1>1, <2>1 DEF Script!start, Script!startEnds, Script!stop, Script!stopCheck,
         Script!stopEnds, Script!Goto, ScriptInv, Script!TypeOK
    <3> QED BY <1>8, <2>1, <3>1 DEF Script!Probe, Script!Exists, Script!FileOf, Alive
  <2>2. CASE u # o
    BY <1>3, <2>2 DEF ScriptInv, SignalGiven
  <2> QED BY <2>1, <2>2
<1>11. NoneDue'
  <2>1. pc'[o] \notin {"stopCheck", "signal", "stopped"} => due'[o] = {}
    BY <1>1 DEF Script!start, Script!startEnds, Script!stop, Script!stopCheck,
       Script!stopEnds, Script!Goto, Script!aux, ScriptInv, Script!TypeOK, NoneDue
  <2> QED BY <1>3, <2>1 DEF ScriptInv, NoneDue
<1> QED BY <1>2, <1>7, <1>9, <1>10, <1>11 DEF ScriptInv

(* Steps that only move one script and mark daemons that nobody has to     *)
(* reach: the check of a start, and a script that ends early.              *)
LEMMA MarkInv ==
    ASSUME ScriptInv, NEW o \in Operators, Script!TypeOK',
           UNCHANGED <<file, proc, owner, instance>>, stray \subseteq stray',
           \A u \in Operators \ {o} : pc'[u] = pc[u] /\ newpid'[u] = newpid[u]
                                      /\ due'[u] = due[u],
           due'[o] = {}, ~ Script!Writing(o)',
           \A p \in stray' : p \in stray \/ \E u \in Operators : Script!Writing(u) /\ newpid[u] = p,
           Script!Writing(o) => newpid[o] \in stray',
           Marked',
           pc'[o] = "launch" => \A p \in Pids : ~ Counts(p, instance[o])',
           pc'[o] \notin {"signal", "stopped"}
    PROVE  ScriptInv'
<1>1. \A p, i : Alive(p, i)' <=> Alive(p, i)
  BY DEF Alive
<1>2. \A p, i : Counts(p, i)' => Counts(p, i)
  BY <1>1 DEF Counts
<1>3. \A u \in Operators : Script!Writing(u)' => Script!Writing(u) /\ u # o
  BY DEF Script!Writing
<1>4. Known'
  <2> SUFFICES ASSUME NEW p \in Pids, NEW i \in Instances, Counts(p, i)', file[i] # p
               PROVE  \E u \in Operators : Script!Writing(u)' /\ instance[u] = i /\ newpid'[u] = p
    BY DEF Known
  <2>1. PICK u \in Operators : Script!Writing(u) /\ instance[u] = i /\ newpid[u] = p
    BY <1>2 DEF ScriptInv, Known
  <2>2. u # o
    BY <2>1 DEF Counts
  <2> QED BY <2>1, <2>2 DEF Script!Writing
<1>5. OnlyNew'
  <2> SUFFICES ASSUME NEW u \in Operators, Script!Between(u)', NEW p \in Pids,
                      Counts(p, instance[u])'
               PROVE  Script!Writing(u)' /\ p = newpid'[u]
    BY DEF OnlyNew
  <2>1. u # o
    BY DEF Script!Between
  <2>2. Counts(p, instance[u]) /\ Script!Between(u)
    BY <1>1, <2>1 DEF Counts, Alive, Script!Between, Script!Writing
  <2> QED BY <2>1, <2>2 DEF ScriptInv, OnlyNew, Script!Writing
<1>6. DueKept'
  <2> SUFFICES ASSUME NEW u \in Operators, NEW p \in due'[u]
               PROVE  /\ p \in Pids \ stray' /\ proc[p] # "free"
                      /\ \A w \in Operators : ~ (Script!Writing(w)' /\ newpid'[w] = p)
                      /\ Alive(p, instance[u])' => file[instance[u]] = p
    BY DEF DueKept
  <2>1. u # o /\ p \in due[u]
    OBVIOUS
  <2>2. /\ p \in Pids \ stray /\ proc[p] # "free"
        /\ \A w \in Operators : ~ (Script!Writing(w) /\ newpid[w] = p)
        /\ Alive(p, instance[u]) => file[instance[u]] = p
    BY <2>1 DEF ScriptInv, DueKept
  <2>3. Alive(p, instance[u])' => Alive(p, instance[u])
    BY DEF Alive
  <2> QED BY <1>3, <2>2, <2>3
<1>7. SignalGiven' /\ NoneDue'
  BY <1>1 DEF ScriptInv, SignalGiven, NoneDue, Alive
<1> QED BY <1>4, <1>5, <1>6, <1>7 DEF ScriptInv

(* The check of a start.                                                   *)
LEMMA CheckInv ==
    ASSUME ScriptInv, NEW o \in Operators, Script!startCheck(o) PROVE ScriptInv'
<1> DEFINE others == Script!Overlaps(o)
           late   == {newpid[u] : u \in {w \in others : Script!Writing(w)}}
<1>1. /\ pc[o] = "startCheck"
      /\ pc' = [pc EXCEPT ![o] = IF Script!AlreadyRuns(o) THEN "idle" ELSE "launch"]
      /\ UNCHANGED <<file, proc, owner, instance, newpid, due>>
  BY DEF Script!startCheck, Script!Goto
<1>2. IF Script!AlreadyRuns(o) THEN spoilt' = spoilt /\ stray' = stray
      ELSE stray' = stray \cup late /\ spoilt \subseteq spoilt' /\ others \subseteq spoilt'
           /\ (others # {} => o \in spoilt') /\ spoilt' \subseteq spoilt \cup {o} \cup others
  <2>1. CASE Script!AlreadyRuns(o)
    BY <2>1 DEF Script!startCheck
  <2>2. CASE ~ Script!AlreadyRuns(o) /\ others = {}
    <3>1. late = {}
      BY <2>2
    <3> QED BY <2>2, <3>1 DEF Script!startCheck
  <2>3. CASE ~ Script!AlreadyRuns(o) /\ others # {}
    BY <2>3 DEF Script!startCheck
  <2> QED BY <2>1, <2>2, <2>3
<1>3. others \subseteq Operators
  BY DEF Script!Overlaps
<1>4. /\ late \subseteq Pids \cup {Script!None}
      /\ \A p \in late : \E u \in Operators : Script!Writing(u) /\ newpid[u] = p
  BY <1>3 DEF ScriptInv, Script!TypeOK
<1>5. Script!TypeOK'
  <2>1. stray' \subseteq Pids \cup {Script!None} /\ spoilt' \subseteq Operators
    BY <1>2, <1>3, <1>4 DEF ScriptInv, Script!TypeOK
  <2> QED BY <1>1, <2>1 DEF ScriptInv, Script!TypeOK
<1>6. /\ \A u \in Operators \ {o} : pc'[u] = pc[u]
      /\ pc'[o] \in {"idle", "launch"} /\ ~ Script!Writing(o) /\ ~ Script!Writing(o)'
      /\ due'[o] = {}
  BY <1>1 DEF ScriptInv, Script!TypeOK, NoneDue, Script!Writing
<1>7. Marked'
  <2> SUFFICES ASSUME NEW u \in Operators
               PROVE  /\ \A w \in Operators \ {u} :
                           Script!Between(u)' /\ Script!Between(w)' /\ instance[w] = instance[u]
                           => u \in spoilt'
                      /\ Script!Writing(u)' /\ u \in spoilt' => newpid[u] \in stray'
    BY <1>1 DEF Marked
  <2>1. ASSUME NEW w \in Operators \ {u}, Script!Between(u)', Script!Between(w)',
               instance[w] = instance[u]
        PROVE  u \in spoilt'
    <3>1. CASE u # o /\ w # o
      BY <1>2, <1>6, <2>1, <3>1 DEF ScriptInv, Marked, Script!Between, Script!Writing
    <3>2. CASE u = o
      <4>1. w \in others /\ ~ Script!AlreadyRuns(o)
        BY <1>1, <1>6, <2>1, <3>2
           DEF Script!Overlaps, Script!Between, Script!Writing, ScriptInv, Script!TypeOK
      <4> QED BY <1>2, <3>2, <4>1
    <3>3. CASE w = o
      <4>1. u \in others /\ ~ Script!AlreadyRuns(o)
        BY <1>1, <1>6, <2>1, <3>3
           DEF Script!Overlaps, Script!Between, Script!Writing, ScriptInv, Script!TypeOK
      <4> QED BY <1>2, <4>1
    <3> QED BY <3>1, <3>2, <3>3
  <2>2. ASSUME Script!Writing(u)', u \in spoilt' PROVE newpid[u] \in stray'
    <3>1. u # o /\ Script!Writing(u)
      BY <1>6, <2>2 DEF Script!Writing
    <3>2. CASE u \in spoilt
      BY <1>2, <3>1, <3>2 DEF ScriptInv, Marked
    <3>3. CASE u \notin spoilt
      BY <1>2, <2>2, <3>1, <3>3
    <3> QED BY <3>2, <3>3
  <2> QED BY <2>1, <2>2
<1>8. ASSUME pc'[o] = "launch", NEW p \in Pids, Counts(p, instance[o])' PROVE FALSE
  <2>1. ~ Script!AlreadyRuns(o) /\ instance[o] \in Instances
    BY <1>1, <1>8 DEF ScriptInv, Script!TypeOK
  <2>2. Counts(p, instance[o]) /\ p \notin late
    BY <1>1, <1>2, <1>8, <2>1 DEF Counts, Alive
  <2>3. file[instance[o]] # p
    BY <2>1, <2>2 DEF Script!AlreadyRuns, Script!Probe, Script!Exists, Script!FileOf,
       Counts, Alive
  <2>4. PICK u \in Operators : Script!Writing(u) /\ instance[u] = instance[o] /\ newpid[u] = p
    BY <2>1, <2>2, <2>3 DEF ScriptInv, Known
  <2>5. u \in others
    BY <1>6, <2>4 DEF Script!Overlaps, Script!Between
  <2> QED BY <2>2, <2>4, <2>5
<1> HIDE DEF others, late
<1> QED BY <1>1, <1>2, <1>4, <1>5, <1>6, <1>7, <1>8, MarkInv

(* A script ends early.                                                    *)
LEMMA InterruptInv ==
    ASSUME ScriptInv, NEW o \in Operators, Script!interrupt(o) PROVE ScriptInv'
<1>1. /\ pc' = [pc EXCEPT ![o] = "idle"]
      /\ stray' = IF Script!Writing(o) THEN stray \cup {newpid[o]} ELSE stray
      /\ spoilt' = spoilt \ {o} /\ due' = [due EXCEPT ![o] = {}]
      /\ newpid' = [newpid EXCEPT ![o] = Script!None]
      /\ UNCHANGED <<file, proc, owner, instance>>
  BY DEF Script!interrupt
<1>2. Script!TypeOK'
  <2>1. newpid[o] \in Pids \cup {Script!None}
    BY DEF ScriptInv, Script!TypeOK
  <2> QED BY <1>1, <2>1 DEF ScriptInv, Script!TypeOK
<1>3. /\ \A u \in Operators \ {o} : pc'[u] = pc[u] /\ newpid'[u] = newpid[u]
                                    /\ due'[u] = due[u]
      /\ pc'[o] = "idle" /\ due'[o] = {} /\ ~ Script!Between(o)' /\ ~ Script!Writing(o)'
  BY <1>1 DEF ScriptInv, Script!TypeOK, Script!Between, Script!Writing
<1>4. Marked'
  <2> SUFFICES ASSUME NEW u \in Operators
               PROVE  /\ \A w \in Operators \ {u} :
                           Script!Between(u)' /\ Script!Between(w)' /\ instance[w] = instance[u]
                           => u \in spoilt'
                      /\ Script!Writing(u)' /\ u \in spoilt' => newpid'[u] \in stray'
    BY <1>1 DEF Marked
  <2>1. \A w \in Operators : Script!Between(w)' => w # o /\ Script!Between(w)
    BY <1>3 DEF Script!Between, Script!Writing
  <2>2. Script!Writing(u)' => u # o /\ Script!Writing(u)
    BY <1>3 DEF Script!Writing
  <2> QED BY <1>1, <1>3, <2>1, <2>2 DEF ScriptInv, Marked
<1> QED BY <1>1, <1>2, <1>3, <1>4, MarkInv

(* The daemon is launched.                                                 *)
LEMMA LaunchInv ==
    ASSUME ScriptInv, NEW o \in Operators, Script!launch(o) PROVE ScriptInv'
<1>1. PICK q \in Pids : /\ proc[q] = "free" /\ proc' = [proc EXCEPT ![q] = "daemon"]
                        /\ owner' = [owner EXCEPT ![q] = instance[o]]
                        /\ newpid' = [newpid EXCEPT ![o] = q]
                        /\ stray' = IF o \in spoilt THEN stray \cup {q} ELSE stray
  BY DEF Script!launch
<1>2. /\ pc[o] = "launch" /\ pc' = [pc EXCEPT ![o] = "truncate"]
      /\ UNCHANGED <<file, instance, due, spoilt>>
  BY DEF Script!launch, Script!Goto
<1>3. Script!TypeOK'
  BY <1>1, <1>2 DEF ScriptInv, Script!TypeOK
<1>4. /\ \A u \in Operators \ {o} : pc'[u] = pc[u] /\ newpid'[u] = newpid[u]
      /\ newpid'[o] = q /\ Script!Writing(o)' /\ ~ Script!Writing(o) /\ Script!Between(o)
      /\ \A u \in Operators : (Script!Between(u)' <=> Script!Between(u))
      /\ \A u \in Operators \ {o} : (Script!Writing(u)' <=> Script!Writing(u))
  BY <1>1, <1>2 DEF ScriptInv, Script!TypeOK, Script!Writing, Script!Between
<1>5. \A p \in Pids : p # q =>
         /\ proc'[p] = proc[p]
         /\ \A i : (Alive(p, i)' <=> Alive(p, i))
                   /\ (Counts(p, i)' => Counts(p, i))
  BY <1>1 DEF ScriptInv, Script!TypeOK, Alive, Counts
<1>6. \A i : Counts(q, i)' => i = instance[o] /\ o \notin spoilt
  BY <1>1 DEF ScriptInv, Script!TypeOK, Alive, Counts
<1>7. Known'
  <2> SUFFICES ASSUME NEW p \in Pids, NEW i \in Instances, Counts(p, i)', file[i] # p
               PROVE  \E u \in Operators : Script!Writing(u)' /\ instance[u] = i /\ newpid'[u] = p
    BY <1>2 DEF Known
  <2>1. CASE p = q
    BY <1>4, <1>6, <2>1
  <2>2. CASE p # q
    <3>1. PICK u \in Operators : Script!Writing(u) /\ instance[u] = i /\ newpid[u] = p
      BY <1>5, <2>2 DEF ScriptInv, Known
    <3> QED BY <1>4, <3>1
  <2> QED BY <2>1, <2>2
<1>8. Marked'
  BY <1>1, <1>2, <1>4 DEF ScriptInv, Marked
<1>9. OnlyNew'
  <2> SUFFICES ASSUME NEW u \in Operators, Script!Between(u)', NEW p \in Pids,
                      NEW i, i = instance[u], Counts(p, i)'
               PROVE  Script!Writing(u)' /\ p = newpid'[u]
    BY <1>2 DEF OnlyNew
  <2>1. CASE p = q
    <3>1. u = o
      BY <1>4, <1>6, <2>1 DEF ScriptInv, Marked
    <3> QED BY <1>4, <2>1, <3>1
  <2>2. CASE p # q
    <3>1. Script!Writing(u) /\ p = newpid[u]
      BY <1>4, <1>5, <2>2 DEF ScriptInv, OnlyNew
    <3> QED BY <1>4, <3>1
  <2> QED BY <2>1, <2>2
<1>10. DueKept'
  <2> SUFFICES ASSUME NEW u \in Operators, NEW p \in due[u]
               PROVE  /\ p \in Pids \ stray' /\ proc'[p] # "free"
                      /\ \A w \in Operators : ~ (Script!Writing(w)' /\ newpid'[w] = p)
                      /\ \A i : i = instance[u] => (Alive(p, i)' => file[i] = p)
    BY <1>2 DEF DueKept
  <2>1. /\ p \in Pids \ stray /\ proc[p] # "free" /\ p # q
        /\ \A w \in Operators : ~ (Script!Writing(w) /\ newpid[w] = p)
        /\ Alive(p, instance[u]) => file[instance[u]] = p
    BY <1>1 DEF ScriptInv, DueKept
  <2> QED BY <1>1, <1>4, <1>5, <2>1
<1>11. SignalGiven'
  <2> SUFFICES ASSUME NEW u \in Operators, pc'[u] = "stopped", NEW p \in due[u],
                      NEW i, i = instance[u], Alive(p, i)'
               PROVE  proc'[p] = "dying"
    BY <1>2 DEF SignalGiven
  <2>1. p \in Pids /\ p # q /\ u # o
    BY <1>1, <1>2 DEF ScriptInv, DueKept, Script!TypeOK
  <2> QED BY <1>4, <1>5, <2>1 DEF ScriptInv, SignalGiven
<1>12. NoneDue'
  BY <1>2, <1>4 DEF ScriptInv, NoneDue, Script!TypeOK
<1> QED BY <1>3, <1>7, <1>8, <1>9, <1>10, <1>11, <1>12 DEF ScriptInv

(* The file is truncated, and written.                                     *)
LEMMA WriteInv ==
    ASSUME ScriptInv, NEW o \in Operators, Script!truncate(o) \/ Script!record(o)
    PROVE  ScriptInv'
<1>1. /\ Script!Writing(o) /\ Script!Between(o)
      /\ pc' = [pc EXCEPT ![o] = IF Script!truncate(o) THEN "record" ELSE "sleep"]
      /\ UNCHANGED <<proc, owner, instance, newpid, stray, due>>
  BY DEF Script!truncate, Script!record, Script!Goto, Script!Writing, Script!Between,
     Script!aux, ScriptInv, Script!TypeOK
<1>2. /\ file' = [file EXCEPT ![instance[o]] = IF Script!truncate(o) THEN Script!Empty
                                               ELSE newpid[o]]
      /\ spoilt' = IF Script!truncate(o) THEN spoilt ELSE spoilt \ {o}
  BY DEF Script!truncate, Script!record, Script!FileOf, Script!Goto, Script!aux
<1>3. Script!TypeOK'
  <2>1. IF Script!truncate(o) THEN TRUE ELSE newpid[o] \in Pids \cup {Script!None}
    BY DEF ScriptInv, Script!TypeOK
  <2> QED BY <1>1, <1>2, <2>1 DEF ScriptInv, Script!TypeOK
<1>4. \A p \in Pids : Counts(p, instance[o]) => p = newpid[o]
  BY <1>1 DEF ScriptInv, OnlyNew
<1>5. /\ \A u \in Operators \ {o} : (Script!Writing(u)' <=> Script!Writing(u))
                                    /\ (Script!Between(u)' <=> Script!Between(u))
                                    /\ pc'[u] = pc[u]
      /\ IF Script!truncate(o) THEN Script!Writing(o)' /\ Script!Between(o)'
         ELSE ~ Script!Writing(o)' /\ ~ Script!Between(o)'
  BY <1>1 DEF Script!Writing, Script!Between, ScriptInv, Script!TypeOK
<1>6. \A p, i : (Counts(p, i)' <=> Counts(p, i)) /\ (Alive(p, i)' <=> Alive(p, i))
  BY <1>1 DEF Counts, Alive
<1>7. Known'
  <2> SUFFICES ASSUME NEW p \in Pids, NEW i \in Instances, Counts(p, i)
               PROVE  file'[i] = p \/ \E u \in Operators : Script!Writing(u)' /\ instance[u] = i
                                                           /\ newpid[u] = p
    BY <1>1, <1>6 DEF Known
  <2>1. CASE i = instance[o]
    BY <1>1, <1>2, <1>4, <1>5, <2>1 DEF ScriptInv, Script!TypeOK
  <2>2. CASE i # instance[o]
    BY <1>1, <1>2, <1>5, <2>2 DEF ScriptInv, Script!TypeOK, Known
  <2> QED BY <2>1, <2>2
<1>8. Marked' /\ OnlyNew'
  <2>1. Marked'
    BY <1>1, <1>2, <1>5 DEF ScriptInv, Marked
  <2>2. ASSUME NEW u \in Operators, Script!Between(u)', NEW p \in Pids,
               NEW i, i = instance[u], Counts(p, i)'
        PROVE  Script!Writing(u)' /\ p = newpid[u]
    <3>1. Script!Between(u) /\ Script!Writing(u) /\ p = newpid[u]
      BY <1>1, <1>5, <1>6, <2>2 DEF ScriptInv, OnlyNew
    <3> QED BY <1>5, <2>2, <3>1
  <2>3. OnlyNew'
    BY <1>1, <2>2 DEF OnlyNew
  <2> QED BY <2>1, <2>3
<1>9. DueKept'
  <2> SUFFICES ASSUME NEW u \in Operators, NEW p \in due[u]
               PROVE  /\ p \in Pids \ stray /\ proc[p] # "free"
                      /\ \A w \in Operators : ~ (Script!Writing(w)' /\ newpid[w] = p)
                      /\ Alive(p, instance[u]) => file'[instance[u]] = p
    BY <1>1, <1>6 DEF DueKept, Alive
  <2>1. /\ p \in Pids \ stray /\ proc[p] # "free"
        /\ \A w \in Operators : ~ (Script!Writing(w) /\ newpid[w] = p)
        /\ Alive(p, instance[u]) => file[instance[u]] = p
    BY DEF ScriptInv, DueKept
  <2>2. ASSUME Alive(p, instance[u]) PROVE instance[u] # instance[o]
    BY <1>1, <1>4, <2>1, <2>2 DEF Counts
  <2>3. instance[u] \in Instances /\ instance[o] \in Instances
    BY DEF ScriptInv, Script!TypeOK
  <2> QED BY <1>1, <1>2, <1>5, <2>1, <2>2, <2>3 DEF ScriptInv, Script!TypeOK
<1>10. SignalGiven' /\ NoneDue'
  <2>1. due[o] = {}
    BY <1>1 DEF ScriptInv, NoneDue, Script!Writing
  <2> QED BY <1>1, <1>5, <2>1 DEF ScriptInv, SignalGiven, NoneDue, Alive
<1> QED BY <1>3, <1>7, <1>8, <1>9, <1>10 DEF ScriptInv

(* Steps after which no daemon is there that was not there before.         *)
LEMMA ProcInv ==
    ASSUME ScriptInv, Script!TypeOK', UNCHANGED <<file, owner, instance, newpid, stray, due, spoilt>>,
           \A u \in Operators : \/ pc'[u] = pc[u]
                                \/ pc[u] = "signal" /\ pc'[u] = "stopped",
           \A p \in Pids, i \in Instances : Alive(p, i)' => Alive(p, i),
           \A p \in Pids : proc[p] # "free" => proc'[p] # "free",
           SignalGiven'
    PROVE  ScriptInv'
<1>1. \A u \in Operators : (Script!Writing(u)' <=> Script!Writing(u))
                           /\ (Script!Between(u)' <=> Script!Between(u))
  BY DEF Script!Writing, Script!Between
<1>2. \A p \in Pids, i \in Instances : Counts(p, i)' => Counts(p, i)
  BY DEF Counts
<1>3. \A u \in Operators : instance[u] \in Instances
  BY DEF ScriptInv, Script!TypeOK
<1>4. Known'
  <2> SUFFICES ASSUME NEW p \in Pids, NEW i \in Instances, Counts(p, i)'
               PROVE  file[i] = p \/ \E u \in Operators : Script!Writing(u)' /\ instance[u] = i
                                                          /\ newpid[u] = p
    BY DEF Known
  <2> QED BY <1>1, <1>2 DEF ScriptInv, Known
<1>5. Marked'
  BY <1>1 DEF ScriptInv, Marked
<1>6. OnlyNew'
  <2> SUFFICES ASSUME NEW u \in Operators, Script!Between(u)', NEW p \in Pids,
                      NEW i, i = instance[u], Counts(p, i)'
               PROVE  Script!Writing(u)' /\ p = newpid[u]
    BY DEF OnlyNew
  <2> QED BY <1>1, <1>2, <1>3 DEF ScriptInv, OnlyNew
<1>7. DueKept'
  <2> SUFFICES ASSUME NEW u \in Operators, NEW p \in due[u]
               PROVE  /\ p \in Pids \ stray /\ proc'[p] # "free"
                      /\ \A w \in Operators : ~ (Script!Writing(w)' /\ newpid[w] = p)
                      /\ \A i : i = instance[u] => (Alive(p, i)' => file[i] = p)
    BY DEF DueKept
  <2> QED BY <1>1, <1>3 DEF ScriptInv, DueKept
<1>8. NoneDue'
  BY DEF ScriptInv, NoneDue
<1> QED BY <1>4, <1>5, <1>6, <1>7, <1>8 DEF ScriptInv

(* The daemon gets its signal.                                             *)
LEMMA SignalInv ==
    ASSUME ScriptInv, NEW o \in Operators, Script!signal(o) PROVE ScriptInv'
<1>1. /\ pc[o] = "signal" /\ pc' = [pc EXCEPT ![o] = "stopped"]
      /\ UNCHANGED <<file, owner, instance, newpid, stray, due, spoilt>>
  BY DEF Script!signal, Script!Goto, Script!aux
<1>2. proc' \in [Pids -> {"free", "daemon", "dying", "dead", "other", "hit"}]
  BY DEF Script!signal, Script!Signalled, ScriptInv, Script!TypeOK
<1>3. ASSUME NEW p \in Pids
      PROVE  /\ proc'[p] = proc[p] \/ (p = file[instance[o]] /\ proc'[p] = Script!Signalled(p))
             /\ p = file[instance[o]] => proc'[p] = Script!Signalled(p)
  BY DEF Script!signal, Script!FileOf, ScriptInv, Script!TypeOK
<1>4. \A p \in Pids : /\ \A i \in Instances : Alive(p, i)' => Alive(p, i)
                      /\ proc[p] # "free" => proc'[p] # "free"
  BY <1>1, <1>3 DEF Alive, Script!Signalled
<1>5. Script!TypeOK' /\ \A u \in Operators : pc'[u] = IF u = o THEN "stopped" ELSE pc[u]
  BY <1>1, <1>2 DEF ScriptInv, Script!TypeOK
<1>6. SignalGiven'
  <2> SUFFICES ASSUME NEW u \in Operators, pc'[u] = "stopped", NEW p \in due[u],
                      NEW i, i = instance[u], Alive(p, i)'
               PROVE  proc'[p] = "dying"
    BY <1>1 DEF SignalGiven
  <2>1. i \in Instances /\ p \in Pids
    BY DEF ScriptInv, Script!TypeOK, DueKept
  <2>2. Alive(p, i) /\ file[i] = p
    BY <1>4, <2>1 DEF ScriptInv, DueKept
  <2>3. CASE u = o
    BY <1>3, <2>1, <2>2, <2>3 DEF Script!Signalled, Alive
  <2>4. CASE u # o
    <3>1. proc[p] = "dying"
      BY <1>5, <2>2, <2>4 DEF ScriptInv, SignalGiven
    <3> QED BY <1>3, <2>1, <3>1 DEF Script!Signalled
  <2> QED BY <2>3, <2>4
<1> QED BY <1>1, <1>4, <1>5, <1>6, ProcInv

(* A process ends; its pid is used again.                                  *)
LEMMA SystemInv ==
    ASSUME ScriptInv, NEW q \in Pids, Script!ends(q) \/ Script!reuse(q) PROVE ScriptInv'
<1>1. /\ UNCHANGED <<file, owner, pc, instance, newpid, stray, due, spoilt>>
      /\ proc' = [proc EXCEPT ![q] = IF Script!ends(q) THEN "dead" ELSE "other"]
  BY DEF Script!ends, Script!reuse, Script!script, Script!aux, Script!Exists
<1>2. \A p \in Pids : /\ \A i \in Instances : Alive(p, i)' => Alive(p, i) /\ proc'[p] = proc[p]
                      /\ proc[p] # "free" => proc'[p] # "free"
  BY <1>1 DEF Alive, ScriptInv, Script!TypeOK
<1>3. Script!TypeOK'
  BY <1>1 DEF ScriptInv, Script!TypeOK
<1>4. SignalGiven'
  <2> SUFFICES ASSUME NEW u \in Operators, pc[u] = "stopped", NEW p \in due[u],
                      NEW i, i = instance[u], Alive(p, i)'
               PROVE  proc'[p] = "dying"
    BY <1>1 DEF SignalGiven
  <2>1. i \in Instances /\ p \in Pids
    BY DEF ScriptInv, Script!TypeOK, DueKept
  <2> QED BY <1>2, <2>1 DEF ScriptInv, SignalGiven
<1> QED BY <1>1, <1>2, <1>3, <1>4, ProcInv

LEMMA ScriptNextInv ==
    ASSUME ScriptInv, [Script!Next]_(Script!vars) PROVE ScriptInv'
<1>1. CASE UNCHANGED Script!vars
  BY <1>1 DEF Script!vars, Script!script, Script!aux, ScriptInv, Script!TypeOK, Known, Marked,
     OnlyNew, DueKept, SignalGiven, NoneDue, Counts, Alive, Script!Writing, Script!Between
<1>2. CASE Script!Next
  BY <1>2, QuietInv, CheckInv, InterruptInv, LaunchInv, WriteInv, SignalInv, SystemInv
     DEF Script!Next
<1> QED BY <1>1, <1>2

-----------------------------------------------------------------------------
(* spark-daemon.sh, whoever starts, stops and interrupts it: the check of  *)
(* the pid file (line 134) keeps every instance from running twice,        *)
(* whenever daemons crash or are slow to shut down, wherever the scripts   *)
(* stand, and whichever pids are given to other programs; a second daemon  *)
(* means that two starts of the instance overlapped between the check and  *)
(* the echo, or that one was killed there.                                 *)
THEOREM OneDaemonOnly == Script!Spec => []OneDaemon
<1>1. ASSUME ScriptInv PROVE OneDaemon
  <2> SUFFICES ASSUME NEW i \in Instances, NEW p \in Daemons(i) \ stray,
                      NEW q \in Daemons(i) \ stray
               PROVE  p = q
    BY DEF OneDaemon
  <2>1. Counts(p, i) /\ Counts(q, i) /\ p \in Pids /\ q \in Pids
    BY DEF Daemons, Alive, Counts
  <2>2. CASE \E o \in Operators : Script!Writing(o) /\ instance[o] = i
    BY <1>1, <2>1, <2>2 DEF ScriptInv, OnlyNew, Script!Between
  <2>3. CASE ~ \E o \in Operators : Script!Writing(o) /\ instance[o] = i
    BY <1>1, <2>1, <2>3 DEF ScriptInv, Known
  <2> QED BY <2>2, <2>3
<1> QED BY <1>1, ScriptInitInv, ScriptNextInv, PTL DEF Script!Spec

(* When the stop of an operator has come to its end, every daemon of the   *)
(* instance whose start had ended when the stop began has got its signal,  *)
(* although the file is read twice (lines 163, 165) and other operators    *)
(* start, stop and interrupt the script meanwhile.                         *)
THEOREM StopSignals == Script!Spec => []StopRight
<1>1. ASSUME ScriptInv PROVE StopRight
  BY <1>1 DEF ScriptInv, SignalGiven, StopRight, Daemons, Alive
<1> QED BY <1>1, ScriptInitInv, ScriptNextInv, PTL DEF Script!Spec

-----------------------------------------------------------------------------
(* get_partition: how many slaves the first n zones get, all together      *)
(* those that were asked for.                                              *)
Spread(n) == n * (Slaves \div NumZones)
             + (IF n < Slaves % NumZones THEN n ELSE Slaves % NumZones)

LEMMA SpreadFacts ==
    ASSUME Ec2!Bounds
    PROVE  /\ Spread(0) = 0 /\ Spread(NumZones) = Slaves
           /\ \A n \in Nat : /\ Ec2!GetPartition(Slaves, NumZones, n) \in Nat
                             /\ Spread(n) \in Nat
                             /\ Spread(n + 1) = Spread(n) + Ec2!GetPartition(Slaves, NumZones, n)
<1> DEFINE q == Slaves \div NumZones
           r == Slaves % NumZones
<1>1. q \in Nat /\ r \in Nat /\ r < NumZones /\ NumZones \in Nat
  BY DEF Ec2!Bounds
<1>2. Slaves = NumZones * q + r
  BY DEF Ec2!Bounds
<1> HIDE DEF q, r
<1>3. /\ 0 * q = 0
      /\ \A n \in Nat : n * q \in Nat /\ (n + 1) * q = n * q + q
  BY <1>1
<1>4. /\ \A n \in Nat : Spread(n) = n * q + (IF n < r THEN n ELSE r)
      /\ \A n \in Nat : Ec2!GetPartition(Slaves, NumZones, n) = q + (IF r - n > 0 THEN 1 ELSE 0)
  BY DEF Spread, Ec2!GetPartition, q, r
<1>5. Spread(0) = 0
  BY <1>1, <1>3, <1>4
<1>6. Spread(NumZones) = Slaves
  <2>1. (IF NumZones < r THEN NumZones ELSE r) = r
    BY <1>1
  <2>2. Spread(NumZones) = NumZones * q + (IF NumZones < r THEN NumZones ELSE r)
    BY <1>1, <1>4, Zenon
  <2> QED BY <1>2, <2>1, <2>2
<1>7. ASSUME NEW n \in Nat
      PROVE  /\ Ec2!GetPartition(Slaves, NumZones, n) \in Nat /\ Spread(n) \in Nat
             /\ Spread(n + 1) = Spread(n) + Ec2!GetPartition(Slaves, NumZones, n)
  <2>1. PICK a \in Nat : a = n * q /\ (n + 1) * q = a + q
    BY <1>3
  <2>2. Spread(n) = a + (IF n < r THEN n ELSE r)
    BY <1>4, <2>1
  <2>3. Spread(n + 1) = a + q + (IF n + 1 < r THEN n + 1 ELSE r)
    BY <1>4, <2>1
  <2>4. Ec2!GetPartition(Slaves, NumZones, n) = q + (IF r - n > 0 THEN 1 ELSE 0)
    BY <1>4
  <2> QED BY <1>1, <2>2, <2>3, <2>4
<1> QED BY <1>5, <1>6, <1>7

-----------------------------------------------------------------------------
Live == {"open", "pending", "running", "stopping", "stopped"}
Gone == {"none", "cancelled", "shutting-down", "terminated"}
Seen == Ec2!Ids \ orphans

(* Numbers not given yet, and where the script's instances come from.      *)
NumbersOK(o) == /\ \A i \in Ec2!Ids : i > next => inst[i].state = "none"
                /\ op[o].ms \cup op[o].ss \cup op[o].todo \subseteq 1..next

(* A request is open only while the launch that made it looks on.          *)
OpenOK(o) == \A i \in Seen : inst[i].state = "open" =>
                 op[o].pc \in {"slaves", "spot", "cancel"} /\ op[o].spot /\ i \in op[o].ss

(* How many slaves there are after n zones.                                *)
SizeOK(o) ==
    /\ op[o].pc = "find" => op[o].cmd # "launch"
    /\ op[o].pc \in {"group", "auth", "check"} => op[o].ss = {}
    /\ op[o].pc \in {"group", "auth"} => op[o].n < NumRules
    /\ op[o].pc = "check" => op[o].n = 0
    /\ op[o].pc = "slaves" => op[o].n < NumZones /\ Cardinality(op[o].ss) = Spread(op[o].n)
    /\ op[o].pc \in {"spot", "master"} => Cardinality(op[o].ss) = Slaves
    /\ op[o].cmd = "launch" /\ op[o].pc \in {"start", "wait"} \cup Ec2!Setup =>
         Cardinality(op[o].ss) = Slaves /\ op[o].ms # {}

(* The slaves that have the master's key so far.                           *)
KeyOf(o, s) == inst[s].key = inst[op[o].m].key
KeyOK(o) ==
    /\ op[o].pc \in {"read", "keys", "rsync", "run", "done"} => op[o].m # 0
    /\ op[o].pc = "keys" => \A s \in op[o].ss \ op[o].todo : KeyOf(o, s)
    /\ op[o].pc \in {"clone", "rsync", "run", "done"} /\ op[o].cmd \in {"launch", "resume"} =>
         op[o].m # 0 /\ \A s \in op[o].ss : KeyOf(o, s)

(* The script knows every slave that runs or may run, from its check or    *)
(* its answer of get_existing_cluster on.                                  *)
ListOK(o) ==
    /\ op[o].pc \in {"slaves", "spot", "master", "start", "wait"} \cup Ec2!Setup =>
         \A i \in Seen : inst[i].role = "slaves" /\ inst[i].state \in Live => i \in op[o].ss
    /\ op[o].pc \in {"run", "done"} => conf[op[o].m] = op[o].ss

(* What destroy has still to terminate.                                    *)
DestroyOK(o) ==
    /\ op[o].pc = "terminate" => \A i \in Seen : inst[i].state \in Gone \/ i \in op[o].todo
    /\ op[o].pc \in {"revoke", "delete"} => \A i \in Seen : inst[i].state \in Gone

OpInv(o) == NumbersOK(o) /\ OpenOK(o) /\ SizeOK(o) /\ KeyOK(o) /\ ListOK(o) /\ DestroyOK(o)
ClusterInv == Ec2!TypeOK /\ \A o \in Operators : OpInv(o)

-----------------------------------------------------------------------------
LEMMA IdleType == ASSUME Ec2!Bounds PROVE Ec2!Idle \in Ec2!Process
BY DEF Ec2!Idle, Ec2!Process, Ec2!Pcs, Ec2!Cmds, Ec2!Roles, Ec2!Ids, Ec2!Bounds

LEMMA ClusterInitInv == ASSUME Ec2!Bounds, Ec2!Init PROVE ClusterInv
<1>1. Ec2!TypeOK
  BY IdleType DEF Ec2!Init, Ec2!TypeOK, Ec2!Instance, Ec2!States, Ec2!Roles, Ec2!Ids, Ec2!Bounds
<1>2. ASSUME NEW o \in Operators PROVE OpInv(o)
  <2>1. /\ op[o].pc = "idle" /\ op[o].ms = {} /\ op[o].ss = {} /\ op[o].todo = {}
        /\ op[o].cmd = "stop"
        /\ \A i \in Ec2!Ids : inst[i].state = "none"
    BY DEF Ec2!Init, Ec2!Idle
  <2> QED BY <2>1 DEF Ec2!Setup, Seen, OpInv, NumbersOK, OpenOK, SizeOK, KeyOK, ListOK, DestroyOK
<1> QED BY <1>1, <1>2 DEF ClusterInv

(* The script ends: nothing is asked of an idle process but that no        *)
(* request it saw is open.                                                 *)
LEMMA ExitInv ==
    ASSUME Ec2!Bounds, Ec2!TypeOK, NEW o \in Operators, OpInv(o), Ec2!Exit(o), NumbersOK(o)',
           inst' \in [Ec2!Ids -> Ec2!Instance],
           \A i \in (Ec2!Ids \ orphans') : inst'[i].state # "open"
    PROVE  op' \in [Operators -> Ec2!Process] /\ OpInv(o)'
<1>1. op' \in [Operators -> Ec2!Process] /\ op'[o] = Ec2!Idle
  BY IdleType DEF Ec2!Exit, Ec2!TypeOK
<1> QED BY <1>1 DEF Ec2!Idle, Ec2!Setup, Live, Gone, Seen, OpInv, NumbersOK, OpenOK, SizeOK, KeyOK,
     ListOK, DestroyOK

(* Calls that change neither the instances nor the slave lists and move    *)
(* the script on before it has looked for instances.                       *)
LEMMA EarlyInv ==
    ASSUME Ec2!Bounds, Ec2!TypeOK, NEW o \in Operators, OpInv(o),
           \/ Ec2!Begin(o) \/ Ec2!Find(o) \/ Ec2!GetOrMakeGroup(o)
           \/ Ec2!Authorize(o) \/ Ec2!CheckExisting(o)
    PROVE  Ec2!TypeOK' /\ OpInv(o)'
<1>1. /\ op[o] \in Ec2!Process /\ op \in [Operators -> Ec2!Process]
      /\ UNCHANGED <<inst, next, conf, orphans>>
  BY DEF Ec2!TypeOK, Ec2!Begin, Ec2!Find, Ec2!GetOrMakeGroup, Ec2!Authorize,
     Ec2!CheckExisting, Ec2!cloud, Ec2!rest
<1>2. op[o].pc \notin {"slaves", "spot", "cancel"}
  BY DEF Ec2!Begin, Ec2!Find, Ec2!GetOrMakeGroup, Ec2!Authorize, Ec2!CheckExisting, Ec2!At
<1>3. \A i \in Seen : inst[i].state # "open"
  BY <1>2 DEF OpInv, OpenOK
<1>4. groups' \subseteq Ec2!Roles /\ rules' \in [Ec2!Roles -> SUBSET (1..NumRules)]
  <2>1. CASE Ec2!Authorize(o)
    <3>1. op[o].role \in Ec2!Roles /\ op[o].n \in Nat /\ op[o].n < NumRules
      BY <1>1, <2>1 DEF Ec2!Authorize, Ec2!At, Ec2!Process, OpInv, SizeOK
    <3>2. op[o].n + 1 \in 1..NumRules
      BY <3>1 DEF Ec2!Bounds
    <3> QED BY <2>1, <3>1, <3>2 DEF Ec2!Authorize, Ec2!TypeOK
  <2>2. CASE ~ Ec2!Authorize(o)
    BY <1>1, <2>2 DEF Ec2!Begin, Ec2!Find, Ec2!GetOrMakeGroup, Ec2!CheckExisting,
       Ec2!TypeOK, Ec2!cloud, Ec2!Process
  <2> QED BY <2>1, <2>2
<1>5. ASSUME op' \in [Operators -> Ec2!Process] PROVE Ec2!TypeOK'
  BY <1>1, <1>4, <1>5 DEF Ec2!TypeOK
<1>6. NumbersOK(o)' <=> op'[o].ms \cup op'[o].ss \cup op'[o].todo \subseteq 1..next
  BY <1>1 DEF OpInv, NumbersOK
<1>7. CASE Ec2!Exit(o)
  <2>1. NumbersOK(o)'
    <3>1. op'[o].ms = {} /\ op'[o].ss = {} /\ op'[o].todo = {}
      BY <1>1, <1>7 DEF Ec2!Exit, Ec2!Idle
    <3> QED BY <1>6, <3>1
  <2> QED BY <1>1, <1>3, <1>5, <1>7, <2>1, ExitInv DEF Ec2!TypeOK, Seen
<1>8. CASE Ec2!Begin(o)
  <2>1. PICK c \in Options : op' = [op EXCEPT ![o] =
                  [Ec2!Idle EXCEPT !.pc = IF c.cmd = "launch" THEN "group" ELSE "find",
                               !.cmd = c.cmd, !.spot = c.spot, !.reuse = c.reuse,
                               !.delete = c.delete]]
    BY <1>8 DEF Ec2!Begin
  <2>2. c \in [cmd : Ec2!Cmds, spot : BOOLEAN, reuse : BOOLEAN, delete : BOOLEAN]
    BY DEF Ec2!Bounds
  <2>3. /\ op'[o] \in Ec2!Process /\ op'[o].cmd = c.cmd /\ op'[o].ss = {}
        /\ op'[o].ms = {} /\ op'[o].todo = {}
        /\ op'[o].pc = (IF c.cmd = "launch" THEN "group" ELSE "find") /\ op'[o].n = 0
    BY <1>1, <2>1, <2>2, IdleType DEF Ec2!Process, Ec2!Idle, Ec2!Pcs
  <2>4. op' \in [Operators -> Ec2!Process]
    BY <1>1, <2>1, <2>3
  <2> QED BY <1>1, <1>3, <1>5, <1>6, <2>3, <2>4
  DEF Ec2!Bounds, Seen, Ec2!Setup, OpInv, OpenOK, SizeOK, KeyOK, ListOK, DestroyOK
<1>9. CASE Ec2!Find(o) /\ ~ Ec2!Exit(o)
  <2> DEFINE ms == Ec2!GetExistingCluster("master")
             ss == Ec2!GetExistingCluster("slaves")
             c == op[o].cmd
  <2>1. /\ op[o].pc = "find"
        /\ op' = [op EXCEPT ![o].ms = ms, ![o].ss = ss,
                        ![o].todo = IF c = "resume" THEN {} ELSE ms \cup ss,
                        ![o].pc = CASE c = "resume"  -> "key"
                                    [] c = "destroy" -> "terminate"
                                    [] OTHER         -> c]
    BY <1>9 DEF Ec2!Find, Ec2!At
  <2>2. c \in {"resume", "destroy", "stop", "start"}
    BY <1>1, <2>1 DEF OpInv, SizeOK, Ec2!Process, Ec2!Cmds
  <2>3. ms \subseteq Ec2!Ids /\ ss \subseteq Ec2!Ids
    BY DEF Ec2!GetExistingCluster, Ec2!TypeOK
  <2>4. /\ op'[o] \in Ec2!Process /\ op'[o].ms = ms /\ op'[o].ss = ss /\ op'[o].cmd = c
        /\ op'[o].todo = (IF c = "resume" THEN {} ELSE ms \cup ss)
        /\ op'[o].pc = (IF c = "resume" THEN "key" ELSE IF c = "destroy" THEN "terminate" ELSE c)
    <3> HIDE DEF ms, ss
    <3> QED BY <1>1, <2>1, <2>2, <2>3 DEF Ec2!Process, Ec2!Pcs, Ec2!Setup
  <2>5. op' \in [Operators -> Ec2!Process]
    BY <1>1, <2>1, <2>4
  <2>6. \A i \in Ec2!Ids : inst[i].state \in Live /\ inst[i].state # "open" =>
              (inst[i].role = "slaves" => i \in ss) /\ i \in ms \cup ss
    BY DEF Live, Ec2!GetExistingCluster, Ec2!IsActive, Ec2!TypeOK, Ec2!Instance, Ec2!Roles
  <2>7. \A i \in Ec2!Ids : inst[i].state \in Live \cup Gone
    BY DEF Ec2!TypeOK, Ec2!Instance, Ec2!States, Live, Gone
  <2>8. ms \cup ss \subseteq 1..next
    BY DEF Ec2!GetExistingCluster, Ec2!IsActive, Ec2!TypeOK, OpInv, NumbersOK, Ec2!Ids
  <2> HIDE DEF ms, ss
  <2>9. NumbersOK(o)' /\ OpenOK(o)' /\ SizeOK(o)' /\ KeyOK(o)'
    BY <1>1, <1>3, <1>6, <2>2, <2>4, <2>8 DEF Seen, Ec2!Setup, OpenOK, SizeOK, KeyOK
  <2>10. ListOK(o)' /\ DestroyOK(o)'
    BY <1>1, <1>3, <2>2, <2>4, <2>6, <2>7 DEF Seen, Ec2!Setup, ListOK, DestroyOK
  <2> QED BY <1>5, <2>5, <2>9, <2>10 DEF OpInv
<1>10. CASE Ec2!GetOrMakeGroup(o)
  <2> DEFINE r == op[o].role
  <2>1. PICK fresh \in SUBSET Ec2!Roles, role \in Ec2!Roles, to \in {"group", "auth"} :
           op'[o] = [op[o] EXCEPT !.fresh = fresh, !.role = role, !.pc = to]
    <3>1. r \in Ec2!Roles /\ op[o].fresh \in SUBSET Ec2!Roles
      BY <1>1 DEF Ec2!Process
    <3>2. op'[o] = [op[o] EXCEPT !.fresh = IF rules[r] = {} THEN op[o].fresh \cup {r}
                                           ELSE op[o].fresh,
                                 !.role = IF r = "master" THEN "slaves" ELSE "master",
                                 !.pc = IF r = "master" THEN "group" ELSE "auth"]
      BY <1>1, <1>10 DEF Ec2!GetOrMakeGroup
    <3>3. /\ (IF rules[r] = {} THEN op[o].fresh \cup {r} ELSE op[o].fresh) \in SUBSET Ec2!Roles
          /\ (IF r = "master" THEN "slaves" ELSE "master") \in Ec2!Roles
          /\ (IF r = "master" THEN "group" ELSE "auth") \in {"group", "auth"}
      BY <3>1 DEF Ec2!Roles
    <3> QED BY <3>2, <3>3, Zenon
  <2>2. /\ op'[o] \in Ec2!Process /\ op'[o].ss = op[o].ss /\ op'[o].n = op[o].n
        /\ op'[o].ms = op[o].ms /\ op'[o].todo = op[o].todo
        /\ op'[o].pc \in {"group", "auth"}
    BY <1>1, <2>1 DEF Ec2!Process, Ec2!Pcs
  <2>3. op[o].pc = "group" /\ op' \in [Operators -> Ec2!Process]
    BY <1>1, <1>10, <2>2 DEF Ec2!GetOrMakeGroup, Ec2!At
  <2> QED BY <1>1, <1>3, <1>5, <1>6, <2>2, <2>3
  DEF Seen, Ec2!Setup, OpInv, NumbersOK, OpenOK, SizeOK, KeyOK, ListOK, DestroyOK
<1>11. CASE Ec2!Authorize(o) /\ ~ Ec2!Exit(o)
  <2>1. /\ op[o].pc = "auth" /\ op'[o] \in Ec2!Process /\ op'[o].ss = op[o].ss
        /\ op'[o].ms = op[o].ms /\ op'[o].todo = op[o].todo
        /\ op'[o].pc \in {"auth", "check"} /\ op' \in [Operators -> Ec2!Process]
        /\ (op'[o].n = 0 \/ (op'[o].n = op[o].n + 1 /\ op[o].n + 1 # NumRules))
        /\ op'[o].pc = "check" => op'[o].n = 0
    BY <1>1, <1>11 DEF Ec2!Authorize, Ec2!At, Ec2!Process, Ec2!Pcs, Ec2!Roles
  <2>2. op'[o].n < NumRules
    <3>1. op[o].n \in Nat /\ op[o].n < NumRules
      BY <1>1, <2>1 DEF Ec2!Process, OpInv, SizeOK
    <3> QED BY <2>1, <3>1 DEF Ec2!Bounds
  <2> QED BY <1>1, <1>3, <1>5, <1>6, <2>1, <2>2
  DEF Seen, Ec2!Setup, OpInv, NumbersOK, OpenOK, SizeOK, KeyOK, ListOK, DestroyOK
<1>12. CASE Ec2!CheckExisting(o) /\ ~ Ec2!Exit(o)
  <2>1. /\ op[o].pc = "check" /\ ~ Ec2!Refuses(o)
        /\ op' = [op EXCEPT ![o].ms = Ec2!GetExistingCluster("master"), ![o].pc = "slaves"]
    BY <1>12 DEF Ec2!CheckExisting, Ec2!At
  <2>2. /\ op[o].ss = {} /\ op[o].n = 0
    BY <2>1 DEF OpInv, SizeOK
  <2>3. /\ op'[o] \in Ec2!Process /\ op'[o].ss = {} /\ op'[o].n = 0
        /\ op'[o].ms = Ec2!GetExistingCluster("master") /\ op'[o].todo = op[o].todo
        /\ op'[o].pc = "slaves" /\ op' \in [Operators -> Ec2!Process]
    <3>1. Ec2!GetExistingCluster("master") \subseteq Ec2!Ids
      BY DEF Ec2!GetExistingCluster, Ec2!TypeOK
    <3> QED BY <1>1, <2>1, <2>2, <3>1 DEF Ec2!Process, Ec2!Pcs
  <2>4. \A i \in Seen : ~ (inst[i].role = "slaves" /\ inst[i].state \in Live)
    BY <1>3, <2>1 DEF Ec2!Refuses, Ec2!GetExistingCluster, Ec2!IsActive, Live, Seen, Ec2!TypeOK
  <2>5. Ec2!GetExistingCluster("master") \subseteq 1..next /\ op[o].todo \subseteq 1..next
    BY DEF Ec2!GetExistingCluster, Ec2!IsActive, Ec2!TypeOK, OpInv, NumbersOK, Ec2!Ids
  <2>6. Cardinality({}) = Spread(0) /\ 0 < NumZones
    BY SpreadFacts, FS_EmptySet DEF Ec2!Bounds
  <2> QED BY <1>1, <1>3, <1>5, <1>6, <2>3, <2>4, <2>5, <2>6
  DEF Seen, Ec2!Setup, OpInv, OpenOK, SizeOK, KeyOK, ListOK, DestroyOK
<1> QED BY <1>7, <1>8, <1>9, <1>10, <1>11, <1>12

(* One zone's slaves: their numbers are new, so the slaves so far are as   *)
(* many as the zones so far were given.                                    *)
LEMMA SlavesInv ==
    ASSUME Ec2!Bounds, Ec2!TypeOK, NEW o \in Operators, OpInv(o), Ec2!LaunchSlaves(o)
    PROVE  Ec2!TypeOK' /\ OpInv(o)'
<1> DEFINE k == Ec2!GetPartition(Slaves, NumZones, op[o].n)
           to == IF op[o].n + 1 # NumZones THEN "slaves"
                 ELSE IF op[o].spot THEN "spot" ELSE "master"
<1>1. /\ op[o] \in Ec2!Process /\ op \in [Operators -> Ec2!Process] /\ op[o].pc = "slaves"
      /\ op[o].n \in Nat /\ op[o].spot \in BOOLEAN /\ op[o].ss \subseteq Ec2!Ids
  BY DEF Ec2!TypeOK, Ec2!LaunchSlaves, Ec2!At, Ec2!Process
<1>2. k \in Nat /\ Spread(op[o].n + 1) = Spread(op[o].n) + k
  BY <1>1, SpreadFacts
<1>3. /\ next + k <= NumInst /\ next' = next + k
      /\ inst' = [i \in Ec2!Ids |-> IF i \in Ec2!New(k)
                                THEN [state |-> IF op[o].spot THEN "open" ELSE "pending",
                                      role |-> "slaves", spot |-> op[o].spot, key |-> 0]
                                ELSE inst[i]]
      /\ op' = [op EXCEPT ![o].ss = @ \cup Ec2!New(k), ![o].n = @ + 1, ![o].pc = to]
      /\ UNCHANGED <<groups, rules, conf, orphans>>
  BY <1>1 DEF Ec2!LaunchSlaves, Ec2!Allocate, Ec2!New, Ec2!At, Ec2!rest
<1> HIDE DEF k
<1>4. /\ next \in Nat /\ next' \in 0..NumInst /\ Ec2!New(k) \subseteq Ec2!Ids
      /\ Ec2!New(k) \subseteq 1..next' /\ 1..next \subseteq 1..next'
      /\ \A i \in 1..next : i \notin Ec2!New(k)
  BY <1>2, <1>3 DEF Ec2!New, Ec2!Ids, Ec2!TypeOK, Ec2!Bounds
<1>5. /\ op'[o] \in Ec2!Process /\ op' \in [Operators -> Ec2!Process]
      /\ op'[o].ss = op[o].ss \cup Ec2!New(k) /\ op'[o].n = op[o].n + 1 /\ op'[o].pc = to
      /\ op'[o].spot = op[o].spot /\ op'[o].ms = op[o].ms /\ op'[o].todo = op[o].todo
  BY <1>1, <1>3, <1>4 DEF Ec2!Process, Ec2!Pcs
<1>6. to \in {"slaves", "spot", "master"} /\ (op[o].spot => to # "master")
  OBVIOUS
<1>7. /\ \A i \in Ec2!New(k) : /\ inst'[i].state = (IF op[o].spot THEN "open" ELSE "pending")
                           /\ inst'[i].role = "slaves"
      /\ \A i \in Ec2!Ids \ Ec2!New(k) : inst'[i] = inst[i]
  BY <1>3, <1>4
<1>8. Ec2!TypeOK'
  <2>1. inst' \in [Ec2!Ids -> Ec2!Instance]
    BY <1>1, <1>3 DEF Ec2!TypeOK, Ec2!Instance, Ec2!States, Ec2!Roles, Ec2!Bounds
  <2> QED BY <1>3, <1>4, <1>5, <2>1 DEF Ec2!TypeOK
<1>9. NumbersOK(o)'
  <2>1. \A i \in Ec2!Ids : i > next' => i > next /\ i \notin Ec2!New(k)
    BY <1>2, <1>3, <1>4 DEF Ec2!New, Ec2!Ids
  <2> QED BY <1>4, <1>5, <1>7, <2>1 DEF OpInv, NumbersOK
<1>10. OpenOK(o)' /\ ListOK(o)'
  BY <1>1, <1>3, <1>5, <1>6, <1>7 DEF OpInv, OpenOK, ListOK, Seen, Live, Ec2!Setup
<1>11. Cardinality(op'[o].ss) = Spread(op[o].n + 1)
  <2>1. IsFiniteSet(Ec2!Ids) /\ IsFiniteSet(Ec2!New(k)) /\ Cardinality(Ec2!New(k)) = k
    <3>1. IsFiniteSet(Ec2!Ids)
      BY FS_Interval DEF Ec2!Ids, Ec2!Bounds
    <3>2. next + 1 \in Int /\ next + k \in Int
      BY <1>2, <1>4
    <3>3. /\ IsFiniteSet(Ec2!New(k))
          /\ Cardinality(Ec2!New(k)) = IF next + 1 > next + k THEN 0
                                           ELSE (next + k) - (next + 1) + 1
      BY <3>2, FS_Interval DEF Ec2!New
    <3> QED BY <1>2, <1>4, <3>1, <3>3
  <2>2. IsFiniteSet(op[o].ss)
    BY <1>1, <2>1, FS_Subset
  <2>3. op[o].ss \cap Ec2!New(k) = {}
    BY <1>4 DEF OpInv, NumbersOK
  <2>4. Cardinality(op[o].ss \cup Ec2!New(k)) = Cardinality(op[o].ss) + Cardinality(Ec2!New(k)) - 0
    BY <2>1, <2>2, <2>3, FS_Union, FS_EmptySet
  <2>5. Cardinality(op[o].ss) = Spread(op[o].n) /\ Spread(op[o].n) \in Nat
    BY <1>1, SpreadFacts DEF OpInv, SizeOK
  <2> QED BY <1>2, <1>5, <2>1, <2>4, <2>5
<1>12. SizeOK(o)'
  <2>1. op[o].n < NumZones /\ NumZones \in Nat
    BY <1>1 DEF OpInv, SizeOK, Ec2!Bounds
  <2>2. op'[o].pc = "slaves" => op'[o].n < NumZones /\ Cardinality(op'[o].ss) = Spread(op'[o].n)
    BY <1>1, <1>5, <1>11, <2>1
  <2>3. op'[o].pc # "slaves" => Cardinality(op'[o].ss) = Slaves
    BY <1>5, <1>11, SpreadFacts
  <2> QED BY <1>5, <1>6, <2>2, <2>3 DEF SizeOK, Ec2!Setup
<1>13. KeyOK(o)' /\ DestroyOK(o)'
  BY <1>5, <1>6 DEF KeyOK, DestroyOK
<1> QED BY <1>8, <1>9, <1>10, <1>12, <1>13 DEF OpInv

(* The launch's other steps before the set-up, and the ways it ends.       *)
LEMMA MasterInv ==
    ASSUME Ec2!Bounds, Ec2!TypeOK, NEW o \in Operators, OpInv(o),
           \/ Ec2!SpotGranted(o) \/ Ec2!SpotRaises(o) \/ Ec2!SpotCancel(o)
           \/ Ec2!Interrupt(o) \/ Ec2!LaunchMaster(o)
    PROVE  Ec2!TypeOK' /\ OpInv(o)'
<1>1. /\ op[o] \in Ec2!Process /\ op \in [Operators -> Ec2!Process]
      /\ UNCHANGED <<groups, rules, conf>>
  BY DEF Ec2!TypeOK, Ec2!SpotGranted, Ec2!SpotRaises, Ec2!SpotCancel, Ec2!Interrupt, Ec2!LaunchMaster,
     Ec2!cloud
<1>2. CASE Ec2!SpotGranted(o)
  <2>1. /\ op[o].pc = "spot" /\ op' = [op EXCEPT ![o].pc = "master"]
        /\ UNCHANGED <<inst, next, conf, orphans>>
    BY <1>2 DEF Ec2!SpotGranted, Ec2!At, Ec2!Goto, Ec2!cloud, Ec2!rest
  <2>2. /\ op'[o] = [op[o] EXCEPT !.pc = "master"]
        /\ op'[o] \in Ec2!Process /\ op' \in [Operators -> Ec2!Process]
    BY <1>1, <2>1 DEF Ec2!Process, Ec2!Pcs
  <2>3. Ec2!TypeOK'
    BY <1>1, <2>1, <2>2 DEF Ec2!TypeOK
  <2>4. \A i \in Seen : inst[i].state # "open"
    <3> DEFINE active == {i \in op[o].ss : inst[i].state \in {"pending", "running"}}
    <3>0. Ec2!Cardinality(active) = Cardinality(active)
      BY Zenon DEF Ec2!Cardinality, Cardinality, Ec2!IsFiniteSet, IsFiniteSet
    <3>1. Cardinality(active) = Cardinality(op[o].ss)
      BY <1>2, <2>1, <3>0 DEF Ec2!SpotGranted, OpInv, SizeOK
    <3>2. IsFiniteSet(op[o].ss)
      <4>1. IsFiniteSet(Ec2!Ids)
        BY FS_Interval DEF Ec2!Ids, Ec2!Bounds
      <4>2. op[o].ss \in SUBSET Ec2!Ids
        BY <1>1 DEF Ec2!Process
      <4> QED BY <4>1, <4>2, FS_Subset
    <3>3. active = op[o].ss
      BY <3>1, <3>2, FS_Subset
    <3> QED BY <3>3 DEF OpInv, OpenOK
  <2> QED BY <2>1, <2>2, <2>3, <2>4, <1>1
  DEF Ec2!Process, OpInv, NumbersOK, OpenOK, SizeOK, KeyOK, ListOK, DestroyOK, Seen, Ec2!Setup
<1>3. CASE Ec2!SpotCancel(o)
  <2>1. /\ op[o].pc = "cancel" /\ Ec2!Exit(o) /\ UNCHANGED <<next, orphans>>
        /\ inst' = [i \in Ec2!Ids |-> IF i \in op[o].ss /\ inst[i].state = "open"
                                  THEN [inst[i] EXCEPT !.state = "cancelled"] ELSE inst[i]]
    BY <1>3 DEF Ec2!SpotCancel, Ec2!At, Ec2!rest
  <2>2. inst' \in [Ec2!Ids -> Ec2!Instance]
    BY <2>1 DEF Ec2!TypeOK, Ec2!Instance, Ec2!States
  <2>3. /\ \A i \in Ec2!Ids : inst'[i].state = (IF i \in op[o].ss /\ inst[i].state = "open"
                                            THEN "cancelled" ELSE inst[i].state)
        /\ op'[o] = Ec2!Idle
    BY <1>1, <2>1 DEF Ec2!TypeOK, Ec2!Exit
  <2>4. \A i \in (Ec2!Ids \ orphans') : inst'[i].state # "open"
    BY <2>1, <2>3 DEF OpInv, OpenOK, Seen
  <2>5. NumbersOK(o)'
    BY <2>1, <2>3 DEF OpInv, NumbersOK, Ec2!Idle
  <2>6. op' \in [Operators -> Ec2!Process] /\ OpInv(o)'
    BY <2>1, <2>2, <2>4, <2>5, ExitInv
  <2> QED BY <1>1, <2>1, <2>2, <2>6 DEF Ec2!TypeOK
<1>4. CASE Ec2!Interrupt(o)
  <2>1. /\ op[o].pc # "spot" /\ Ec2!Exit(o) /\ UNCHANGED <<inst, next>>
        /\ orphans' = orphans \cup
             (IF op[o].pc = "cancel" \/ (op[o].pc = "slaves" /\ op[o].spot)
              THEN op[o].ss ELSE {})
    BY <1>4 DEF Ec2!Interrupt, Ec2!At, Ec2!cloud
  <2>2. op'[o] = Ec2!Idle /\ orphans' \subseteq Ec2!Ids
    BY <1>1, <2>1 DEF Ec2!TypeOK, Ec2!Exit, Ec2!Process
  <2>3. \A i \in (Ec2!Ids \ orphans') : inst'[i].state # "open"
    BY <2>1 DEF OpInv, OpenOK, Seen
  <2>4. NumbersOK(o)'
    BY <2>1, <2>2 DEF OpInv, NumbersOK, Ec2!Idle
  <2>5. inst' \in [Ec2!Ids -> Ec2!Instance]
    BY <2>1 DEF Ec2!TypeOK
  <2>6. op' \in [Operators -> Ec2!Process] /\ OpInv(o)'
    BY <2>1, <2>3, <2>4, <2>5, ExitInv
  <2> QED BY <1>1, <2>1, <2>2, <2>5, <2>6 DEF Ec2!TypeOK
<1>5. CASE Ec2!LaunchMaster(o) /\ op[o].ms # {}
  <2>1. /\ op[o].pc = "master" /\ op' = [op EXCEPT ![o].pc = "start", ![o].todo = op[o].ms]
        /\ UNCHANGED <<inst, next, conf, orphans>>
    BY <1>5 DEF Ec2!LaunchMaster, Ec2!At, Ec2!rest
  <2>2. /\ op'[o] = [op[o] EXCEPT !.pc = "start", !.todo = op[o].ms]
        /\ op'[o] \in Ec2!Process /\ op' \in [Operators -> Ec2!Process]
    BY <1>1, <2>1 DEF Ec2!Process, Ec2!Pcs
  <2>3. Ec2!TypeOK'
    BY <1>1, <2>1, <2>2 DEF Ec2!TypeOK
  <2> QED BY <1>1, <1>5, <2>1, <2>2, <2>3
  DEF Ec2!Process, OpInv, NumbersOK, OpenOK, SizeOK, KeyOK, ListOK, DestroyOK, Seen, Ec2!Setup
<1>6. CASE Ec2!LaunchMaster(o) /\ op[o].ms = {}
  <2>1. /\ op[o].pc = "master" /\ op' = [op EXCEPT ![o].ms = Ec2!New(1), ![o].pc = "wait"]
        /\ next + 1 <= NumInst /\ next' = next + 1 /\ UNCHANGED <<conf, orphans>>
        /\ inst' = [i \in Ec2!Ids |-> IF i \in Ec2!New(1)
                                  THEN [state |-> "pending", role |-> "master",
                                        spot |-> FALSE, key |-> 0]
                                  ELSE inst[i]]
    BY <1>6 DEF Ec2!LaunchMaster, Ec2!Allocate, Ec2!New, Ec2!At, Ec2!rest
  <2>2. /\ Ec2!New(1) = {next + 1} /\ next + 1 \in Ec2!Ids /\ next' \in 0..NumInst
        /\ 1..next \subseteq 1..next' /\ next + 1 \in 1..next'
        /\ \A i \in Ec2!Ids : i > next' => i > next /\ i # next + 1
    BY <2>1 DEF Ec2!New, Ec2!Ids, Ec2!TypeOK, Ec2!Bounds
  <2>3. /\ op'[o] = [op[o] EXCEPT !.ms = {next + 1}, !.pc = "wait"]
        /\ op'[o] \in Ec2!Process /\ op' \in [Operators -> Ec2!Process]
    BY <1>1, <2>1, <2>2 DEF Ec2!Process, Ec2!Pcs
  <2>4. /\ inst'[next + 1].state = "pending" /\ inst'[next + 1].role = "master"
        /\ \A i \in Ec2!Ids \ {next + 1} : inst'[i] = inst[i]
    BY <2>1, <2>2
  <2>5. Ec2!TypeOK'
    <3>1. inst' \in [Ec2!Ids -> Ec2!Instance]
      BY <2>1 DEF Ec2!TypeOK, Ec2!Instance, Ec2!States, Ec2!Roles, Ec2!Bounds
    <3> QED BY <1>1, <2>1, <2>2, <2>3, <3>1 DEF Ec2!TypeOK
  <2>6. /\ op'[o].pc = "wait" /\ op'[o].ss = op[o].ss /\ op'[o].ms = {next + 1}
        /\ op'[o].todo = op[o].todo /\ op'[o].cmd = op[o].cmd
    BY <1>1, <2>3 DEF Ec2!Process
  <2>7. NumbersOK(o)' /\ OpenOK(o)' /\ ListOK(o)'
    BY <2>1, <2>2, <2>4, <2>6 DEF OpInv, NumbersOK, OpenOK, ListOK, Seen
  <2> QED BY <2>1, <2>5, <2>6, <2>7 DEF OpInv, SizeOK, KeyOK, DestroyOK, Ec2!Setup
<1>7. CASE Ec2!SpotRaises(o)
  <2>1. /\ op[o].pc = "spot" /\ op' = [op EXCEPT ![o].pc = "cancel"]
        /\ UNCHANGED <<inst, next, conf, orphans>>
    BY <1>7 DEF Ec2!SpotRaises, Ec2!At, Ec2!Goto, Ec2!cloud
  <2>2. /\ op'[o] = [op[o] EXCEPT !.pc = "cancel"]
        /\ op'[o] \in Ec2!Process /\ op' \in [Operators -> Ec2!Process]
    BY <1>1, <2>1 DEF Ec2!Process, Ec2!Pcs
  <2>3. Ec2!TypeOK'
    BY <1>1, <2>1, <2>2 DEF Ec2!TypeOK
  <2> QED BY <2>1, <2>2, <2>3, <1>1
  DEF Ec2!Process, OpInv, NumbersOK, OpenOK, SizeOK, KeyOK, KeyOf, ListOK, DestroyOK, Seen, Ec2!Setup
<1> QED BY <1>2, <1>3, <1>4, <1>5, <1>6, <1>7

(* terminate, stop and start: no call opens a request, start gives life to *)
(* no instance that had none, terminate leaves none alive.                 *)
LEMMA OutcomeFacts ==
    ASSUME Ec2!TypeOK, NEW o \in Operators, NEW i \in Ec2!Ids, Ec2!Outcome(o, i) # "refused",
           op[o].pc \in {"terminate", "stop", "start"}
    PROVE  /\ Ec2!Outcome(o, i) \in Ec2!States
           /\ inst[i].state # "open" => Ec2!Outcome(o, i) # "open"
           /\ op[o].pc = "start" /\ Ec2!Outcome(o, i) \in Live => inst[i].state \in Live
           /\ op[o].pc = "terminate" => Ec2!Outcome(o, i) \in Gone
<1>1. inst[i].state \in Ec2!States
  BY DEF Ec2!TypeOK, Ec2!Instance
<1>2. CASE op[o].pc = "terminate"
  BY <1>1, <1>2 DEF Ec2!Outcome, Ec2!At, Ec2!Terminated, Ec2!States, Live, Gone
<1>3. CASE op[o].pc = "stop"
  BY <1>1, <1>3 DEF Ec2!Outcome, Ec2!At, Ec2!Terminated, Ec2!States, Live, Gone
<1>4. CASE op[o].pc = "start"
  BY <1>1, <1>4 DEF Ec2!Outcome, Ec2!At, Ec2!Terminated, Ec2!States, Live, Gone
<1> QED BY <1>2, <1>3, <1>4

LEMMA ForEachInv ==
    ASSUME Ec2!Bounds, Ec2!TypeOK, NEW o \in Operators, OpInv(o), Ec2!ForEach(o)
    PROVE  Ec2!TypeOK' /\ OpInv(o)'
<1>1. /\ op[o] \in Ec2!Process /\ op \in [Operators -> Ec2!Process]
      /\ op[o].pc \in {"terminate", "stop", "start"}
      /\ UNCHANGED <<next, groups, rules, conf, orphans>>
  BY DEF Ec2!TypeOK, Ec2!ForEach, Ec2!rest
<1>2. \A i \in Seen : inst[i].state # "open"
  BY <1>1 DEF OpInv, OpenOK
<1>3. ASSUME Ec2!Exit(o), UNCHANGED inst PROVE Ec2!TypeOK' /\ OpInv(o)'
  <2>1. op'[o] = Ec2!Idle
    BY <1>1, <1>3 DEF Ec2!Exit
  <2>2. NumbersOK(o)'
    BY <1>1, <1>3, <2>1 DEF OpInv, NumbersOK, Ec2!Idle
  <2>3. op' \in [Operators -> Ec2!Process] /\ OpInv(o)'
    BY <1>1, <1>2, <1>3, <2>2, ExitInv DEF Ec2!TypeOK, Seen
  <2> QED BY <1>1, <1>3, <2>3 DEF Ec2!TypeOK
<1>4. CASE op[o].todo = {} /\ Ec2!After(o) /\ UNCHANGED inst
  <2>1. ASSUME NEW to \in {"wait", "revoke"}, Ec2!Goto(o, to),
               to = "wait" => op[o].pc = "start",
               to = "revoke" => op[o].pc = "terminate"
        PROVE  Ec2!TypeOK' /\ OpInv(o)'
    <3>1. /\ op'[o] = [op[o] EXCEPT !.pc = to]
          /\ op'[o] \in Ec2!Process /\ op' \in [Operators -> Ec2!Process]
      BY <1>1, <2>1 DEF Ec2!Process, Ec2!Pcs, Ec2!Goto
    <3>2. Ec2!TypeOK'
      BY <1>1, <1>4, <3>1 DEF Ec2!TypeOK
    <3>3. /\ op'[o].pc = to /\ op'[o].ss = op[o].ss /\ op'[o].ms = op[o].ms
          /\ op'[o].todo = op[o].todo /\ op'[o].cmd = op[o].cmd
      BY <1>1, <3>1 DEF Ec2!Process
    <3> QED BY <1>1, <1>2, <1>4, <2>1, <3>2, <3>3
    DEF OpInv, NumbersOK, OpenOK, SizeOK, KeyOK, ListOK, DestroyOK, Seen, Ec2!Setup
  <2> QED BY <1>1, <1>3, <1>4, <2>1 DEF Ec2!After, Ec2!At
<1>5. ASSUME NEW i \in Ec2!Turn(o), Ec2!Outcome(o, i) # "refused",
             Ec2!SetState(i, Ec2!Outcome(o, i)),
             op' = [op EXCEPT ![o].todo = @ \ {i}]
      PROVE  Ec2!TypeOK' /\ OpInv(o)'
  <2> DEFINE s == Ec2!Outcome(o, i)
  <2>1. i \in op[o].todo /\ i \in Ec2!Ids
    BY <1>1 DEF Ec2!Turn, Ec2!Process
  <2>2. /\ s \in Ec2!States /\ (inst[i].state # "open" => s # "open")
        /\ op[o].pc = "start" /\ s \in Live => inst[i].state \in Live
        /\ op[o].pc = "terminate" => s \in Gone
    BY <1>1, <1>5, <2>1, OutcomeFacts
  <2>3. inst' = [inst EXCEPT ![i].state = s]
    BY <1>5 DEF Ec2!SetState
  <2> HIDE DEF s
  <2>4. /\ inst' \in [Ec2!Ids -> Ec2!Instance]
        /\ inst'[i].state = s /\ inst'[i].role = inst[i].role
        /\ \A j \in Ec2!Ids \ {i} : inst'[j] = inst[j]
    BY <2>1, <2>2, <2>3 DEF Ec2!TypeOK, Ec2!Instance
  <2>5. /\ op'[o] \in Ec2!Process /\ op' \in [Operators -> Ec2!Process]
        /\ op'[o].pc = op[o].pc /\ op'[o].ss = op[o].ss /\ op'[o].ms = op[o].ms
        /\ op'[o].todo = op[o].todo \ {i} /\ op'[o].cmd = op[o].cmd
    BY <1>1, <1>5 DEF Ec2!Process
  <2>6. Ec2!TypeOK'
    BY <1>1, <2>4, <2>5 DEF Ec2!TypeOK
  <2>7. NumbersOK(o)'
    <3>1. i \in 1..next /\ next \in Nat
      BY <2>1 DEF OpInv, NumbersOK, Ec2!TypeOK
    <3>2. \A j \in Ec2!Ids : j > next => j # i
      BY <3>1 DEF Ec2!Ids
    <3> QED BY <1>1, <2>4, <2>5, <3>2 DEF OpInv, NumbersOK
  <2>8. OpenOK(o)' /\ ListOK(o)' /\ DestroyOK(o)'
    BY <1>1, <1>2, <2>2, <2>4, <2>5 DEF OpInv, OpenOK, ListOK, DestroyOK, Seen, Ec2!Setup
  <2>9. SizeOK(o)' /\ KeyOK(o)'
    BY <1>1, <2>5 DEF OpInv, SizeOK, KeyOK, Ec2!Setup
  <2> QED BY <2>6, <2>7, <2>8, <2>9 DEF OpInv
<1> QED BY <1>3, <1>4, <1>5 DEF Ec2!ForEach

LEMMA DeleteInv ==
    ASSUME Ec2!Bounds, Ec2!TypeOK, NEW o \in Operators, OpInv(o),
           Ec2!Revoke(o) \/ Ec2!DeleteGroups(o)
    PROVE  Ec2!TypeOK' /\ OpInv(o)'
<1>1. /\ op[o] \in Ec2!Process /\ op \in [Operators -> Ec2!Process]
      /\ op[o].pc \in {"revoke", "delete"} /\ UNCHANGED <<inst, next, conf, orphans>>
  BY DEF Ec2!TypeOK, Ec2!Revoke, Ec2!DeleteGroups, Ec2!At, Ec2!rest
<1>2. \A i \in Seen : inst[i].state \in Gone /\ inst[i].state # "open"
  BY <1>1 DEF OpInv, OpenOK, DestroyOK
<1>3. groups' \subseteq Ec2!Roles /\ rules' \in [Ec2!Roles -> SUBSET (1..NumRules)]
  BY DEF Ec2!TypeOK, Ec2!Revoke, Ec2!DeleteGroups
<1>4. ASSUME op' \in [Operators -> Ec2!Process] PROVE Ec2!TypeOK'
  BY <1>1, <1>3, <1>4 DEF Ec2!TypeOK
<1>5. CASE Ec2!Exit(o)
  <2>1. op'[o] = Ec2!Idle
    BY <1>1, <1>5 DEF Ec2!Exit
  <2>2. NumbersOK(o)'
    BY <1>1, <2>1 DEF OpInv, NumbersOK, Ec2!Idle
  <2> QED BY <1>1, <1>2, <1>4, <1>5, <2>2, ExitInv DEF Ec2!TypeOK, Seen
<1>6. CASE ~ Ec2!Exit(o)
  <2>1. /\ op'[o] \in Ec2!Process /\ op' \in [Operators -> Ec2!Process]
        /\ op'[o].pc \in {"revoke", "delete"} /\ op'[o].ss = op[o].ss /\ op'[o].ms = op[o].ms
        /\ op'[o].todo = op[o].todo /\ op'[o].cmd = op[o].cmd
    <3>1. CASE Ec2!Revoke(o)
      <4>1. op' = [op EXCEPT ![o].fresh = groups, ![o].n = op[o].n + 1, ![o].pc = "delete"]
        BY <3>1 DEF Ec2!Revoke, Ec2!NextAttempt
      <4>2. groups \in SUBSET Ec2!Roles /\ op[o].n + 1 \in Nat
        BY <1>1 DEF Ec2!TypeOK, Ec2!Process
      <4> QED BY <1>1, <4>1, <4>2 DEF Ec2!Process, Ec2!Pcs
    <3>2. CASE Ec2!DeleteGroups(o)
      <4>1. op' = [op EXCEPT ![o].pc = "revoke"]
        BY <1>6, <3>2 DEF Ec2!DeleteGroups, Ec2!Goto
      <4> QED BY <1>1, <4>1 DEF Ec2!Process, Ec2!Pcs
    <3> QED BY <3>1, <3>2
  <2> QED BY <1>1, <1>2, <1>4, <2>1
  DEF OpInv, NumbersOK, OpenOK, SizeOK, KeyOK, ListOK, DestroyOK, Seen, Ec2!Setup
<1> QED BY <1>5, <1>6

(* The steps of setup_cluster, ssh and its retries.                        *)
LEMMA SetupInv ==
    ASSUME Ec2!Bounds, Ec2!TypeOK, NEW o \in Operators, OpInv(o),
           Ec2!WaitForCluster(o) \/ Ec2!SetupKey(o) \/ Ec2!DeployFiles(o) \/ Ec2!SshFails(o)
    PROVE  Ec2!TypeOK' /\ OpInv(o)'
<1>1. /\ op[o] \in Ec2!Process /\ op \in [Operators -> Ec2!Process]
      /\ op[o].pc \in {"wait", "key", "read", "keys", "clone", "rsync", "run"}
      /\ UNCHANGED <<next, groups, rules, orphans>>
  BY DEF Ec2!TypeOK, Ec2!WaitForCluster, Ec2!SetupKey, Ec2!DeployFiles, Ec2!SshFails,
     Ec2!At, Ec2!cloud, Ec2!rest
<1>2. /\ op[o].ms \subseteq Ec2!Ids /\ op[o].ss \subseteq Ec2!Ids /\ op[o].todo \subseteq Ec2!Ids
      /\ op[o].tries \in 0..6 /\ op[o].m \in 0..NumInst
      /\ \A i \in Ec2!Ids : i # 0 /\ i \in 0..NumInst
  BY <1>1 DEF Ec2!Process, Ec2!Ids, Ec2!Bounds
<1>3. \A i \in Seen : inst[i].state # "open"
  BY <1>1 DEF OpInv, OpenOK
<1> DEFINE Typed == /\ inst' \in [Ec2!Ids -> Ec2!Instance]
                    /\ conf' \in [Ec2!Ids -> SUBSET Ec2!Ids]
           SameStates == \A i \in Ec2!Ids : /\ inst'[i].state = inst[i].state
                                          /\ inst'[i].role = inst[i].role
           Moves(to) == /\ op'[o] \in Ec2!Process /\ op' \in [Operators -> Ec2!Process]
                        /\ op'[o].pc = to
                        /\ op'[o].ss = op[o].ss /\ op'[o].ms = op[o].ms /\ op'[o].cmd = op[o].cmd
                        /\ op'[o].todo \subseteq op[o].todo \cup op[o].ss
           Listed == op'[o].pc \in {"run", "done"} => conf'[op'[o].m] = op'[o].ss
<1>4. ASSUME Typed, SameStates, KeyOK(o)', Listed, NEW to \in {"wait"} \cup Ec2!Setup, Moves(to)
      PROVE  Ec2!TypeOK' /\ OpInv(o)'
  <2>1. Ec2!TypeOK'
    BY <1>1, <1>4 DEF Ec2!TypeOK
  <2>2. NumbersOK(o)' /\ OpenOK(o)' /\ DestroyOK(o)'
    BY <1>1, <1>3, <1>4 DEF OpInv, NumbersOK, OpenOK, DestroyOK, Seen, Ec2!Setup
  <2>3. SizeOK(o)' /\ ListOK(o)'
    BY <1>1, <1>4 DEF OpInv, SizeOK, ListOK, Seen, Ec2!Setup
  <2> QED BY <1>4, <2>1, <2>2, <2>3 DEF OpInv
<1>5. UNCHANGED inst => SameStates
  OBVIOUS
<1>6. /\ UNCHANGED inst => inst' \in [Ec2!Ids -> Ec2!Instance]
      /\ UNCHANGED conf => conf' \in [Ec2!Ids -> SUBSET Ec2!Ids]
  BY DEF Ec2!TypeOK
<1>7. ASSUME NEW i \in Ec2!Ids, NEW k \in 0..NumInst, inst' = [inst EXCEPT ![i].key = k]
      PROVE  /\ inst' \in [Ec2!Ids -> Ec2!Instance]
             /\ SameStates /\ inst'[i].key = k /\ \A j \in Ec2!Ids \ {i} : inst'[j] = inst[j]
  BY <1>7 DEF Ec2!TypeOK, Ec2!Instance
<1>8. CASE Ec2!Exit(o) /\ UNCHANGED <<inst, conf>>
  <2>1. op'[o] = Ec2!Idle
    BY <1>1, <1>8 DEF Ec2!Exit
  <2>2. NumbersOK(o)'
    BY <1>1, <1>8, <2>1 DEF OpInv, NumbersOK, Ec2!Idle
  <2>3. op' \in [Operators -> Ec2!Process] /\ OpInv(o)'
    BY <1>1, <1>3, <1>6, <1>8, <2>2, ExitInv DEF Seen
  <2> QED BY <1>1, <1>6, <1>8, <2>3 DEF Ec2!TypeOK
<1>9. CASE Ec2!WaitForCluster(o)
  <2> DEFINE to == IF op[o].cmd = "start" THEN "clone" ELSE "key"
  <2>1. op[o].pc = "wait" /\ UNCHANGED <<inst, conf>> /\ op' = [op EXCEPT ![o].pc = to]
    BY <1>9 DEF Ec2!WaitForCluster, Ec2!At, Ec2!Goto, Ec2!cloud
  <2>2. Moves(to) /\ to \in Ec2!Setup
    BY <1>1, <2>1 DEF Ec2!Process, Ec2!Pcs, Ec2!Setup
  <2>3. KeyOK(o)'
    BY <2>2 DEF KeyOK
  <2> QED BY <1>4, <1>5, <1>6, <2>1, <2>2, <2>3
<1>10. CASE Ec2!SetupKey(o)
  <2>0. UNCHANGED conf
    BY <1>10 DEF Ec2!SetupKey
  <2>1. ASSUME op[o].pc = "key", NEW m \in op[o].ms,
               inst' = [inst EXCEPT ![m].key = IF @ = 0 THEN m ELSE @],
               op' = [op EXCEPT ![o].m = m, ![o].pc = "read", ![o].tries = 0]
        PROVE  Ec2!TypeOK' /\ OpInv(o)'
    <3>1. m \in Ec2!Ids /\ (IF inst[m].key = 0 THEN m ELSE inst[m].key) \in 0..NumInst
      BY <1>2 DEF Ec2!TypeOK, Ec2!Instance
    <3>2. inst' = [inst EXCEPT ![m].key = IF inst[m].key = 0 THEN m ELSE inst[m].key]
      BY <2>1, <3>1 DEF Ec2!TypeOK
    <3>3. Moves("read") /\ op'[o].m = m
      BY <1>1, <1>2, <2>1, <3>1 DEF Ec2!Process, Ec2!Pcs, Ec2!Setup
    <3>4. KeyOK(o)'
      BY <1>2, <3>1, <3>3 DEF KeyOK
    <3> QED BY <1>4, <1>6, <1>7, <2>0, <3>1, <3>2, <3>3, <3>4 DEF Ec2!Setup
  <2>2. ASSUME op[o].pc = "read", UNCHANGED inst,
               op' = [op EXCEPT ![o].todo = op[o].ss, ![o].pc = "keys"]
        PROVE  Ec2!TypeOK' /\ OpInv(o)'
    <3>1. Moves("keys") /\ op'[o].m = op[o].m /\ op'[o].todo = op[o].ss
      BY <1>1, <1>2, <2>2 DEF Ec2!Process, Ec2!Pcs, Ec2!Setup
    <3>2. KeyOK(o)'
      BY <2>2, <3>1 DEF OpInv, KeyOK
    <3> QED BY <1>4, <1>5, <1>6, <2>0, <2>2, <3>1, <3>2 DEF Ec2!Setup
  <2>3. ASSUME op[o].pc = "keys", NEW s \in op[o].todo,
               inst' = [inst EXCEPT ![s].key = inst[op[o].m].key],
               op' = [op EXCEPT ![o].todo = @ \ {s}, ![o].tries = 0]
        PROVE  Ec2!TypeOK' /\ OpInv(o)'
    <3>1. op[o].m \in Ec2!Ids
      BY <1>2, <2>3 DEF OpInv, KeyOK, Ec2!Ids, Ec2!Bounds
    <3>2. s \in Ec2!Ids /\ inst[op[o].m].key \in 0..NumInst
      BY <1>2, <3>1 DEF Ec2!TypeOK, Ec2!Instance
    <3>3. Moves("keys") /\ op'[o].m = op[o].m /\ op'[o].todo = op[o].todo \ {s}
      <4>1. op'[o] = [op[o] EXCEPT !.todo = op[o].todo \ {s}, !.tries = 0]
        BY <1>1, <2>3
      <4>2. op[o].todo \ {s} \in SUBSET Ec2!Ids /\ 0 \in 0..6
        BY <1>2
      <4>3. op'[o] \in Ec2!Process
        BY <1>1, <4>1, <4>2 DEF Ec2!Process
      <4>4. op' \in [Operators -> Ec2!Process]
        BY <1>1, <2>3, <4>1, <4>3
      <4> QED BY <1>1, <2>3, <4>1, <4>3, <4>4 DEF Ec2!Process
    <3>4. /\ inst'[s].key = inst[op[o].m].key
          /\ \A j \in Ec2!Ids \ {s} : inst'[j] = inst[j]
      BY <1>7, <2>3, <3>2
    <3>5. \A j \in op'[o].ss \ op'[o].todo : inst'[j].key = inst[op[o].m].key
      BY <1>2, <2>3, <3>3, <3>4 DEF OpInv, KeyOK, KeyOf
    <3>6. inst'[op[o].m].key = inst[op[o].m].key
      BY <3>1, <3>4
    <3>7. KeyOK(o)'
      BY <2>3, <3>3, <3>5, <3>6 DEF OpInv, KeyOK, KeyOf
    <3> QED BY <1>4, <1>6, <1>7, <2>0, <2>3, <3>2, <3>3, <3>7 DEF Ec2!Setup
  <2>4. ASSUME op[o].pc = "keys", op[o].todo = {}, UNCHANGED inst, Ec2!Goto(o, "clone")
        PROVE  Ec2!TypeOK' /\ OpInv(o)'
    <3>1. Moves("clone") /\ op'[o].m = op[o].m
      BY <1>1, <2>4 DEF Ec2!Process, Ec2!Pcs, Ec2!Setup, Ec2!Goto
    <3>2. KeyOK(o)'
      BY <2>4, <3>1 DEF OpInv, KeyOK, KeyOf
    <3> QED BY <1>4, <1>5, <1>6, <2>0, <2>4, <3>1, <3>2 DEF Ec2!Setup
  <2> QED BY <1>8, <1>10, <2>0, <2>1, <2>2, <2>3, <2>4 DEF Ec2!SetupKey, Ec2!At
<1>11. CASE Ec2!DeployFiles(o)
  <2>0. UNCHANGED inst
    BY <1>11 DEF Ec2!DeployFiles
  <2>1. ASSUME op[o].pc = "clone", UNCHANGED conf, NEW m \in op[o].ms, op[o].m \in {0, m},
               op' = [op EXCEPT ![o].m = m, ![o].pc = "rsync", ![o].tries = 0]
        PROVE  Ec2!TypeOK' /\ OpInv(o)'
    <3>1. Moves("rsync") /\ op'[o].m = m /\ m # 0
      BY <1>1, <1>2, <2>1 DEF Ec2!Process, Ec2!Pcs, Ec2!Setup
    <3>2. KeyOK(o)'
      BY <2>0, <2>1, <3>1 DEF OpInv, KeyOK, KeyOf
    <3> QED BY <1>4, <1>5, <1>6, <2>0, <2>1, <3>1, <3>2 DEF Ec2!Setup
  <2>2. ASSUME op[o].pc = "rsync", conf' = [conf EXCEPT ![op[o].m] = op[o].ss], Ec2!Goto(o, "run")
        PROVE  Ec2!TypeOK' /\ OpInv(o)'
    <3>1. Moves("run") /\ op'[o].m = op[o].m
      BY <1>1, <2>2 DEF Ec2!Process, Ec2!Pcs, Ec2!Setup, Ec2!Goto
    <3>2. KeyOK(o)'
      BY <2>0, <2>2, <3>1 DEF OpInv, KeyOK, KeyOf
    <3>3. op[o].m \in Ec2!Ids
      BY <1>2, <2>2 DEF OpInv, KeyOK, Ec2!Ids, Ec2!Bounds
    <3>4. conf' \in [Ec2!Ids -> SUBSET Ec2!Ids] /\ conf'[op[o].m] = op[o].ss
      BY <1>2, <2>2, <3>3 DEF Ec2!TypeOK
    <3> QED BY <1>4, <1>5, <1>6, <2>0, <3>1, <3>2, <3>4 DEF Ec2!Setup
  <2>3. ASSUME op[o].pc = "run", UNCHANGED conf,
               op' = [op EXCEPT ![o].pc = "done", ![o].tries = 0]
        PROVE  Ec2!TypeOK' /\ OpInv(o)'
    <3>1. Moves("done") /\ op'[o].m = op[o].m
      <4>1. op'[o] = [op[o] EXCEPT !.pc = "done", !.tries = 0]
        BY <1>1, <2>3
      <4>2. "done" \in Ec2!Pcs /\ 0 \in 0..6
        BY DEF Ec2!Pcs, Ec2!Setup
      <4>3. op'[o] \in Ec2!Process
        BY <1>1, <4>1, <4>2 DEF Ec2!Process
      <4>4. op' \in [Operators -> Ec2!Process]
        BY <1>1, <2>3, <4>1, <4>3
      <4> QED BY <1>1, <4>1, <4>3, <4>4 DEF Ec2!Process
    <3>2. KeyOK(o)' /\ Listed
      BY <2>0, <2>3, <3>1 DEF OpInv, KeyOK, KeyOf, ListOK
    <3> QED BY <1>4, <1>5, <1>6, <2>0, <2>3, <3>1, <3>2 DEF Ec2!Setup
  <2> QED BY <1>8, <1>11, <2>0, <2>1, <2>2, <2>3 DEF Ec2!DeployFiles, Ec2!At
<1>12. CASE Ec2!SshFails(o) /\ ~ Ec2!Exit(o)
  <2>1. /\ op[o].pc \in Ec2!Setup /\ UNCHANGED <<inst, conf>> /\ ~ op[o].tries > 5
        /\ op' = [op EXCEPT ![o].tries = op[o].tries + 1]
    BY <1>12 DEF Ec2!SshFails, Ec2!At, Ec2!GiveUp, Ec2!TriesSpent, Ec2!cloud, Ec2!Setup
  <2>2. op[o].tries + 1 \in 0..6
    BY <1>2, <2>1
  <2>3. Moves(op[o].pc) /\ op'[o].m = op[o].m /\ op'[o].todo = op[o].todo
    BY <1>1, <2>1, <2>2 DEF Ec2!Process
  <2>4. KeyOK(o)' /\ Listed
    BY <2>1, <2>3 DEF OpInv, KeyOK, KeyOf, ListOK
  <2> QED BY <1>4, <1>5, <1>6, <2>1, <2>3, <2>4
<1>13. CASE Ec2!SshFails(o) /\ Ec2!Exit(o)
  BY <1>8, <1>13 DEF Ec2!SshFails, Ec2!cloud
<1> QED BY <1>9, <1>10, <1>11, <1>12, <1>13

(* EC2 on its own gives life to nothing: a request was live already.       *)
LEMMA CloudInv ==
    ASSUME Ec2!Bounds, Ec2!TypeOK, \A o \in Operators : OpInv(o), NEW i \in Ec2!Ids, Ec2!Cloud(i)
    PROVE  Ec2!TypeOK' /\ \A o \in Operators : OpInv(o)'
<1>1. UNCHANGED <<next, groups, rules, conf, op, orphans>>
  BY DEF Ec2!Cloud, Ec2!rest
<1>2. PICK s \in {"pending", "running", "stopped", "shutting-down", "terminated"} :
         /\ inst' = [inst EXCEPT ![i].state = s]
         /\ inst[i].state # "none"
         /\ s \in Live => inst[i].state \in Live
  BY DEF Ec2!Cloud, Ec2!SetState, Live
<1>3. /\ inst' \in [Ec2!Ids -> Ec2!Instance]
      /\ inst'[i].state = s
      /\ \A j \in Ec2!Ids : inst'[j].role = inst[j].role /\ inst'[j].key = inst[j].key
      /\ \A j \in Ec2!Ids \ {i} : inst'[j] = inst[j]
  BY <1>2 DEF Ec2!TypeOK, Ec2!Instance, Ec2!States
<1>4. Ec2!TypeOK'
  BY <1>1, <1>3 DEF Ec2!TypeOK
<1>5. ASSUME NEW o \in Operators PROVE OpInv(o)'
  <2>1. OpInv(o) /\ op[o] \in Ec2!Process
    BY DEF Ec2!TypeOK
  <2>2. NumbersOK(o)' /\ OpenOK(o)' /\ SizeOK(o)'
    BY <1>1, <1>2, <1>3, <2>1 DEF OpInv, NumbersOK, OpenOK, SizeOK, Seen
  <2>3. KeyOK(o)'
    <3>1. op[o].m # 0 => op[o].m \in Ec2!Ids
      BY <2>1 DEF Ec2!Process, Ec2!Ids, Ec2!Bounds
    <3>2. op[o].m # 0 => \A t \in op[o].ss : KeyOf(o, t)' <=> KeyOf(o, t)
      BY <1>1, <1>3, <2>1, <3>1 DEF KeyOf, Ec2!Process
    <3> QED BY <1>1, <2>1, <3>2 DEF OpInv, KeyOK
  <2>4. ListOK(o)' /\ DestroyOK(o)'
    <3>1. \A j \in Ec2!Ids : inst[j].state \in Gone => inst'[j].state \in Gone
      BY <1>2, <1>3 DEF Live, Gone
    <3>2. \A j \in Ec2!Ids : inst'[j].state \in Live => inst[j].state \in Live
      BY <1>2, <1>3
    <3> QED BY <1>1, <1>3, <2>1, <3>1, <3>2 DEF OpInv, ListOK, DestroyOK, Seen
  <2> QED BY <2>2, <2>3, <2>4 DEF OpInv
<1> QED BY <1>4, <1>5

-----------------------------------------------------------------------------
LEMMA ClusterStep ==
    ASSUME Ec2!Bounds, Ec2!OneOperator, ClusterInv, [Ec2!Next]_(Ec2!vars)
    PROVE  ClusterInv'
<1>1. CASE UNCHANGED Ec2!vars
  BY <1>1 DEF ClusterInv, Ec2!TypeOK, OpInv, NumbersOK, OpenOK, SizeOK, KeyOK, KeyOf, ListOK,
     DestroyOK, Seen, Ec2!vars
<1>2. ASSUME NEW o \in Operators,
             Ec2!Begin(o) \/ Ec2!Step(o) \/ Ec2!SpotRaises(o) \/ Ec2!Interrupt(o)
      PROVE  ClusterInv'
  <2>1. Ec2!TypeOK' /\ OpInv(o)'
    BY <1>2, EarlyInv, SlavesInv, MasterInv, ForEachInv, DeleteInv, SetupInv DEF Ec2!Step,
       ClusterInv
  <2>2. \A u \in Operators : u = o
    BY DEF Ec2!OneOperator
  <2> QED BY <2>1, <2>2 DEF ClusterInv
<1>3. ASSUME NEW i \in Ec2!Ids, Ec2!Cloud(i) PROVE ClusterInv'
  BY <1>3, CloudInv DEF ClusterInv
<1> QED BY <1>1, <1>2, <1>3 DEF Ec2!Next

LEMMA ClusterInvImplies == ASSUME ClusterInv PROVE DoneIsComplete /\ DestroyLeavesNothing
<1>1. DOMAIN op = Operators /\ DOMAIN inst = Ec2!Ids
  BY DEF ClusterInv, Ec2!TypeOK
<1>2. LaunchSizes /\ KeysMatch
  BY <1>1 DEF ClusterInv, OpInv, SizeOK, KeyOK, KeyOf, LaunchSizes, KeysMatch,
     Ec2!Setup, Setup
<1>3. ConfigComplete
  BY <1>1 DEF ClusterInv, OpInv, ListOK, ConfigComplete, GetExistingCluster, IsActive, Live,
     Seen, Ec2!Setup
<1>4. DestroyLeavesNothing
  BY <1>1 DEF ClusterInv, OpInv, DestroyOK, DestroyLeavesNothing, Seen, Gone
<1> QED BY <1>2, <1>3, <1>4 DEF DoneIsComplete

(* spark_ec2.py, one person at a time: when launch, after any failures and *)
(* resumptions, reports Done, it has the slaves asked for (get_partition   *)
(* loses none, lines 296 and 349) and a master, every slave has the key of *)
(* that master, and its slave list misses no active slave, but for the     *)
(* requests an interrupted launch lost sight of.                           *)
THEOREM ClusterComplete ==
    ASSUME Ec2!Bounds, Ec2!OneOperator PROVE Ec2!Spec => []DoneIsComplete
<1>1. Ec2!Init => ClusterInv
  BY ClusterInitInv
<1>2. ClusterInv /\ [Ec2!Next]_(Ec2!vars) => ClusterInv'
  BY ClusterStep
<1>3. ClusterInv => DoneIsComplete
  BY ClusterInvImplies
<1> QED BY <1>1, <1>2, <1>3, PTL DEF Ec2!Spec

(* spark_ec2.py, one person at a time: when destroy goes on to the groups, *)
(* all that runs, or that a spot request may still bring, was terminated.  *)
THEOREM DestroyClean ==
    ASSUME Ec2!Bounds, Ec2!OneOperator PROVE Ec2!Spec => []DestroyLeavesNothing
<1>1. Ec2!Init => ClusterInv
  BY ClusterInitInv
<1>2. ClusterInv /\ [Ec2!Next]_(Ec2!vars) => ClusterInv'
  BY ClusterStep
<1>3. ClusterInv => DestroyLeavesNothing
  BY ClusterInvImplies
<1> QED BY <1>1, <1>2, <1>3, PTL DEF Ec2!Spec
=============================================================================
