--------------------------- MODULE DriverContext ---------------------------
(***************************************************************************)
(* pyspark/context.py: SparkContexts made and stopped by the threads of    *)
(* one driver program, and the garbage collector calling __del__.  Each    *)
(* thread makes one context, trying again when it is refused.              *)
(***************************************************************************)
EXTENDS ActiveContext, Naturals

CONSTANTS Threads,  \* threads of the driver, one context each
          None,     \* no context
          Faults    \* whether the steps of __init__ may raise

ASSUME ContextAssumption == None \notin Threads /\ Faults \in BOOLEAN

VARIABLES
    gateway,  \* SparkContext._gateway is set
    files,    \* SparkFiles._sc
    phase,    \* phase[t]: how far __init__ came
    stop,     \* stop[t]: the next line of a call of stop
    held      \* held[t]: the program has a reference to the context

vars == <<gateway, active, files, phase, jsc, server, stop, held, stray>>

Phases    == {"new", "refused", "conf", "jvm", "server", "rest", "done", "failed", "gone"}
Attribute == {"unset", "up", "down"}

TypeOK ==
    /\ gateway \in BOOLEAN /\ stray \in BOOLEAN
    /\ active \in Threads \cup {None} /\ files \in Threads \cup {None}
    /\ phase \in [Threads -> Phases]
    /\ jsc \in [Threads -> Attribute] /\ server \in [Threads -> Attribute]
    /\ stop \in [Threads -> {"no", "jsc", "server", "clear", "over"}]
    /\ held \in [Threads -> BOOLEAN]

Init ==
    /\ gateway = FALSE /\ active = None /\ files = None /\ stray = FALSE
    /\ phase = [t \in Threads |-> "new"]
    /\ jsc = [t \in Threads |-> "unset"]
    /\ server = [t \in Threads |-> "unset"]
    /\ stop = [t \in Threads |-> "no"]
    /\ held = [t \in Threads |-> FALSE]

-----------------------------------------------------------------------------
(* _ensure_initialized, under the lock.                                    *)
MutAdmits(t) == active \in {None, t} \/ jsc[active] # "up"
Admits(t)    == active \in {None, t}

EnsureInitialized(t) ==
    /\ phase[t] = "new"
    /\ gateway' = TRUE
    /\ IF Admits(t)
       THEN active' = t /\ phase' = [phase EXCEPT ![t] = "conf"]
       ELSE UNCHANGED active /\ phase' = [phase EXCEPT ![t] = "refused"]
    /\ UNCHANGED <<files, jsc, server, stop, held, stray>>

(* launch_gateway raises inside the lock: nothing is set.                  *)
LaunchFails(t) ==
    /\ Faults /\ phase[t] = "new" /\ ~gateway
    /\ phase' = [phase EXCEPT ![t] = "refused"]
    /\ UNCHANGED <<gateway, active, files, jsc, server, stop, held, stray>>

(* setSystemProperty: _ensure_initialized without an instance.             *)
SetSystemProperty ==
    /\ ~gateway /\ gateway' = TRUE
    /\ UNCHANGED <<active, files, phase, jsc, server, stop, held, stray>>

(* The program calls the constructor again.  __del__ of the object that    *)
(* was refused raises at its first line: it has no _jsc.                   *)
Retry(t) ==
    /\ phase[t] = "refused" /\ phase' = [phase EXCEPT ![t] = "new"]
    /\ UNCHANGED <<gateway, active, files, jsc, server, stop, held, stray>>

(* The rest of __init__.  Nothing catches what a step raises: the class    *)
(* keeps the object, the program has no reference to it.                   *)
ConfRead(t) ==
    /\ phase[t] = "conf" /\ phase' = [phase EXCEPT ![t] = "jvm"]
    /\ UNCHANGED <<gateway, active, files, jsc, server, stop, held, stray>>

InitializeContext(t) ==
    /\ phase[t] = "jvm" /\ phase' = [phase EXCEPT ![t] = "server"]
    /\ jsc' = [jsc EXCEPT ![t] = "up"]
    /\ UNCHANGED <<gateway, active, files, server, stop, held, stray>>

StartUpdateServer(t) ==
    /\ phase[t] = "server" /\ phase' = [phase EXCEPT ![t] = "rest"]
    /\ server' = [server EXCEPT ![t] = "up"]
    /\ UNCHANGED <<gateway, active, files, jsc, stop, held, stray>>

InitDone(t) ==
    /\ phase[t] = "rest" /\ phase' = [phase EXCEPT ![t] = "done"]
    /\ files' = t /\ held' = [held EXCEPT ![t] = TRUE]
    /\ UNCHANGED <<gateway, active, jsc, server, stop, stray>>

InitRaises(t) ==
    /\ Faults /\ phase[t] \in {"conf", "jvm", "server", "rest"}
    /\ phase' = [phase EXCEPT ![t] = "failed"]
    /\ files' \in {files} \cup (IF phase[t] = "rest" THEN {t} ELSE {})
    /\ UNCHANGED <<gateway, active, jsc, server, stop, held, stray>>

-----------------------------------------------------------------------------
(* stop, line by line.                                                     *)
StopCall(t) ==
    /\ held[t] /\ stop[t] \in {"no", "over"}
    /\ stop' = [stop EXCEPT ![t] = "jsc"]
    /\ UNCHANGED <<gateway, active, files, phase, jsc, server, held, stray>>

(* Without the attribute the method ends with an AttributeError.           *)
StopJsc(t) ==
    /\ stop[t] = "jsc"
    /\ jsc' = [jsc EXCEPT ![t] = IF @ = "up" THEN "down" ELSE @]
    /\ stop' = [stop EXCEPT ![t] = IF jsc[t] = "unset" THEN "over" ELSE "server"]
    /\ UNCHANGED <<gateway, active, files, phase, server, held, stray>>

StopServer(t) ==
    /\ stop[t] = "server"
    /\ server' = [server EXCEPT ![t] = IF @ = "up" THEN "down" ELSE @]
    /\ stop' = [stop EXCEPT ![t] = IF server[t] = "unset" THEN "over" ELSE "clear"]
    /\ UNCHANGED <<gateway, active, files, phase, jsc, held, stray>>

MutCleared(t) == IF phase[t] = "done" THEN active ELSE None
Cleared(t)    == None
StopClear(t) ==
    /\ stop[t] = "clear" /\ stop' = [stop EXCEPT ![t] = "over"]
    /\ active' = Cleared(t)
    /\ stray' = (stray \/ active \notin {None, t})
    /\ UNCHANGED <<gateway, files, phase, jsc, server, held>>

(* A call into the JVM raises: stop ends there.                            *)
StopRaises(t) ==
    /\ Faults /\ stop[t] = "jsc" /\ jsc[t] = "up"
    /\ stop' = [stop EXCEPT ![t] = "no"]
    /\ UNCHANGED <<gateway, active, files, phase, jsc, server, held, stray>>

(* The program lets a context go; __del__ runs stop when the class and     *)
(* SparkFiles do not refer to it either.                                   *)
Release(t) ==
    /\ held[t] /\ held' = [held EXCEPT ![t] = FALSE]
    /\ UNCHANGED <<gateway, active, files, phase, jsc, server, stop, stray>>

Del(t) ==
    /\ phase[t] \in {"done", "failed"} /\ ~held[t]
    /\ active # t /\ files # t /\ stop[t] \in {"no", "over"}
    /\ stop' = [stop EXCEPT ![t] = "jsc"]
    /\ phase' = [phase EXCEPT ![t] = "gone"]
    /\ UNCHANGED <<gateway, active, files, jsc, server, held, stray>>

InitSteps(t) == \/ EnsureInitialized(t) \/ Retry(t) \/ ConfRead(t)
                \/ InitializeContext(t) \/ StartUpdateServer(t) \/ InitDone(t)
StopSteps(t) == StopJsc(t) \/ StopServer(t) \/ StopClear(t)

Next == \/ SetSystemProperty
        \/ \E t \in Threads : \/ InitSteps(t) \/ LaunchFails(t) \/ InitRaises(t)
                              \/ StopCall(t) \/ StopSteps(t) \/ StopRaises(t)
                              \/ Release(t) \/ Del(t)
Spec == Init /\ [][Next]_vars

(* Threads run, and stop the contexts they hold once.                      *)
StopOnce(t) == stop[t] = "no" /\ StopCall(t)
FairSpec == /\ Spec
            /\ \A t \in Threads : /\ WF_vars(InitSteps(t)) /\ WF_vars(StopSteps(t))
                                 /\ WF_vars(StopOnce(t))

-----------------------------------------------------------------------------
(* A thread that keeps trying gets its context once the others stop theirs,*)
(* unless one lets go of a running context without stopping it.            *)
Forgotten(t) == active = t /\ ~held[t] /\ phase[t] = "done"
GetsContext ==
    \A t \in Threads : <>(phase[t] = "done" \/ \E u \in Threads : Forgotten(u))

(* "Cannot run multiple SparkContexts at once" (_ensure_initialized).      *)
OneRunning == \A t, u \in Threads : jsc[t] = "up" /\ jsc[u] = "up" => t = u

(* "Raise error if there is already a running Spark context": a thread is  *)
(* turned away by a context that runs, or is on its way up or down.        *)
Coming(t) == phase[t] \in {"conf", "jvm", "server", "rest"}
RefusedOnlyIfRunning ==
    \A t \in Threads : phase[t] = "new" /\ ~Admits(t) =>
        jsc[active] = "up" \/ Coming(active) \/ stop[active] \in {"server", "clear"}
=============================================================================
