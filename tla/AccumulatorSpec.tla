-------------------------- MODULE AccumulatorSpec --------------------------
(***************************************************************************)
(* What accumulators promise: a value changes only by a whole term, added  *)
(* once, by the driver program or on behalf of a task that succeeded.  A   *)
(* task that succeeded owes one term to every accumulator; it pays them    *)
(* one accumulator at a time, each once, or what is left is given up when  *)
(* the server reports an error.  An addition is a read and a write, so     *)
(* that a term is lost only to an addition that began before it was        *)
(* written, never otherwise.                                               *)
(***************************************************************************)
EXTENDS Integers

CONSTANTS Accs, Tasks,
          Terms    \* what may be added

VARIABLES value,   \* value[a]: what the driver program reads
          reading, \* what the driver program and the server add to, as read
          owed,    \* owed[t][a]: what t has sent and a has not got yet
          errors   \* errors the server has reported

specVars == <<value, reading, owed, errors>>
Nothing  == [a \in Accs |-> 0]
None     == [none |-> TRUE]
Read(a)  == [acc |-> a, old |-> value[a]]

Init == /\ value = Nothing /\ owed = [t \in Tasks |-> Nothing] /\ errors = 0
        /\ reading = [driver |-> None, server |-> None]

DriverReads(a) == /\ reading.driver = None
                  /\ reading' = [reading EXCEPT !.driver = Read(a)]
                  /\ UNCHANGED <<value, owed, errors>>

DriverAdds(n) == /\ reading.driver # None
                 /\ value' = [value EXCEPT ![reading.driver.acc] = reading.driver.old + n]
                 /\ reading' = [reading EXCEPT !.driver = None]
                 /\ UNCHANGED <<owed, errors>>

Succeed(t, terms) == /\ owed[t] = Nothing
                     /\ owed' = [owed EXCEPT ![t] = terms]
                     /\ UNCHANGED <<value, reading, errors>>

ServerReads(a) == /\ reading.server = None
                  /\ reading' = [reading EXCEPT !.server = Read(a)]
                  /\ UNCHANGED <<value, owed, errors>>

Pay(t, a) == /\ reading.server # None /\ reading.server.acc = a
             /\ value' = [value EXCEPT ![a] = reading.server.old + owed[t][a]]
             /\ owed' = [owed EXCEPT ![t][a] = 0]
             /\ reading' = [reading EXCEPT !.server = None]
             /\ UNCHANGED errors

GiveUp(t) == /\ reading.server # None
             /\ owed' = [owed EXCEPT ![t] = Nothing]
             /\ reading' = [reading EXCEPT !.server = None]
             /\ errors' = errors + 1
             /\ UNCHANGED value

Next == \/ \E a \in Accs : DriverReads(a) \/ ServerReads(a)
        \/ \E n \in Terms : DriverAdds(n)
        \/ \E t \in Tasks : \/ \E terms \in [Accs -> Terms] : Succeed(t, terms)
                            \/ \E a \in Accs : Pay(t, a)
                            \/ GiveUp(t)

Spec == Init /\ [][Next]_specVars
=============================================================================
