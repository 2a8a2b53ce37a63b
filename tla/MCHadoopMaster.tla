-------------------------- MODULE MCHadoopMaster --------------------------
(* The master with YARN and MRv1, and with YARN and HA.                    *)
EXTENDS HadoopMaster

Yarn   == [yarn |-> TRUE, ha |-> FALSE]
Mrv1   == [yarn |-> FALSE, ha |-> FALSE]
YarnHA == [yarn |-> TRUE, ha |-> TRUE]

AllProfiles == {Yarn, Mrv1, YarnHA}
YarnOnly    == {Yarn}

FaultBound == [c \in AllProfiles |-> IF c.ha THEN 1 ELSE 2]
OneFault   == [c \in YarnOnly |-> 1]
=============================================================================
