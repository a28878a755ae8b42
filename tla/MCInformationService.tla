------------------------ MODULE MCInformationService ------------------------
EXTENDS InformationService

CONSTANTS t1, t2, l1, l2

MCDeployments == {{"tasks"}, {"file"}}

L(t, l) == [task |-> t, list |-> l]

\* A list of t1 that changes, two tasks, and an empty file.
MCFiles    == {<<L(t1, l1), L(t1, l2), L(t2, l1)>>, <<L(t2, l2)>>, << >>}

MCUndefined == {"race", "return"}
=============================================================================
