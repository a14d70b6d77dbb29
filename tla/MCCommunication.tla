-------------------------- MODULE MCCommunication --------------------------
EXTENDS CommunicationManager

CONSTANTS t1, t2

\* One thread makes calls from inside callbacks.
OneNests == [t \in Threads |-> IF t = t1 THEN 3 ELSE 1]

OwnerSymmetry == Permutations(Owners)
=============================================================================
