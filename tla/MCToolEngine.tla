---------------------------- MODULE MCToolEngine ----------------------------
(* Small instances of ToolEngine for TLC. *)
EXTENDS ToolEngine, TLC

CONSTANTS i1, c1, c2, p1, r1, consumer1, consumer2, q1, q2

\* The engine never compares request ids, only looks them up.
IdSymmetry == Permutations({q1, q2})

OneConsumer == [c \in Clients |-> consumer1]
TwoConsumers == [c \in Clients |-> IF c = c1 THEN consumer1 ELSE consumer2]
GateOwned == [p \in Providers |-> Gate]
OfferAll == [p \in Providers |-> Resources]
=============================================================================
