--------------------------- MODULE MCControlPlane ---------------------------
(* A small instance of ControlPlane for TLC. *)
EXTENDS ControlPlane

CONSTANTS i1, c1, p1, r1, consumer1, q1, q2

OneConsumer == [c \in Clients |-> consumer1]
GateOwned == [p \in Providers |-> Gate]
OfferAll == [p \in Providers |-> Resources]
=============================================================================
