------------------------------- MODULE MCAvThread -------------------------------
(* Handles a and b of one client, or one handle each of two clients.       *)
EXTENDS AvThread, TLC

CONSTANTS a, b, c, x, y

TwoThreads == {a, b}
ThreeThreads == {a, b, c}
OneClient == {x}
TwoClients == {x, y}
AllOfX2 == [t \in TwoThreads |-> x]
AllOfX3 == [t \in ThreeThreads |-> x]
Shared == [t \in ThreeThreads |-> IF t = c THEN y ELSE x]
================================================================================
