-------------------------- MODULE MCDeliveryOutbox --------------------------
(* Instances of DeliveryOutbox for TLC.                                       *)
EXTENDS DeliveryOutbox

CONSTANTS j1, j2, n1, n2, h1

OneChannel == [j \in {j1, j2} |-> h1]

\* Two texts of one turn before a final of two chunks, beside a short answer.
OneTurn   == [n \in {n1, n2} |-> j1]
LongFinal == [i \in {j1, j2, n1, n2} |-> IF i = j1 THEN 2 ELSE 1]
=============================================================================
