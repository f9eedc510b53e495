---------------------------- MODULE MCTurnQueue ----------------------------
(* Instances of TurnQueue for TLC. *)
EXTENDS TurnQueue, TLC

CONSTANTS j1, j2, t1, u1, u2

OneThread == [j \in {j1, j2} |-> t1]

\* Jobs of one thread differ only by the order in which they are saved.
SymmetricIds == Permutations(Turns) \cup Permutations(Jobs)
\* Turns of the other client.
ForeignTurns == {u \in UNION {hist[t] : t \in Targets} : owner[u] = NoJob}

\* The other client takes both turns only where at most one fault happened: then no
\* request of the queue runs, and what a second fault does to it needs none to run.
FewForeignTurns == Cardinality(ForeignTurns) = 2 => faults <= 1
============================================================================
