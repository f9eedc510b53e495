---------------------------- MODULE TurnRequests ----------------------------
(***************************************************************************)
(* What the bot promises about the requests it accepts, with no queue, no  *)
(* recovery and no faults: a request is executed at most once, and is      *)
(* closed once, by a reply or by a cancellation.  A cancellation does not  *)
(* undo or prevent an execution that is already on its way.  TurnQueue     *)
(* implements this specification.                                          *)
(***************************************************************************)
CONSTANTS Jobs, Turns, NoTurn

VARIABLES
    phase,  \* of each request: "new", "accepted", "replied" or "cancelled"
    runs,   \* the turns that execute each request
    reply   \* the turn whose output was delivered, NoTurn when there is none

vars == <<phase, runs, reply>>

Init ==
    /\ phase = [j \in Jobs |-> "new"]
    /\ runs = [j \in Jobs |-> {}]
    /\ reply = [j \in Jobs |-> NoTurn]

Accept(j) ==
    /\ phase[j] = "new"
    /\ phase' = [phase EXCEPT ![j] = "accepted"]
    /\ UNCHANGED <<runs, reply>>

\* Executed at most once, and never before the request was accepted.
Execute(j, u) ==
    /\ phase[j] # "new"
    /\ runs[j] = {}
    /\ \A k \in Jobs : u \notin runs[k]
    /\ runs' = [runs EXCEPT ![j] = {u}]
    /\ UNCHANGED <<phase, reply>>

\* Answered once, and never with the turn of another request.
Answer(j, u) ==
    /\ phase[j] = "accepted"
    /\ \A k \in Jobs \ {j} : u \notin runs[k]
    /\ phase' = [phase EXCEPT ![j] = "replied"]
    /\ reply' = [reply EXCEPT ![j] = u]
    /\ UNCHANGED runs

Cancel(S) ==
    /\ \A j \in S : phase[j] = "accepted"
    /\ phase' = [j \in Jobs |-> IF j \in S THEN "cancelled" ELSE phase[j]]
    /\ UNCHANGED <<runs, reply>>

Next ==
    \/ \E j \in Jobs : Accept(j) \/ \E u \in Turns : Execute(j, u) \/ Answer(j, u)
    \/ \E S \in SUBSET Jobs : Cancel(S)

Spec == Init /\ [][Next]_vars
=============================================================================
