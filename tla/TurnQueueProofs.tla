--------------------------- MODULE TurnQueueProofs ---------------------------
(***************************************************************************)
(* TurnQueue, for any jobs, threads, turns and bounds: it keeps its types, *)
(* no request is executed twice, one request at a time owns a thread,      *)
(* replies are never crossed, requests start in order, stopped and fenced  *)
(* requests are not sent, and the queue implements TurnRequests.           *)
(***************************************************************************)
EXTENDS TurnQueue, TLAPS

-----------------------------------------------------------------------------
(* Types *)

\* The points of an operation at which it works for one request.
WithJob == {"preflight", "ready", "claimed", "prepared", "sent", "answered", "observed"}

\* An operation works for a request of the thread whose lock it holds.
JobOfOperation ==
    \A t \in Targets : pc[t] \in WithJob => ctx[t].job \in Jobs /\ Route[ctx[t].job] = t

TypeInv == TypeOK /\ JobOfOperation

\* The part of the type invariant about the running operations.
OperationsOK ==
    /\ pc \in [Targets -> Points]
    /\ ctx \in [Targets -> Ctx]
    /\ JobOfOperation

LEMMA Blank == NoRow \in Row /\ Idle \in Ctx
  BY TurnQueueAssumption DEF NoRow, Row, RowStates, Errors, Idle, Ctx, Lanes, Replies, Results

LEMMA ClosedRow == ASSUME NEW n \in Nat PROVE [NoRow EXCEPT !.seq = n] \in Row
  BY Blank DEF Row

LEMMA SavedRow ==
  ASSUME NEW n \in Nat, NEW g \in Nat
  PROVE  [NoRow EXCEPT !.state = "pending", !.seq = n, !.gen = g] \in Row
  BY Blank DEF Row, RowStates

LEMMA RunningRows ==
  ASSUME NEW q \in [Jobs -> Row], NEW j, NEW u \in Turns \cup {NoTurn}
  PROVE  [q EXCEPT ![j].state = "running", ![j].turn = u] \in [Jobs -> Row]
<1>1. \A r \in Row : [r EXCEPT !.state = "running", !.turn = u] \in Row
  BY DEF Row, RowStates
<1>2. CASE j \in Jobs BY <1>1, <1>2
<1>3. CASE j \notin Jobs BY <1>3
<1>4. QED BY <1>2, <1>3

LEMMA FailedRows ==
  ASSUME NEW q \in [Jobs -> Row], NEW j \in Jobs, NEW s \in RowStates, NEW e \in Errors
  PROVE  [q EXCEPT ![j].state = s, ![j].err = e] \in [Jobs -> Row]
<1>1. \A r \in Row : [r EXCEPT !.state = s, !.err = e] \in Row
  BY DEF Row
<1>2. QED BY <1>1

LEMMA NotedRows ==
  ASSUME NEW q \in [Jobs -> Row], NEW j, NEW e \in Errors
  PROVE  [q EXCEPT ![j].err = e] \in [Jobs -> Row]
<1>1. \A r \in Row : [r EXCEPT !.err = e] \in Row
  BY DEF Row
<1>2. QED BY <1>1

LEMMA BumpType == ASSUME NEW a \in 0..MaxAttempt PROVE Bump(a) \in 0..MaxAttempt
  BY TurnQueueAssumption DEF Bump

LEMMA ReleaseType ==
  ASSUME NEW t \in Targets, OperationsOK, Release(t) PROVE OperationsOK'
  BY Blank DEF OperationsOK, Release, JobOfOperation, Points, WithJob

LEMMA EnterNextType ==
  ASSUME NEW t \in Targets, OperationsOK, gen \in Nat, EnterNext(t) PROVE OperationsOK'
<1>1. [Idle EXCEPT !.gen = gen] \in Ctx
  BY Blank DEF Idle, Ctx
<1>2. QED BY <1>1 DEF OperationsOK, EnterNext, JobOfOperation, Points, WithJob

LEMMA SameOperations ==
  ASSUME OperationsOK, UNCHANGED <<pc, ctx>> PROVE OperationsOK'
  BY DEF OperationsOK, JobOfOperation

LEMMA TypeParts == TypeInv => TypeOK /\ OperationsOK
  BY DEF TypeInv, TypeOK, OperationsOK

LEMMA InitType == Init => TypeInv
  BY TurnQueueAssumption, Blank DEF Init, TypeInv, TypeOK, JobOfOperation, Points, WithJob

LEMMA RequestsType == ASSUME TypeInv, Requests PROVE TypeInv'
<1> USE TypeParts
<1>1. PICK j \in Jobs : Submit(j) \/ StageCompletion(j) \/ TimePasses(j)
  BY DEF Requests
<1> Route[j] \in Targets
  BY TurnQueueAssumption
<1>2. CASE Submit(j)
  <2>1. OperationsOK'
    <3>1. gen \in Nat BY DEF TypeOK
    <3>2. CASE UNCHANGED <<pc, ctx>> BY <3>2, SameOperations
    <3>3. CASE EnterNext(Route[j]) BY <3>1, <3>3, EnterNextType
    <3>4. QED BY <1>2, <3>2, <3>3 DEF Submit
  <2>2. [NoRow EXCEPT !.state = "pending", !.seq = clock + 1, !.gen = gen] \in Row
    <3>1. clock + 1 \in Nat /\ gen \in Nat BY DEF TypeOK
    <3>2. QED BY <3>1, SavedRow
  <2>3. QED BY <1>2, <2>1, <2>2 DEF Submit, TypeInv, TypeOK, OperationsOK, external
<1>3. CASE StageCompletion(j)
  <2>1. OperationsOK'
    BY <1>3, EnterNextType DEF StageCompletion, TypeOK
  <2>2. [NoRow EXCEPT !.seq = queue[j].seq] \in Row /\ queue[j].turn \in Turns \cup {NoTurn}
    BY ClosedRow DEF TypeOK, Row
  <2>3. QED BY <1>3, <2>1, <2>2 DEF StageCompletion, StageReply, TypeInv, TypeOK, OperationsOK, external
<1>4. CASE TimePasses(j)
  BY <1>4 DEF TimePasses, TypeInv, TypeOK, JobOfOperation, runtime, external
<1>5. QED BY <1>1, <1>2, <1>3, <1>4

LEMMA PreflightType ==
  ASSUME NEW t \in Targets, NEW e \in Errors, TypeInv, pc[t] = "preflight", RecordPreflight(t, e),
         faults' \in Nat, journal' \in [Targets -> {"none", "resume", "start"}]
  PROVE  TypeInv'
<1> DEFINE j == ctx[t].job
<1>1. j \in Jobs
  BY DEF TypeInv, JobOfOperation, WithJob
<1>2. OperationsOK'
  BY TypeParts, ReleaseType DEF RecordPreflight
<1>3. queue' \in [Jobs -> Row] /\ recent' \subseteq Jobs
  <2>1. CASE UNCHANGED <<queue, recent>>
    BY <2>1 DEF TypeInv, TypeOK
  <2>2. CASE /\ queue' = [queue EXCEPT ![j].err = e, ![j].attempt = Bump(@)]
             /\ recent' = recent \cup {j}
    <3>1. queue[j] \in Row BY <1>1 DEF TypeInv, TypeOK
    <3>2. Bump(queue[j].attempt) \in 0..MaxAttempt BY <3>1, BumpType DEF Row
    <3>3. [queue[j] EXCEPT !.err = e, !.attempt = Bump(queue[j].attempt)] \in Row
      BY <3>1, <3>2 DEF Row
    <3>4. QED BY <1>1, <2>2, <3>3 DEF TypeInv, TypeOK
  <2>3. QED BY <2>1, <2>2 DEF RecordPreflight
<1>4. QED BY <1>2, <1>3 DEF RecordPreflight, TypeInv, TypeOK, OperationsOK, external

LEMMA FaultType == ASSUME faults \in Nat, Fault PROVE faults' \in Nat
  BY DEF Fault

LEMMA ClaimType == ASSUME NEW t \in Targets, TypeInv, Claim(t) PROVE TypeInv'
<1> DEFINE j   == ctx[t].job
           row == [queue[j] EXCEPT !.state = "starting", !.begun = TRUE, !.turn = NoTurn,
                                   !.attempt = Bump(@), !.base = ctx[t].base, !.err = ""]
<1>1. j \in Jobs /\ Route[j] = t
  BY DEF Claim, TypeInv, JobOfOperation, WithJob
<1>2. queue[j] \in Row /\ ctx[t] \in Ctx
  BY <1>1 DEF TypeInv, TypeOK
<1>3. Bump(queue[j].attempt) \in 0..MaxAttempt
  BY <1>2, BumpType DEF Row
<1>4. row \in Row
  BY <1>2, <1>3 DEF Row, Ctx, RowStates, Errors
<1>5. pc' = [pc EXCEPT ![t] = "claimed"] /\ ctx' = [ctx EXCEPT ![t].claim = row]
      /\ queue' = [queue EXCEPT ![j] = row] /\ recent' = recent \cup {j}
  BY DEF Claim
<1> HIDE DEF row
<1>6. OperationsOK'
  BY <1>1, <1>2, <1>4, <1>5 DEF TypeInv, TypeOK, OperationsOK, JobOfOperation, Points, WithJob, Ctx
<1>7. QED BY <1>1, <1>4, <1>5, <1>6 DEF Claim, TypeInv, TypeOK, OperationsOK, external

LEMMA AnsweredType ==
  ASSUME NEW t \in Targets, NEW r \in Results, OperationsOK, pc[t] \in WithJob, Answered(t, r)
  PROVE  OperationsOK'
<1>1. ctx[t] \in Ctx BY DEF OperationsOK
<1>2. ctx'[t] \in Ctx /\ ctx'[t].job = ctx[t].job
  BY <1>1 DEF Answered, Ctx, Replies, OperationsOK
<1>3. \A s \in Targets \ {t} : ctx'[s] = ctx[s] /\ pc'[s] = pc[s]
  BY DEF Answered, OperationsOK
<1>4. ctx' \in [Targets -> Ctx] /\ pc' \in [Targets -> Points]
  BY <1>2, <1>3 DEF Answered, OperationsOK, Points
<1>5. QED BY <1>2, <1>3, <1>4 DEF OperationsOK, JobOfOperation

LEMMA StartTurnType == ASSUME TypeInv, StartTurn PROVE TypeInv'
<1> USE TypeParts
<1>1. PICK t \in Targets :
        \/ KickTarget(t) \/ SelectHead(t) \/ Decline(t)
        \/ PreflightOk(t) \/ PreflightFail(t) \/ PreflightHeld(t) \/ PreflightUnknown(t)
        \/ Claim(t) \/ ClaimRefused(t)
        \/ Prepare(t) \/ Write(t) \/ NotWritten(t)
        \/ (\E r \in Results : DispatchRefused(t, r))
        \/ Answer(t) \/ AnswerUnknown(t)
        \/ RecordRunning(t) \/ RecordFailure(t) \/ ClaimLost(t)
        \/ DropOperation(t)
  BY DEF StartTurn
<1>2. gen \in Nat /\ faults \in Nat /\ "failed" \in Errors /\ "held" \in Errors
  BY DEF TypeOK, Errors
<1>3. (Decline(t) \/ ClaimRefused(t) \/ ClaimLost(t)) => TypeInv'
  <2>1. SUFFICES ASSUME Decline(t) \/ ClaimRefused(t) \/ ClaimLost(t) PROVE TypeInv'
    OBVIOUS
  <2>2. Release(t) /\ UNCHANGED <<durable, boot, gen, up, affected, external, faults>>
    BY <2>1 DEF Decline, ClaimRefused, ClaimLost
  <2>3. QED BY <2>2, ReleaseType DEF TypeInv, TypeOK, OperationsOK, durable, external
<1>4. CASE KickTarget(t)
  BY <1>2, <1>4, EnterNextType DEF KickTarget, TypeInv, TypeOK, OperationsOK, durable, external
<1>5. CASE SelectHead(t)
  <2>1. PICK j \in Jobs : /\ CanSelect(j, t)
                          /\ ctx' = [ctx EXCEPT ![t].job = j, ![t].claim = queue[j]]
    BY <1>5 DEF SelectHead
  <2>2. Route[j] = t
    BY <2>1 DEF CanSelect, IsHead, Startable
  <2>3. ctx'[t] \in Ctx /\ ctx'[t].job = j
    <3>1. \A c \in Ctx, r \in Row : LET d == [c EXCEPT !.job = j, !.claim = r]
                                    IN d \in Ctx /\ d.job = j
      BY DEF Ctx
    <3>2. ctx[t] \in Ctx /\ queue[j] \in Row
      BY DEF TypeOK
    <3>3. ctx'[t] = [ctx[t] EXCEPT !.job = j, !.claim = queue[j]]
      BY <2>1 DEF TypeOK
    <3>4. QED BY <3>1, <3>2, <3>3
  <2>4. OperationsOK'
    BY <1>5, <2>1, <2>2, <2>3 DEF SelectHead, OperationsOK, JobOfOperation, Points, WithJob
  <2>5. QED BY <1>5, <2>4 DEF SelectHead, TypeInv, TypeOK, OperationsOK, durable, external
<1>6. CASE PreflightOk(t)
  <2>1. ctx'[t] \in Ctx /\ ctx'[t].job = ctx[t].job /\ hist[t] \subseteq Turns
    <3>1. \A c \in Ctx, b \in SUBSET Turns : LET d == [c EXCEPT !.base = b]
                                             IN d \in Ctx /\ d.job = c.job
      BY DEF Ctx
    <3>2. ctx[t] \in Ctx /\ hist[t] \in SUBSET Turns
      BY DEF TypeOK
    <3>3. ctx'[t] = [ctx[t] EXCEPT !.base = hist[t]]
      BY <1>6 DEF PreflightOk, Baseline, TypeOK
    <3>4. QED BY <3>1, <3>2, <3>3
  <2>2. OperationsOK'
    BY <1>6, <2>1 DEF PreflightOk, OperationsOK, JobOfOperation, Points, WithJob
  <2>3. QED BY <1>6, <2>2 DEF PreflightOk, TypeInv, TypeOK, OperationsOK, durable, external
<1>7. CASE PreflightFail(t)
  BY <1>2, <1>7, PreflightType, FaultType DEF PreflightFail, TypeOK
<1>8. CASE PreflightHeld(t)
  BY <1>2, <1>8, PreflightType DEF PreflightHeld, TypeOK
<1>9. CASE PreflightUnknown(t)
  BY <1>2, <1>9, PreflightType, FaultType DEF PreflightUnknown, TypeOK
<1>10. CASE Prepare(t)
  <2>1. OperationsOK'
    BY <1>10 DEF Prepare, OperationsOK, JobOfOperation, Points, WithJob
  <2>2. QED BY <1>10, <2>1 DEF Prepare, TypeInv, TypeOK, OperationsOK, external
<1>18. CASE Write(t)
  <2>1. OperationsOK'
    BY <1>18 DEF Write, OperationsOK, JobOfOperation, Points, WithJob
  <2>2. [job |-> ctx[t].job, attempt |-> ctx[t].claim.attempt, epoch |-> epoch] \in Wire
    BY <1>18 DEF Write, TypeInv, TypeOK, JobOfOperation, WithJob, Ctx, Row, Wire
  <2>3. QED BY <1>18, <2>1, <2>2 DEF Write, TypeInv, TypeOK, OperationsOK, durable
<1>19. CASE NotWritten(t)
  <2>1. OperationsOK' BY <1>19, AnsweredType DEF NotWritten, WithJob, Results
  <2>2. faults' \in Nat BY <1>2, <1>19, FaultType DEF NotWritten
  <2>3. journal' \in [Targets -> {"none", "resume", "start"}]
    BY <1>19 DEF NotWritten, TypeInv, TypeOK
  <2>4. QED BY <1>19, <2>1, <2>2, <2>3 DEF NotWritten, TypeInv, TypeOK, OperationsOK, external
<1>11. CASE \E r \in Results : DispatchRefused(t, r)
  <2>1. PICK r \in Results : DispatchRefused(t, r) BY <1>11
  <2>2. OperationsOK' BY <2>1, AnsweredType DEF DispatchRefused, WithJob
  <2>3. faults' \in Nat BY <1>2, <2>1, FaultType DEF DispatchRefused
  <2>4. QED BY <2>1, <2>2, <2>3 DEF DispatchRefused, TypeInv, TypeOK, OperationsOK, durable, external
<1>12. CASE Answer(t)
  <2>1. ctx[t].reply \in Replies BY DEF TypeOK, Ctx
  <2>2. \E r \in Results : Answered(t, r)
    BY <1>12, <2>1 DEF Answer, Replies, Results
  <2>3. OperationsOK' BY <1>12, <2>2, AnsweredType DEF Answer, WithJob
  <2>4. faults' \in Nat BY <1>2, <1>12, FaultType DEF Answer
  <2>5. QED BY <1>12, <2>3, <2>4 DEF Answer, TypeInv, TypeOK, OperationsOK, external
<1>13. CASE AnswerUnknown(t)
  <2>1. OperationsOK' BY <1>13, AnsweredType DEF AnswerUnknown, WithJob, Results
  <2>2. faults' \in Nat BY <1>2, <1>13, FaultType DEF AnswerUnknown
  <2>3. QED BY <1>13, <2>1, <2>2 DEF AnswerUnknown, TypeInv, TypeOK, OperationsOK, durable, external
<1>14. CASE RecordRunning(t)
  <2>1. OperationsOK' BY <1>14, ReleaseType DEF RecordRunning
  <2>2. ctx[t].turn \in Turns \cup {NoTurn} BY DEF TypeOK, Ctx
  <2>3. queue' \in [Jobs -> Row]
    BY <1>14, <2>2, RunningRows DEF RecordRunning, TypeOK
  <2>4. QED BY <1>14, <2>1, <2>3 DEF RecordRunning, TypeInv, TypeOK, OperationsOK, external
<1>15. CASE RecordFailure(t)
  <2>1. OperationsOK' BY <1>15, ReleaseType DEF RecordFailure
  <2>2. ctx[t].job \in Jobs BY <1>15 DEF RecordFailure, TypeInv, JobOfOperation, WithJob
  <2>3. StateAfter(ctx[t].result) \in RowStates /\ ErrorAfter(ctx[t].result) \in Errors
    BY DEF StateAfter, ErrorAfter, RowStates, Errors
  <2>4. queue' \in [Jobs -> Row]
    BY <1>15, <2>2, <2>3, FailedRows DEF RecordFailure, TypeOK
  <2>5. QED BY <1>15, <2>1, <2>2, <2>4 DEF RecordFailure, TypeInv, TypeOK, OperationsOK, external
<1>16. CASE DropOperation(t)
  BY <1>2, <1>16, ReleaseType, FaultType DEF DropOperation, TypeInv, TypeOK, OperationsOK, external
<1>17. CASE Claim(t) BY <1>17, ClaimType
<1>20. QED BY <1>1, <1>3, <1>4, <1>5, <1>6, <1>7, <1>8, <1>9, <1>10, <1>11, <1>12, <1>13, <1>14,
             <1>15, <1>16, <1>17, <1>18, <1>19

LEMMA RecoverType == ASSUME TypeInv, Recover PROVE TypeInv'
<1> USE TypeParts
<1>1. PICK t \in Targets :
        \/ (\E g \in 1..gen : Mutate(t, g) \/ Observe(t, g))
        \/ Adopt(t)
        \/ ReconcileRunning(t) \/ ReconcileBind(t) \/ ReconcileEmpty(t)
        \/ ReconcileMany(t) \/ ReconcileNothing(t)
  BY DEF Recover
<1>2. CASE \E g \in 1..gen : Mutate(t, g) \/ Observe(t, g)
  <2>1. PICK g \in Nat : Mutate(t, g) \/ Observe(t, g)
    BY <1>2 DEF TypeOK
  <2>2. PICK j \in Jobs, c \in Ctx :
                             /\ Route[j] = t
                             /\ ctx' = [ctx EXCEPT ![t] = c] /\ c.job = j
                             /\ pc' \in {[pc EXCEPT ![t] = "preflight"], [pc EXCEPT ![t] = "observed"]}
    <3>1. CASE Mutate(t, g)
      <4>1. PICK j \in Jobs :
              /\ IsHead(j, t)
              /\ pc' = [pc EXCEPT ![t] = "preflight"]
              /\ ctx' = [ctx EXCEPT ![t] = [Idle EXCEPT !.lane = "recover", !.gen = g,
                                                        !.job = j, !.claim = queue[j]]]
        BY <3>1 DEF Mutate
      <4>2. [Idle EXCEPT !.lane = "recover", !.gen = g, !.job = j, !.claim = queue[j]] \in Ctx
        BY Blank DEF TypeOK, Ctx, Lanes
      <4>3. [Idle EXCEPT !.lane = "recover", !.gen = g, !.job = j, !.claim = queue[j]].job = j
        BY DEF Idle
      <4>4. QED BY <4>1, <4>2, <4>3 DEF IsHead, Startable
    <3>2. CASE Observe(t, g)
      <4>1. PICK j \in Owners(t) :
              ctx' = [ctx EXCEPT ![t] = [Idle EXCEPT !.lane = "observe", !.gen = g, !.job = j,
                                               !.claim = queue[j], !.base = hist[t]]]
        BY <3>2 DEF Observe
      <4>2. j \in Jobs /\ Route[j] = t
        BY DEF Owners
      <4>3. [Idle EXCEPT !.lane = "observe", !.gen = g, !.job = j,
                         !.claim = queue[j], !.base = hist[t]] \in Ctx
        BY <4>2, Blank DEF TypeOK, Ctx, Lanes
      <4>4. [Idle EXCEPT !.lane = "observe", !.gen = g, !.job = j,
                         !.claim = queue[j], !.base = hist[t]].job = j
        BY DEF Idle
      <4>5. QED BY <3>2, <4>1, <4>2, <4>3, <4>4 DEF Observe
    <3>3. QED BY <2>1, <3>1, <3>2
  <2>3. OperationsOK'
    BY <2>2 DEF OperationsOK, JobOfOperation, Points, WithJob
  <2>4. UNCHANGED <<durable, boot, gen, up, affected, external, faults>>
    BY <2>1 DEF Mutate, Observe
  <2>5. QED BY <2>3, <2>4 DEF TypeInv, TypeOK, OperationsOK, durable, external
<1>3. CASE Adopt(t)
  <2>1. OperationsOK'
    <3>1. CASE Release(t) BY <3>1, ReleaseType
    <3>2. CASE /\ pc' = [pc EXCEPT ![t] = "next"]
               /\ ctx' = [ctx EXCEPT ![t].job = NoJob, ![t].claim = NoRow]
      <4>1. ctx'[t] \in Ctx BY <3>2, Blank DEF TypeOK, Ctx
      <4>2. QED BY <3>2, <4>1 DEF OperationsOK, JobOfOperation, Points, WithJob
    <3>3. QED BY <1>3, <3>1, <3>2 DEF Adopt
  <2>2. queue' \in [Jobs -> Row]
    <3>1. \A j \in Jobs : [queue[j] EXCEPT !.gen = ctx[t].gen] \in Row
      <4>1. ctx[t].gen \in Nat BY DEF TypeOK, Ctx
      <4>2. \A r \in Row : [r EXCEPT !.gen = ctx[t].gen] \in Row BY <4>1 DEF Row
      <4>3. QED BY <4>2 DEF TypeOK
    <3>2. QED BY <1>3, <3>1 DEF Adopt, TypeOK
  <2>3. QED BY <1>3, <2>1, <2>2 DEF Adopt, TypeInv, TypeOK, OperationsOK, external
<1>4. ASSUME EnterAdopt(t), pc[t] = "observed" PROVE OperationsOK'
  BY <1>4 DEF EnterAdopt, OperationsOK, JobOfOperation, Points, WithJob
<1>5. CASE ReconcileRunning(t)
  BY <1>4, <1>5 DEF ReconcileRunning, TypeInv, TypeOK, OperationsOK, durable, external
<1>6. CASE ReconcileBind(t)
  <2>1. OperationsOK' BY <1>4, <1>6, ReleaseType DEF ReconcileBind, Reconcilable
  <2>2. queue' \in [Jobs -> Row]
    <3>1. CASE UNCHANGED queue BY <3>1 DEF TypeOK
    <3>2. ASSUME NEW u \in Turns,
                 queue' = [queue EXCEPT ![ctx[t].job].state = "running", ![ctx[t].job].turn = u]
          PROVE  queue' \in [Jobs -> Row]
      BY <3>2, RunningRows DEF TypeOK
    <3>3. QED BY <1>6, <3>1, <3>2 DEF ReconcileBind
  <2>3. QED BY <1>6, <2>1, <2>2 DEF ReconcileBind, TypeInv, TypeOK, OperationsOK, external
<1>7. CASE ReconcileEmpty(t)
  <2>1. "ambiguous" \in Errors BY DEF Errors
  <2>2. queue' \in [Jobs -> Row]
    <3>1. CASE UNCHANGED queue BY <3>1 DEF TypeOK
    <3>2. CASE queue' = [queue EXCEPT ![ctx[t].job].err = "ambiguous"]
      BY <2>1, <3>2, NotedRows DEF TypeOK
    <3>3. QED BY <1>7, <3>1, <3>2 DEF ReconcileEmpty
  <2>3. QED BY <1>7, <2>2, ReleaseType DEF ReconcileEmpty, TypeInv, TypeOK, OperationsOK, external
<1>8. CASE ReconcileMany(t)
  <2>1. "candidates" \in Errors BY DEF Errors
  <2>2. queue' \in [Jobs -> Row] BY <1>8, <2>1, NotedRows DEF ReconcileMany, TypeOK
  <2>3. QED BY <1>8, <2>2, ReleaseType DEF ReconcileMany, TypeInv, TypeOK, OperationsOK, external
<1>9. CASE ReconcileNothing(t)
  BY <1>9, ReleaseType DEF ReconcileNothing, TypeInv, TypeOK, OperationsOK, durable, external
<1>10. QED BY <1>1, <1>2, <1>3, <1>5, <1>6, <1>7, <1>8, <1>9

LEMMA ForgetType ==
  ASSUME TypeOK, NEW S \in SUBSET Jobs, Forget(S)
  PROVE  queue' \in [Jobs -> Row] /\ cancelled' \subseteq Jobs
<1>1. \A j \in Jobs : [NoRow EXCEPT !.seq = queue[j].seq] \in Row
  BY ClosedRow DEF TypeOK, Row
<1>2. QED BY <1>1 DEF Forget, TypeOK

LEMMA ControlType == ASSUME TypeInv, Control PROVE TypeInv'
<1> USE TypeParts
<1>1. PICK t \in Targets : Stop(t) \/ CancelLatestPending(t) \/ CancelForRecovery(t)
  BY DEF Control
<1>2. RowsOf(t) \subseteq Jobs BY DEF RowsOf
<1>3. CASE Stop(t)
  BY <1>2, <1>3, FaultType, SameOperations DEF Stop, TypeInv, TypeOK, OperationsOK, runtime, external
<1>4. CASE CancelLatestPending(t)
  <2>1. PICK j \in RowsOf(t) : Forget({j}) BY <1>4 DEF CancelLatestPending
  <2>2. {j} \in SUBSET Jobs BY <1>2
  <2>3. queue' \in [Jobs -> Row] /\ cancelled' \subseteq Jobs BY <2>1, <2>2, ForgetType
  <2>4. QED BY <1>4, <2>3, SameOperations DEF CancelLatestPending, TypeInv, TypeOK, OperationsOK, runtime, external
<1>5. CASE CancelForRecovery(t)
  <2>1. queue' \in [Jobs -> Row] /\ cancelled' \subseteq Jobs
    BY <1>2, <1>5, ForgetType DEF CancelForRecovery
  <2>2. QED BY <1>2, <1>5, <2>1, SameOperations DEF CancelForRecovery, TypeInv, TypeOK, OperationsOK, runtime, external
<1>6. QED BY <1>1, <1>3, <1>4, <1>5

LEMMA ReplyType ==
  ASSUME TypeInv, NEW w \in wire, NEW r \in Replies, NEW u \in Turns \cup {NoTurn},
         Reply(w, r, u), pc' = pc
  PROVE  OperationsOK'
<1> USE TypeParts
<1> DEFINE t == Route[w.job]
<1>1. t \in Targets BY TurnQueueAssumption DEF TypeOK, Wire
<1>2. CASE ctx' = ctx BY <1>2, SameOperations
<1>3. CASE ctx' = [ctx EXCEPT ![t].reply = r, ![t].turn = u]
  <2>1. ctx'[t] \in Ctx /\ ctx'[t].job = ctx[t].job
    <3>1. \A c \in Ctx : [c EXCEPT !.reply = r, !.turn = u] \in Ctx
                         /\ [c EXCEPT !.reply = r, !.turn = u].job = c.job
      BY DEF Ctx
    <3>2. ctx'[t] = [ctx[t] EXCEPT !.reply = r, !.turn = u]
      BY <1>1, <1>3 DEF TypeOK
    <3>3. ctx[t] \in Ctx BY <1>1 DEF TypeOK
    <3>4. QED BY <3>1, <3>2, <3>3
  <2>2. \A s \in Targets : ctx'[s].job = ctx[s].job /\ ctx'[s] \in Ctx
    BY <1>1, <1>3, <2>1 DEF TypeOK
  <2>3. ctx' \in [Targets -> Ctx] BY <1>3, <2>2 DEF TypeOK
  <2>4. QED BY <2>2, <2>3 DEF OperationsOK, JobOfOperation
<1>4. QED BY <1>2, <1>3 DEF Reply

LEMMA ServerType == ASSUME TypeInv, Server PROVE TypeInv'
<1> USE TypeParts
<1>1. ASSUME NEW w \in wire, NEW u \in Turns, ServerAccept(w, u) PROVE TypeInv'
  <2>1. OperationsOK' BY <1>1, ReplyType DEF ServerAccept, Replies
  <2>2. w.job \in Jobs /\ w.epoch \in Nat BY DEF TypeOK, Wire
  <2>3. hist' \in [Targets -> SUBSET Turns] /\ born' \in [Turns -> Nat]
    BY <1>1, <2>2 DEF ServerAccept, TypeOK
  <2>4. QED BY <1>1, <2>1, <2>2, <2>3 DEF ServerAccept, TypeInv, TypeOK, OperationsOK, durable
<1>2. ASSUME NEW w \in wire, NEW r \in Replies, ServerReject(w, r) PROVE TypeInv'
  <2>1. OperationsOK' BY <1>2, ReplyType DEF ServerReject
  <2>2. faults' \in Nat BY <1>2, FaultType DEF ServerReject, TypeOK
  <2>3. QED BY <1>2, <2>1, <2>2 DEF ServerReject, TypeInv, TypeOK, OperationsOK, durable
<1>3. ASSUME NEW u \in Turns, ServerCompletes(u) PROVE TypeInv'
  BY <1>3, SameOperations DEF ServerCompletes, TypeInv, TypeOK, OperationsOK, durable, runtime
<1>4. ASSUME NEW t \in Targets, NEW u \in Turns, ForeignTurn(t, u) PROVE TypeInv'
  BY <1>4, SameOperations DEF ForeignTurn, TypeInv, TypeOK, OperationsOK, durable, runtime
<1>5. QED BY <1>1, <1>2, <1>3, <1>4 DEF Server

LEMMA LifeType == ASSUME TypeInv, Life PROVE TypeInv'
<1> USE TypeParts
<1>1. CASE ServerDies
  BY <1>1, FaultType, SameOperations DEF ServerDies, TypeInv, TypeOK, OperationsOK, durable
<1>8. CASE SealConnection
  BY <1>8, FaultType, SameOperations DEF SealConnection, TypeInv, TypeOK, OperationsOK, durable, external
<1>2. CASE Capture
  <2>1. {Route[j] : j \in {k \in Jobs : /\ queue[k].state \in {"starting", "running"}
                                         /\ queue[k].gen = gen}} \subseteq Targets
    BY TurnQueueAssumption
  <2>2. QED BY <1>2, <2>1, SameOperations DEF Capture, TypeInv, TypeOK, OperationsOK, external
<1>3. CASE ReplaceServer
  <2>1. faults' \in Nat BY <1>3, FaultType DEF ReplaceServer, TypeOK
  <2>2. QED BY <1>3, <2>1, SameOperations DEF ReplaceServer, TypeInv, TypeOK, OperationsOK, durable
<1>4. CASE Crash
  <2>1. faults' \in Nat BY <1>4, FaultType DEF Crash, TypeOK
  <2>2. OperationsOK' BY <1>4, Blank DEF Crash, OperationsOK, JobOfOperation, Points, WithJob
  <2>3. QED BY <1>4, <2>1, <2>2 DEF Crash, TypeInv, TypeOK, OperationsOK
<1>5. CASE StartWorkers
  BY <1>5, SameOperations DEF StartWorkers, TypeInv, TypeOK, OperationsOK, durable, external
<1>6. ASSUME NEW t \in Targets, RetireResume(t) PROVE TypeInv'
  <2>1. \A r \in Row : [r EXCEPT !.err = ""] \in Row BY DEF Row, Errors
  <2>2. queue' \in [Jobs -> Row] BY <1>6, <2>1 DEF RetireResume, TypeOK
  <2>3. QED BY <1>6, <2>2, SameOperations DEF RetireResume, TypeInv, TypeOK, OperationsOK, runtime, external
<1>7. QED BY <1>1, <1>2, <1>3, <1>4, <1>5, <1>6, <1>8 DEF Life

LEMMA TypeInductive == TypeInv /\ [Next]_vars => TypeInv'
<1>1. SUFFICES ASSUME TypeInv, [Next]_vars PROVE TypeInv'
  OBVIOUS
<1>2. CASE UNCHANGED vars
  <2>1. UNCHANGED durable /\ UNCHANGED runtime /\ UNCHANGED external /\ UNCHANGED faults
    BY <1>2 DEF vars
  <2>2. OperationsOK'
    BY <1>1, <2>1, TypeParts, SameOperations DEF runtime
  <2>3. QED BY <1>1, <2>1, <2>2 DEF TypeInv, TypeOK, OperationsOK, durable, runtime, external
<1>3. QED BY <1>1, <1>2, RequestsType, StartTurnType, RecoverType, ControlType, ServerType, LifeType
          DEF Next

\* Every table and every local of the running operations keeps its shape, and
\* attempt_count its width, whatever the jobs, threads and faults.
THEOREM TypeCorrect == Spec => []TypeOK
<1>1. TypeInv => TypeOK BY DEF TypeInv
<1>2. QED BY <1>1, InitType, TypeInductive, PTL DEF Spec


-----------------------------------------------------------------------------
(* The inductive invariant *)

\* What recovery may start again was never sent.
RowOnce(j) ==
    /\ (queue[j].state = "pending" \/ queue[j].seq = 0) => Unsent(j)
    /\ queue[j].state # "absent" => queue[j].seq # 0

\* Until its request is written, and after a definite rejection, an operation knows
\* that nothing of the request exists at the app-server.
OpOnce(t) ==
    /\ pc[t] \in {"claimed", "prepared"} =>
            Unsent(ctx[t].job) /\ ctx[t].claim.state = "starting"
    /\ pc[t] = "prepared" => queue[ctx[t].job].state # "pending"
    /\ pc[t] = "sent" /\ ctx[t].reply \in {"rejected", "limited"} => Unsent(ctx[t].job)
    /\ pc[t] = "answered" => /\ ctx[t].result # "none"
                             /\ ctx[t].result \in {"definite", "held"} => Unsent(ctx[t].job)
    /\ pc[t] # "sent" => ctx[t].reply = "none"
    /\ pc[t] \in WithJob => queue[ctx[t].job].seq # 0

OnceInv ==
    /\ AtMostOnce
    /\ \A j \in Jobs : RowOnce(j)
    /\ \A t \in Targets : OpOnce(t)

-----------------------------------------------------------------------------
(* Frames: a step that writes nothing to the app-server *)

\* The answer about the request is known and its row is about to be updated.
Settling(j) == \E t \in Targets : pc[t] = "answered" /\ ctx[t].job = j

\* A step gives a row back to recovery only when nothing of it was sent, and no
\* attempt of it is under way.
RowsStep ==
    \A j \in Jobs :
        /\ queue'[j].seq = 0 => queue[j].seq = 0
        /\ queue'[j].state # "absent" => queue'[j].seq # 0
        /\ queue'[j].state = "pending" => Unsent(j)
        /\ queue'[j].state = "pending" =>
                queue[j].state = "pending" \/ queue[j].seq = 0 \/ Settling(j)

\* The operation of a target is untouched.
OpSame(t) == pc'[t] = pc[t] /\ ctx'[t] = ctx[t]

LEMMA UnsentKept ==
  ASSUME NEW j, wire' \subseteq wire, owner' = owner, Unsent(j) PROVE Unsent(j)'
  BY DEF Unsent

LEMMA OpOnceKept ==
  ASSUME NEW t \in Targets, TypeInv, OpOnce(t), OpSame(t), RowsStep,
         wire' \subseteq wire, owner' = owner
  PROVE  OpOnce(t)'
<1>1. pc[t] \in WithJob => ctx[t].job \in Jobs
  BY DEF TypeInv, JobOfOperation
<1>2. pc[t] \in WithJob => queue'[ctx[t].job].seq # 0
  BY <1>1 DEF OpOnce, RowsStep
<1>3. Unsent(ctx[t].job) => Unsent(ctx[t].job)'
  BY DEF Unsent, OpSame
<1>4. pc[t] = "prepared" => queue'[ctx[t].job].state # "pending"
  <2>1. pc[t] = "prepared" => ~Settling(ctx[t].job)
    BY DEF Settling, TypeInv, JobOfOperation, WithJob
  <2>2. QED BY <1>1, <2>1 DEF OpOnce, RowsStep, WithJob
<1>5. QED BY <1>2, <1>3, <1>4 DEF OpOnce, OpSame

LEMMA OnceFrame ==
  ASSUME TypeInv, OnceInv, RowsStep, wire' \subseteq wire, owner' = owner,
         \A t \in Targets : OpSame(t) \/ OpOnce(t)'
  PROVE  OnceInv'
<1>1. AtMostOnce' BY DEF OnceInv, AtMostOnce
<1>2. \A j \in Jobs : RowOnce(j)'
  BY UnsentKept DEF OnceInv, RowOnce, RowsStep
<1>3. \A t \in Targets : OpOnce(t)' BY OpOnceKept DEF OnceInv
<1>4. QED BY <1>1, <1>2, <1>3 DEF OnceInv

LEMMA SameRows == ASSUME OnceInv, queue' = queue PROVE RowsStep
  BY DEF OnceInv, RowOnce, RowsStep

LEMMA ReleaseOnce ==
  ASSUME NEW t \in Targets, TypeInv, Release(t)
  PROVE  \A s \in Targets : OpSame(s) \/ OpOnce(s)'
<1>1. pc'[t] = "free" /\ ctx'[t].reply = "none"
  BY DEF Release, TypeInv, TypeOK, Idle
<1>2. OpOnce(t)' BY <1>1 DEF OpOnce, WithJob
<1>3. \A s \in Targets \ {t} : OpSame(s) BY DEF Release, TypeInv, TypeOK, OpSame
<1>4. QED BY <1>2, <1>3

LEMMA EnterNextOnce ==
  ASSUME NEW t \in Targets, TypeInv, EnterNext(t)
  PROVE  \A s \in Targets : OpSame(s) \/ OpOnce(s)'
<1>1. pc'[t] = "next" /\ ctx'[t].reply = "none"
  BY DEF EnterNext, TypeInv, TypeOK, Idle
<1>2. OpOnce(t)' BY <1>1 DEF OpOnce, WithJob
<1>3. \A s \in Targets \ {t} : OpSame(s) BY DEF EnterNext, TypeInv, TypeOK, OpSame
<1>4. QED BY <1>2, <1>3

LEMMA AnsweredOnce ==
  ASSUME NEW t \in Targets, NEW r \in Results, TypeInv, OnceInv, Answered(t, r), pc[t] \in WithJob,
         RowsStep, wire' \subseteq wire, owner' = owner,
         r # "none", r \in {"definite", "held"} => Unsent(ctx[t].job)
  PROVE  \A s \in Targets : OpSame(s) \/ OpOnce(s)'
<1>1. /\ pc'[t] = "answered" /\ ctx'[t].reply = "none"
      /\ ctx'[t].result = r /\ ctx'[t].job = ctx[t].job
  BY DEF Answered, TypeInv, TypeOK, Ctx
<1>2. ctx[t].job \in Jobs /\ queue[ctx[t].job].seq # 0
  BY DEF TypeInv, JobOfOperation, OnceInv, OpOnce
<1>3. queue'[ctx[t].job].seq # 0
  BY <1>2 DEF RowsStep
<1>4. Unsent(ctx[t].job) => Unsent(ctx[t].job)'
  BY <1>1 DEF Unsent
<1>5. OpOnce(t)' BY <1>1, <1>3, <1>4 DEF OpOnce
<1>6. \A s \in Targets \ {t} : OpSame(s) BY DEF Answered, TypeInv, TypeOK, OpSame
<1>7. QED BY <1>5, <1>6

-----------------------------------------------------------------------------
(* Steps *)

LEMMA RequestsOnce == ASSUME TypeInv, OnceInv, Requests PROVE OnceInv'
<1>1. PICK j \in Jobs : Submit(j) \/ StageCompletion(j) \/ TimePasses(j)
  BY DEF Requests
<1>2. Route[j] \in Targets /\ queue \in [Jobs -> Row] /\ clock \in Nat
  BY TurnQueueAssumption DEF TypeInv, TypeOK
<1>3. CASE Submit(j)
  <2>1. wire' = wire /\ owner' = owner BY <1>3 DEF Submit, external
  <2>2. queue[j].seq = 0 /\ queue'[j].seq = clock + 1 /\ \A k \in Jobs \ {j} : queue'[k] = queue[k]
    BY <1>2, <1>3 DEF Submit, NoRow
  <2>3. Unsent(j) BY <1>3 DEF Submit, OnceInv, RowOnce
  <2>4. RowsStep BY <1>2, <2>2, <2>3 DEF RowsStep, OnceInv, RowOnce
  <2>5. \A s \in Targets : OpSame(s) \/ OpOnce(s)'
    <3>1. CASE UNCHANGED <<pc, ctx>> BY <3>1 DEF OpSame
    <3>2. CASE EnterNext(Route[j]) BY <1>2, <3>2, EnterNextOnce
    <3>3. QED BY <1>3, <3>1, <3>2 DEF Submit
  <2>6. QED BY <2>1, <2>4, <2>5, OnceFrame
<1>4. CASE StageCompletion(j)
  <2>1. wire' = wire /\ owner' = owner BY <1>4 DEF StageCompletion, external
  <2>2. /\ queue'[j].seq = queue[j].seq /\ queue'[j].state = "absent"
        /\ \A k \in Jobs \ {j} : queue'[k] = queue[k]
    BY <1>2, <1>4 DEF StageCompletion, StageReply, NoRow
  <2>3. RowsStep BY <2>2 DEF RowsStep, OnceInv, RowOnce
  <2>4. \A s \in Targets : OpSame(s) \/ OpOnce(s)'
    BY <1>2, <1>4, EnterNextOnce DEF StageCompletion
  <2>5. QED BY <2>1, <2>3, <2>4, OnceFrame
<1>5. CASE TimePasses(j)
  <2>1. UNCHANGED <<queue, wire, owner, pc, ctx>> BY <1>5 DEF TimePasses, runtime, external
  <2>2. RowsStep BY <2>1, SameRows
  <2>3. QED BY <2>1, <2>2, OnceFrame DEF OpSame
<1>6. QED BY <1>1, <1>3, <1>4, <1>5

LEMMA PreflightOnce ==
  ASSUME NEW t \in Targets, NEW e, TypeInv, OnceInv, pc[t] = "preflight", RecordPreflight(t, e)
  PROVE  OnceInv'
<1> DEFINE j == ctx[t].job
<1>1. wire' = wire /\ owner' = owner BY DEF RecordPreflight, external
<1>2. j \in Jobs BY DEF TypeInv, JobOfOperation, WithJob
<1>3. \A k \in Jobs : queue'[k].seq = queue[k].seq /\ queue'[k].state = queue[k].state
  <2>1. CASE queue' = queue BY <2>1
  <2>2. CASE queue' = [queue EXCEPT ![j].err = e, ![j].attempt = Bump(@)]
    BY <1>2, <2>2 DEF TypeInv, TypeOK, Row
  <2>3. QED BY <2>1, <2>2 DEF RecordPreflight
<1>4. RowsStep BY <1>3 DEF RowsStep, OnceInv, RowOnce
<1>5. QED BY <1>1, <1>4, ReleaseOnce, OnceFrame DEF RecordPreflight

LEMMA ClaimOnce == ASSUME NEW t \in Targets, TypeInv, OnceInv, Claim(t) PROVE OnceInv'
<1> DEFINE j == ctx[t].job
<1>1. wire' = wire /\ owner' = owner BY DEF Claim, external
<1>2. j \in Jobs /\ queue[j].state = "pending" /\ pc[t] = "ready"
  BY DEF Claim, CanClaim, TypeInv, JobOfOperation, WithJob
<1>3. Unsent(j) /\ queue[j].seq # 0 BY <1>2 DEF OnceInv, RowOnce
<1>4. /\ queue'[j].state = "starting" /\ queue'[j].seq = queue[j].seq
      /\ \A k \in Jobs \ {j} : queue'[k] = queue[k]
  BY <1>2 DEF Claim, TypeInv, TypeOK, Row
<1>5. RowsStep BY <1>3, <1>4 DEF RowsStep, OnceInv, RowOnce
<1>6. /\ pc'[t] = "claimed" /\ ctx'[t].job = j /\ ctx'[t].reply = ctx[t].reply
      /\ ctx'[t].claim.state = "starting"
  BY <1>2 DEF Claim, TypeInv, TypeOK, Ctx, Row
<1>7. ctx[t].reply = "none" BY <1>2 DEF OnceInv, OpOnce
<1>8. Unsent(ctx[t].job)' BY <1>1, <1>3, <1>6 DEF Unsent
<1>9. OpOnce(t)' BY <1>3, <1>4, <1>6, <1>7, <1>8 DEF OpOnce
<1>10. \A s \in Targets \ {t} : OpSame(s) BY DEF Claim, TypeInv, TypeOK, OpSame
<1>11. QED BY <1>1, <1>5, <1>9, <1>10, OnceFrame

LEMMA PrepareOnce == ASSUME NEW t \in Targets, TypeInv, OnceInv, Prepare(t) PROVE OnceInv'
<1>1. UNCHANGED <<queue, wire, owner, ctx>> /\ pc[t] = "claimed" /\ pc' = [pc EXCEPT ![t] = "prepared"]
  BY DEF Prepare, external
<1>2. OpOnce(t) /\ queue[ctx[t].job].state = "starting"
  BY <1>1 DEF Prepare, Authorised, OnceInv, OpOnce
<1>3. Unsent(ctx[t].job) => Unsent(ctx[t].job)' BY <1>1 DEF Unsent
<1>4. OpOnce(t)' BY <1>1, <1>2, <1>3 DEF OpOnce, WithJob, TypeInv, TypeOK
<1>5. \A s \in Targets \ {t} : OpSame(s) BY <1>1 DEF TypeInv, TypeOK, OpSame
<1>6. QED BY <1>1, <1>4, <1>5, SameRows, OnceFrame

LEMMA WriteOnce == ASSUME NEW t \in Targets, TypeInv, OnceInv, Write(t) PROVE OnceInv'
<1> DEFINE j == ctx[t].job
           x == [job |-> j, attempt |-> ctx[t].claim.attempt, epoch |-> epoch]
<1>1. wire' = wire \cup {x} /\ x.job = j /\ owner' = owner /\ queue' = queue /\ ctx' = ctx
  BY DEF Write, durable
<1>2. pc[t] = "prepared" /\ pc' = [pc EXCEPT ![t] = "sent"] BY DEF Write
<1> HIDE DEF x
<1>3. Unsent(j) /\ ctx[t].reply = "none" /\ queue[j].seq # 0 /\ j \in Jobs /\ Route[j] = t
  BY <1>2 DEF OnceInv, OpOnce, WithJob, TypeInv, JobOfOperation
<1>4. AtMostOnce'
  BY <1>1, <1>3 DEF OnceInv, AtMostOnce, Unsent
<1>5. \A k : k # j /\ Unsent(k) => (\A w \in wire' : w.job # k) /\ (\A u \in Turns : owner'[u] # k)
  BY <1>1 DEF Unsent
<1>6. queue[j].state # "pending"
  BY <1>2 DEF OnceInv, OpOnce
<1>7. \A k \in Jobs : RowOnce(k)'
  BY <1>1, <1>3, <1>5, <1>6 DEF OnceInv, RowOnce, Unsent
<1>8. OpOnce(t)'
  BY <1>1, <1>2, <1>3 DEF OpOnce, TypeInv, TypeOK
<1>9. ASSUME NEW s \in Targets \ {t} PROVE OpOnce(s)'
  <2>1. pc'[s] = pc[s] BY <1>2 DEF TypeInv, TypeOK
  <2>2. OpOnce(s) BY DEF OnceInv
  <2>3. pc[s] \in WithJob => ctx[s].job # j
    BY <1>3 DEF TypeInv, JobOfOperation
  <2>4. pc[s] \in WithJob /\ Unsent(ctx[s].job) => Unsent(ctx[s].job)'
    BY <1>1, <1>5, <2>3 DEF Unsent
  <2>5. QED BY <1>1, <2>1, <2>2, <2>4 DEF OpOnce, WithJob
<1>10. QED BY <1>4, <1>7, <1>8, <1>9 DEF OnceInv

LEMMA ReleasingOnce ==
  ASSUME NEW t \in Targets, TypeInv, OnceInv, Release(t), RowsStep, UNCHANGED <<wire, owner>>
  PROVE  OnceInv'
  BY ReleaseOnce, OnceFrame

LEMMA StartTurnOnce == ASSUME TypeInv, OnceInv, StartTurn PROVE OnceInv'
<1>1. PICK t \in Targets :
        \/ KickTarget(t) \/ SelectHead(t) \/ Decline(t)
        \/ PreflightOk(t) \/ PreflightFail(t) \/ PreflightHeld(t) \/ PreflightUnknown(t)
        \/ Claim(t) \/ ClaimRefused(t)
        \/ Prepare(t) \/ Write(t) \/ NotWritten(t)
        \/ (\E r \in Results : DispatchRefused(t, r))
        \/ Answer(t) \/ AnswerUnknown(t)
        \/ RecordRunning(t) \/ RecordFailure(t) \/ ClaimLost(t)
        \/ DropOperation(t)
  BY DEF StartTurn
<1> DEFINE j == ctx[t].job
<1>2. pc[t] \in WithJob => j \in Jobs /\ queue[j].seq # 0
  BY DEF TypeInv, JobOfOperation, OnceInv, OpOnce
<1>3. (Decline(t) \/ ClaimRefused(t) \/ ClaimLost(t) \/ DropOperation(t)) => OnceInv'
  <2>1. SUFFICES ASSUME Decline(t) \/ ClaimRefused(t) \/ ClaimLost(t) \/ DropOperation(t)
                 PROVE  OnceInv'
    OBVIOUS
  <2>2. Release(t) /\ UNCHANGED <<queue, wire, owner>>
    BY <2>1 DEF Decline, ClaimRefused, ClaimLost, DropOperation, durable, external
  <2>3. QED BY <2>2, SameRows, ReleasingOnce
<1>4. CASE KickTarget(t)
  <2>1. EnterNext(t) /\ UNCHANGED <<queue, wire, owner>>
    BY <1>4 DEF KickTarget, durable, external
  <2>2. QED BY <2>1, SameRows, EnterNextOnce, OnceFrame
<1>5. CASE SelectHead(t) \/ PreflightOk(t)
  <2>1. UNCHANGED <<queue, wire, owner>>
    BY <1>5 DEF SelectHead, PreflightOk, durable, external
  <2>2. pc'[t] \in {"adopt", "ready", "preflight"} /\ ctx'[t].reply = ctx[t].reply
    <3>1. pc'[t] \in {"adopt", "ready", "preflight"}
      BY <1>5 DEF SelectHead, PreflightOk, TypeInv, TypeOK
    <3>2. CASE SelectHead(t) BY <3>2 DEF SelectHead, TypeInv, TypeOK, Ctx
    <3>3. CASE PreflightOk(t) BY <3>3 DEF PreflightOk, TypeInv, TypeOK, Ctx
    <3>4. QED BY <1>5, <3>1, <3>2, <3>3
  <2>3. pc[t] # "sent" BY <1>5 DEF SelectHead, PreflightOk
  <2>4. ctx'[t].job \in Jobs /\ queue[ctx'[t].job].seq # 0
    <3>1. CASE SelectHead(t)
      <4>1. PICK k \in Jobs : CanSelect(k, t) /\ ctx' = [ctx EXCEPT ![t].job = k, ![t].claim = queue[k]]
        BY <3>1 DEF SelectHead
      <4>2. queue[k].seq # 0
        BY <4>1 DEF CanSelect, IsHead, Startable, OnceInv, RowOnce
      <4>3. ctx'[t].job = k BY <4>1 DEF TypeInv, TypeOK, Ctx
      <4>4. QED BY <4>2, <4>3
    <3>2. CASE PreflightOk(t)
      BY <1>2, <3>2 DEF PreflightOk, TypeInv, TypeOK, Ctx, WithJob
    <3>3. QED BY <1>5, <3>1, <3>2
  <2>5. OpOnce(t)' BY <2>1, <2>2, <2>3, <2>4 DEF OpOnce, OnceInv
  <2>6. \A s \in Targets \ {t} : OpSame(s)
    BY <1>5 DEF SelectHead, PreflightOk, TypeInv, TypeOK, OpSame
  <2>7. QED BY <2>1, <2>5, <2>6, SameRows, OnceFrame
<1>6. (PreflightFail(t) \/ PreflightHeld(t) \/ PreflightUnknown(t)) => OnceInv'
  BY PreflightOnce DEF PreflightFail, PreflightHeld, PreflightUnknown
<1>7. CASE \E r \in Results : DispatchRefused(t, r)
  <2>1. PICK r \in Results : DispatchRefused(t, r) BY <1>7
  <2>2. UNCHANGED <<queue, wire, owner>> BY <2>1 DEF DispatchRefused, durable, external
  <2>3. Unsent(j) /\ pc[t] = "claimed" /\ r # "none" BY <2>1 DEF DispatchRefused, OnceInv, OpOnce
  <2>4. QED BY <2>1, <2>2, <2>3, SameRows, AnsweredOnce, OnceFrame DEF DispatchRefused, WithJob
<1>8. CASE Answer(t)
  <2>1. UNCHANGED <<queue, wire, owner>> /\ pc[t] = "sent" BY <1>8 DEF Answer, external
  <2>2. ctx[t].reply \in Replies BY DEF TypeInv, TypeOK, Ctx
  <2>3. \E r \in Results : /\ Answered(t, r) /\ r # "none"
                           /\ r \in {"definite", "held"} => ctx[t].reply \in {"rejected", "limited"}
    BY <1>8, <2>2 DEF Answer, Replies, Results
  <2>4. PICK r \in Results : Answered(t, r) /\ r # "none" /\ (r \in {"definite", "held"} => Unsent(j))
    BY <2>1, <2>3 DEF OnceInv, OpOnce
  <2>5. QED BY <2>1, <2>4, SameRows, AnsweredOnce, OnceFrame DEF WithJob
<1>9. CASE AnswerUnknown(t) \/ NotWritten(t)
  <2>1. UNCHANGED <<queue, wire, owner>> /\ pc[t] \in {"prepared", "sent"} /\ Answered(t, "ambiguous")
    BY <1>9 DEF AnswerUnknown, NotWritten, durable, external
  <2>2. QED BY <2>1, SameRows, AnsweredOnce, OnceFrame DEF WithJob, Results
<1>10. CASE RecordRunning(t)
  <2>1. UNCHANGED <<wire, owner>> /\ Release(t) BY <1>10 DEF RecordRunning, external
  <2>2. /\ \A k \in Jobs : queue'[k].seq = queue[k].seq
        /\ \A k \in Jobs \ {j} : queue'[k] = queue[k]
        /\ queue'[j].state = "running" /\ j \in Jobs
    BY <1>2, <1>10 DEF RecordRunning, TypeInv, TypeOK, Row, WithJob
  <2>3. RowsStep BY <1>2, <1>10, <2>2 DEF RowsStep, OnceInv, RowOnce, RecordRunning, WithJob
  <2>4. QED BY <2>1, <2>3, ReleasingOnce
<1>11. CASE RecordFailure(t)
  <2>1. UNCHANGED <<wire, owner>> /\ Release(t) BY <1>11 DEF RecordFailure, external
  <2>2. /\ \A k \in Jobs : queue'[k].seq = queue[k].seq
        /\ \A k \in Jobs \ {j} : queue'[k] = queue[k]
        /\ queue'[j].state = StateAfter(ctx[t].result) /\ j \in Jobs
    BY <1>2, <1>11 DEF RecordFailure, TypeInv, TypeOK, Row, WithJob
  <2>3. ctx[t].result \in Results BY DEF TypeInv, TypeOK, Ctx
  <2>4. queue'[j].state = "pending" => Unsent(j)
    BY <1>11, <2>2, <2>3 DEF RecordFailure, StateAfter, OnceInv, OpOnce, Results
  <2>5. RowsStep
    <3>1. queue[j].state = "starting"
      BY <1>11 DEF RecordFailure, ClaimKept
    <3>2. queue'[j].state \in {"pending", "starting"}
      BY <2>2, <2>3 DEF StateAfter, Results
    <3>3. Settling(j) BY <1>11 DEF RecordFailure, Settling
    <3>4. QED BY <1>2, <2>2, <2>4, <3>1, <3>2, <3>3 DEF RowsStep, OnceInv, RowOnce, WithJob
  <2>6. QED BY <2>1, <2>5, ReleasingOnce
<1>12. QED BY <1>1, <1>3, <1>4, <1>5, <1>6, <1>7, <1>8, <1>9, <1>10, <1>11, ClaimOnce, PrepareOnce, WriteOnce

LEMMA ControlOnce == ASSUME TypeInv, OnceInv, Control PROVE OnceInv'
<1>1. PICK t \in Targets : Stop(t) \/ CancelLatestPending(t) \/ CancelForRecovery(t)
  BY DEF Control
<1>2. UNCHANGED <<wire, owner, pc, ctx>>
  BY <1>1 DEF Stop, CancelLatestPending, CancelForRecovery, runtime, external
<1>3. \/ queue' = queue
      \/ \E S : queue' = [k \in Jobs |-> IF k \in S THEN [NoRow EXCEPT !.seq = queue[k].seq] ELSE queue[k]]
  BY <1>1 DEF Stop, CancelLatestPending, CancelForRecovery, Forget
<1>4. \A k \in Jobs : queue'[k].seq = queue[k].seq /\ queue'[k].state \in {queue[k].state, "absent"}
  BY <1>3 DEF NoRow
<1>5. RowsStep BY <1>4 DEF RowsStep, OnceInv, RowOnce
<1>6. QED BY <1>2, <1>5, OnceFrame DEF OpSame

LEMMA LifeOnce == ASSUME TypeInv, OnceInv, Life PROVE OnceInv'
<1>1. wire' \subseteq wire /\ owner' = owner
  BY DEF Life, SealConnection, ServerDies, Capture, ReplaceServer, Crash, StartWorkers, RetireResume, external
<1>2. \A k \in Jobs : queue'[k].seq = queue[k].seq /\ queue'[k].state = queue[k].state
  <2>1. CASE queue' = queue BY <2>1
  <2>2. ASSUME NEW t \in Targets, RetireResume(t)
        PROVE  \A k \in Jobs : queue'[k].seq = queue[k].seq /\ queue'[k].state = queue[k].state
    <3>1. \A r \in Row : [r EXCEPT !.err = ""].seq = r.seq /\ [r EXCEPT !.err = ""].state = r.state
      BY DEF Row
    <3>2. \A k \in Jobs : queue[k] \in Row BY DEF TypeInv, TypeOK
    <3>3. \A k \in Jobs : queue'[k] \in {queue[k], [queue[k] EXCEPT !.err = ""]}
      BY <2>2 DEF RetireResume
    <3>4. QED BY <3>1, <3>2, <3>3
  <2>3. QED BY <2>1, <2>2 DEF Life, SealConnection, ServerDies, Capture, ReplaceServer, Crash, StartWorkers, durable
<1>3. RowsStep BY <1>2 DEF RowsStep, OnceInv, RowOnce
<1>4. \A s \in Targets : OpSame(s) \/ OpOnce(s)'
  <2>1. CASE Crash BY <2>1 DEF Crash, OpOnce, WithJob, Idle
  <2>2. CASE UNCHANGED <<pc, ctx>> BY <2>2 DEF OpSame
  <2>3. QED BY <2>1, <2>2 DEF Life, SealConnection, ServerDies, Capture, ReplaceServer, StartWorkers, RetireResume, runtime
<1>5. QED BY <1>1, <1>3, <1>4, OnceFrame

LEMMA RecoverOnce == ASSUME TypeInv, OnceInv, Recover PROVE OnceInv'
<1>1. PICK t \in Targets :
        \/ (\E g \in 1..gen : Mutate(t, g) \/ Observe(t, g))
        \/ Adopt(t)
        \/ ReconcileRunning(t) \/ ReconcileBind(t) \/ ReconcileEmpty(t)
        \/ ReconcileMany(t) \/ ReconcileNothing(t)
  BY DEF Recover
<1> DEFINE j == ctx[t].job
<1>2. UNCHANGED <<wire, owner>>
  BY <1>1 DEF Mutate, Observe, Adopt, ReconcileRunning, ReconcileBind, ReconcileEmpty,
              ReconcileMany, ReconcileNothing, external
<1>3. CASE \E g \in 1..gen : Mutate(t, g) \/ Observe(t, g)
  <2>1. PICK g : Mutate(t, g) \/ Observe(t, g) BY <1>3
  <2>2. queue' = queue BY <2>1 DEF Mutate, Observe, durable
  <2>3. /\ pc'[t] \in {"preflight", "observed"} /\ ctx'[t].reply = "none"
        /\ ctx'[t].job \in Jobs /\ queue[ctx'[t].job].state # "absent"
    <3>1. CASE Mutate(t, g)
      BY <3>1 DEF Mutate, IsHead, Startable, TypeInv, TypeOK, Idle
    <3>2. CASE Observe(t, g)
      BY <3>2 DEF Observe, Owners, TypeInv, TypeOK, Idle
    <3>3. QED BY <2>1, <3>1, <3>2
  <2>4. queue'[ctx'[t].job].seq # 0 BY <2>2, <2>3 DEF OnceInv, RowOnce
  <2>5. OpOnce(t)' BY <2>3, <2>4 DEF OpOnce
  <2>6. \A s \in Targets \ {t} : OpSame(s) BY <2>1 DEF Mutate, Observe, TypeInv, TypeOK, OpSame
  <2>7. QED BY <1>2, <2>2, <2>5, <2>6, SameRows, OnceFrame
<1>4. CASE Adopt(t)
  <2>1. \A k \in Jobs : queue'[k].seq = queue[k].seq /\ queue'[k].state = queue[k].state
    <3>1. \A r \in Row : [r EXCEPT !.gen = ctx[t].gen].seq = r.seq /\ [r EXCEPT !.gen = ctx[t].gen].state = r.state
      BY DEF Row
    <3>2. \A k \in Jobs : queue[k] \in Row BY DEF TypeInv, TypeOK
    <3>3. \A k \in Jobs : queue'[k] \in {queue[k], [queue[k] EXCEPT !.gen = ctx[t].gen]}
      BY <1>4 DEF Adopt
    <3>4. QED BY <3>1, <3>2, <3>3
  <2>2. RowsStep BY <2>1 DEF RowsStep, OnceInv, RowOnce
  <2>3. CASE Release(t) BY <1>2, <2>2, <2>3, ReleasingOnce
  <2>4. CASE /\ pc' = [pc EXCEPT ![t] = "next"]
             /\ ctx' = [ctx EXCEPT ![t].job = NoJob, ![t].claim = NoRow]
    <3>1. pc'[t] = "next" /\ ctx'[t].reply = ctx[t].reply BY <2>4 DEF TypeInv, TypeOK, Ctx
    <3>2. ctx[t].reply = "none" BY <1>4 DEF Adopt, OnceInv, OpOnce
    <3>3. OpOnce(t)' BY <3>1, <3>2 DEF OpOnce, WithJob
    <3>4. \A s \in Targets \ {t} : OpSame(s) BY <2>4 DEF TypeInv, TypeOK, OpSame
    <3>5. QED BY <1>2, <2>2, <3>3, <3>4, OnceFrame
  <2>5. QED BY <1>4, <2>3, <2>4 DEF Adopt
<1>5. CASE \/ ReconcileRunning(t) \/ ReconcileBind(t) \/ ReconcileEmpty(t)
           \/ ReconcileMany(t) \/ ReconcileNothing(t)
  <2>1. pc[t] = "observed" /\ j \in Jobs /\ queue[j].seq # 0 /\ ctx[t].reply = "none"
    BY <1>5 DEF ReconcileRunning, ReconcileBind, ReconcileEmpty, ReconcileMany, ReconcileNothing,
                Reconcilable, TypeInv, JobOfOperation, WithJob, OnceInv, OpOnce
  <2>2. \/ queue' = queue
        \/ \E u : queue' = [queue EXCEPT ![j].state = "running", ![j].turn = u]
        \/ \E e : queue' = [queue EXCEPT ![j].err = e]
    BY <1>5 DEF ReconcileRunning, ReconcileBind, ReconcileEmpty, ReconcileMany, ReconcileNothing, durable
  <2> DEFINE Kept == \A k \in Jobs :
               /\ queue'[k].seq = queue[k].seq
               /\ queue'[k].state = queue[k].state \/ (queue'[k].state = "running" /\ k = j)
  <2>3. Kept
    <3>1. CASE queue' = queue BY <3>1
    <3>2. ASSUME NEW u, queue' = [queue EXCEPT ![j].state = "running", ![j].turn = u] PROVE Kept
      BY <2>1, <3>2 DEF TypeInv, TypeOK, Row
    <3>3. ASSUME NEW e, queue' = [queue EXCEPT ![j].err = e] PROVE Kept
      BY <2>1, <3>3 DEF TypeInv, TypeOK, Row
    <3>4. QED BY <2>2, <3>1, <3>2, <3>3
  <2>4. RowsStep BY <2>1, <2>3 DEF RowsStep, OnceInv, RowOnce
  <2>5. Release(t) \/ EnterAdopt(t)
    BY <1>5 DEF ReconcileRunning, ReconcileBind, ReconcileEmpty, ReconcileMany, ReconcileNothing
  <2>6. CASE Release(t) BY <1>2, <2>4, <2>6, ReleasingOnce
  <2>7. CASE EnterAdopt(t)
    <3>1. OpOnce(t)' BY <2>1, <2>7 DEF EnterAdopt, OpOnce, WithJob, TypeInv, TypeOK
    <3>2. \A s \in Targets \ {t} : OpSame(s) BY <2>7 DEF EnterAdopt, TypeInv, TypeOK, OpSame
    <3>3. QED BY <1>2, <2>4, <3>1, <3>2, OnceFrame
  <2>8. QED BY <2>5, <2>6, <2>7
<1>6. QED BY <1>1, <1>3, <1>4, <1>5

\* The answer to request w reaches only an operation that waits for w.
LEMMA ReplyOnce ==
  ASSUME NEW w \in wire, NEW r \in Replies, NEW u, TypeInv, Reply(w, r, u), pc' = pc, NEW t \in Targets
  PROVE  /\ ctx'[t].job = ctx[t].job /\ ctx'[t].claim = ctx[t].claim /\ ctx'[t].result = ctx[t].result
         /\ \/ ctx'[t].reply = ctx[t].reply
            \/ pc[t] = "sent" /\ ctx[t].job = w.job /\ ctx'[t].reply = r
<1>1. CASE ctx' = ctx BY <1>1
<1>2. CASE Awaited(w) /\ ctx' = [ctx EXCEPT ![Route[w.job]].reply = r, ![Route[w.job]].turn = u]
  BY <1>2 DEF Awaited, TypeInv, TypeOK, Ctx
<1>3. QED BY <1>1, <1>2 DEF Reply

LEMMA ServerOnce == ASSUME TypeInv, OnceInv, Server PROVE OnceInv'
<1>1. ASSUME NEW w \in wire, NEW u \in Turns, ServerAccept(w, u) PROVE OnceInv'
  <2>1. /\ wire' = wire \ {w} /\ owner' = [owner EXCEPT ![u] = w.job] /\ queue' = queue /\ pc' = pc
        /\ w.job \in Jobs
    BY <1>1 DEF ServerAccept, durable, TypeInv, TypeOK, Wire
  <2>2. owner \in [Turns -> Jobs \cup {NoJob}] BY DEF TypeInv, TypeOK
  <2>3. AtMostOnce' BY <2>1, <2>2 DEF OnceInv, AtMostOnce
  <2>4. ASSUME NEW k, Unsent(k) PROVE (\A x \in wire' : x.job # k) /\ (\A v \in Turns : owner'[v] # k)
    BY <2>1, <2>2, <2>4 DEF Unsent
  <2>5. \A k \in Jobs : RowOnce(k)' BY <2>1, <2>4 DEF OnceInv, RowOnce, Unsent
  <2>6. ASSUME NEW t \in Targets PROVE OpOnce(t)'
    <3>1. OpOnce(t) BY DEF OnceInv
    <3>2. /\ ctx'[t].job = ctx[t].job /\ ctx'[t].claim = ctx[t].claim /\ ctx'[t].result = ctx[t].result
          /\ \/ ctx'[t].reply = ctx[t].reply
             \/ pc[t] = "sent" /\ ctx'[t].reply = "started"
      BY <1>1, <2>1, ReplyOnce DEF ServerAccept, Replies
    <3>3. Unsent(ctx[t].job) => Unsent(ctx[t].job)' BY <2>4, <3>2 DEF Unsent
    <3>4. QED BY <2>1, <3>1, <3>2, <3>3 DEF OpOnce
  <2>7. QED BY <2>3, <2>5, <2>6 DEF OnceInv
<1>2. ASSUME NEW w \in wire, NEW r \in Replies, ServerReject(w, r) PROVE OnceInv'
  <2>1. wire' = wire \ {w} /\ owner' = owner /\ queue' = queue /\ pc' = pc
    BY <1>2 DEF ServerReject, durable
  <2>2. AtMostOnce' BY <2>1 DEF OnceInv, AtMostOnce
  <2>3. \A k \in Jobs : RowOnce(k)' BY <2>1 DEF OnceInv, RowOnce, Unsent
  <2>4. (\A x \in wire' : x.job # w.job) /\ (\A v \in Turns : owner'[v] # w.job)
    BY <2>1 DEF OnceInv, AtMostOnce
  <2>5. ASSUME NEW t \in Targets PROVE OpOnce(t)'
    <3>1. OpOnce(t) BY DEF OnceInv
    <3>2. /\ ctx'[t].job = ctx[t].job /\ ctx'[t].claim = ctx[t].claim /\ ctx'[t].result = ctx[t].result
          /\ \/ ctx'[t].reply = ctx[t].reply
             \/ pc[t] = "sent" /\ ctx[t].job = w.job
      BY <1>2, <2>1, ReplyOnce DEF ServerReject
    <3>3. Unsent(ctx[t].job) => Unsent(ctx[t].job)' BY <2>1, <3>2 DEF Unsent
    <3>4. ctx[t].job = w.job => Unsent(ctx[t].job)' BY <2>4, <3>2 DEF Unsent
    <3>5. QED BY <2>1, <3>1, <3>2, <3>3, <3>4 DEF OpOnce
  <2>6. QED BY <2>2, <2>3, <2>5 DEF OnceInv
<1>3. ASSUME UNCHANGED <<queue, wire, owner, pc, ctx>> PROVE OnceInv'
  BY <1>3, SameRows, OnceFrame DEF OpSame
<1>4. QED BY <1>1, <1>2, <1>3 DEF Server, ServerCompletes, ForeignTurn, durable, runtime

LEMMA InitOnce == Init => OnceInv
<1> SUFFICES ASSUME Init PROVE OnceInv OBVIOUS
<1>1. \A j \in Jobs : Unsent(j) BY TurnQueueAssumption DEF Init, Unsent
<1>2. AtMostOnce BY DEF Init, AtMostOnce
<1>3. \A j \in Jobs : RowOnce(j) BY <1>1 DEF Init, RowOnce, NoRow
<1>4. \A t \in Targets : OpOnce(t) BY DEF Init, OpOnce, WithJob, Idle
<1>5. QED BY <1>2, <1>3, <1>4 DEF OnceInv

LEMMA OnceInductive == TypeInv /\ OnceInv /\ [Next]_vars => OnceInv'
<1> SUFFICES ASSUME TypeInv, OnceInv, [Next]_vars PROVE OnceInv' OBVIOUS
<1>1. CASE UNCHANGED vars
  <2>1. UNCHANGED <<queue, wire, owner, pc, ctx>> BY <1>1 DEF vars, durable, runtime, external
  <2>2. QED BY <2>1, SameRows, OnceFrame DEF OpSame
<1>2. QED BY <1>1, RequestsOnce, StartTurnOnce, RecoverOnce, ControlOnce, ServerOnce, LifeOnce DEF Next

\* No request is executed twice, whatever crashes, deaths, timeouts and retries
\* happen: at most one turn/start of it is accepted or can still be.
THEOREM ExecutedAtMostOnce == Spec => []AtMostOnce
<1>1. TypeInv /\ OnceInv => AtMostOnce BY DEF OnceInv
<1>2. QED BY <1>1, InitType, TypeInductive, InitOnce, OnceInductive, PTL DEF Spec

\* A Pending row was never accepted, so recovery may start it.
THEOREM PendingWasNeverSent == Spec => []PendingIsUnsent
<1>1. TypeInv /\ OnceInv => PendingIsUnsent BY DEF OnceInv, RowOnce, PendingIsUnsent
<1>2. QED BY <1>1, InitType, TypeInductive, InitOnce, OnceInductive, PTL DEF Spec

-----------------------------------------------------------------------------
(* One owner per thread *)

IsOwner(j) == queue[j].state \in {"starting", "running"}

Choosing == {"preflight", "ready"}

\* try_begin_attempt does not look at the other rows of the thread: that the thread
\* has no owner must hold from the choice of the head to its claim.
OwnerInv ==
    /\ OneOwnerPerTarget
    /\ \A t \in Targets : pc[t] \in Choosing => Owners(t) = {}

\* Only a claim makes an owner, and a head is chosen only when there is none.
NoNewOwner ==
    /\ \A j \in Jobs : IsOwner(j)' => IsOwner(j)
    /\ \A t \in Targets : pc'[t] \in Choosing => pc[t] \in Choosing \/ Owners(t) = {}

LEMMA OwnerFrame == ASSUME OwnerInv, NoNewOwner PROVE OwnerInv'
  BY DEF OwnerInv, NoNewOwner, IsOwner, OneOwnerPerTarget, Owners

LEMMA QuietOwner ==
  ASSUME TypeInv, \A j \in Jobs : queue'[j].state \in {queue[j].state, "absent"},
         \A t \in Targets : pc'[t] = pc[t] \/ pc'[t] \notin Choosing
  PROVE  NoNewOwner
  BY DEF NoNewOwner, IsOwner

LEMMA ReleasePoint ==
  ASSUME TypeInv, NEW t \in Targets, Release(t) \/ EnterNext(t)
  PROVE  \A s \in Targets : pc'[s] = pc[s] \/ pc'[s] \notin Choosing
  BY DEF TypeInv, TypeOK, Release, EnterNext, Choosing

LEMMA RequestsOwner == ASSUME TypeInv, OwnerInv, Requests PROVE OwnerInv'
<1>1. PICK j \in Jobs : Submit(j) \/ StageCompletion(j) \/ TimePasses(j)
  BY DEF Requests
<1>2. queue \in [Jobs -> Row] /\ Route[j] \in Targets BY TurnQueueAssumption DEF TypeInv, TypeOK
<1>3. \A k \in Jobs : queue'[k].state \in {queue[k].state, "absent", "pending"}
  BY <1>1, <1>2 DEF Submit, StageCompletion, StageReply, TimePasses, NoRow
<1>4. UNCHANGED <<pc, ctx>> \/ EnterNext(Route[j])
  BY <1>1 DEF Submit, StageCompletion, TimePasses, runtime
<1>5. \A s \in Targets : pc'[s] = pc[s] \/ pc'[s] \notin Choosing
  BY <1>2, <1>4, ReleasePoint
<1>6. NoNewOwner BY <1>3, <1>5 DEF NoNewOwner, IsOwner
<1>7. QED BY <1>6, OwnerFrame

LEMMA ClaimOwner == ASSUME NEW t \in Targets, TypeInv, OwnerInv, Claim(t) PROVE OwnerInv'
<1> DEFINE j == ctx[t].job
<1>1. pc[t] = "ready" /\ pc' = [pc EXCEPT ![t] = "claimed"] BY DEF Claim
<1>2. j \in Jobs /\ Route[j] = t BY <1>1 DEF TypeInv, JobOfOperation, WithJob
<1>3. Owners(t) = {} BY <1>1 DEF OwnerInv, Choosing
<1>4. \A k \in Jobs \ {j} : queue'[k] = queue[k] BY <1>2 DEF Claim, TypeInv, TypeOK
<1>5. OneOwnerPerTarget'
  BY <1>2, <1>3, <1>4 DEF OwnerInv, OneOwnerPerTarget, Owners
<1>6. \A s \in Targets : pc'[s] \in Choosing => s # t /\ pc[s] \in Choosing
  BY <1>1 DEF TypeInv, TypeOK, Choosing
<1>7. \A s \in Targets \ {t} : Owners(s)' = Owners(s)
  BY <1>2, <1>4 DEF Owners
<1>8. QED BY <1>5, <1>6, <1>7 DEF OwnerInv

LEMMA StartTurnOwner == ASSUME TypeInv, OwnerInv, StartTurn PROVE OwnerInv'
<1>1. PICK t \in Targets :
        \/ KickTarget(t) \/ SelectHead(t) \/ Decline(t)
        \/ PreflightOk(t) \/ PreflightFail(t) \/ PreflightHeld(t) \/ PreflightUnknown(t)
        \/ Claim(t) \/ ClaimRefused(t)
        \/ Prepare(t) \/ Write(t) \/ NotWritten(t)
        \/ (\E r \in Results : DispatchRefused(t, r))
        \/ Answer(t) \/ AnswerUnknown(t)
        \/ RecordRunning(t) \/ RecordFailure(t) \/ ClaimLost(t)
        \/ DropOperation(t)
  BY DEF StartTurn
<1> DEFINE j == ctx[t].job
<1>2. CASE SelectHead(t)
  <2>1. Owners(t) = {} BY <1>2 DEF SelectHead, CanSelect, IsHead
  <2>2. QED BY <1>2, <2>1, OwnerFrame DEF SelectHead, NoNewOwner, IsOwner, TypeInv, TypeOK, durable
<1>3. CASE PreflightOk(t)
  BY <1>3, OwnerFrame DEF PreflightOk, NoNewOwner, IsOwner, TypeInv, TypeOK, durable, Choosing
<1>4. CASE \/ KickTarget(t) \/ Decline(t) \/ ClaimRefused(t) \/ ClaimLost(t) \/ DropOperation(t)
  <2>1. queue' = queue /\ (Release(t) \/ EnterNext(t))
    BY <1>4 DEF KickTarget, Decline, ClaimRefused, ClaimLost, DropOperation, durable
  <2>2. QED BY <2>1, ReleasePoint, QuietOwner, OwnerFrame
<1>5. CASE PreflightFail(t) \/ PreflightHeld(t) \/ PreflightUnknown(t)
  <2>1. PICK e : RecordPreflight(t, e) /\ pc[t] = "preflight"
    BY <1>5 DEF PreflightFail, PreflightHeld, PreflightUnknown
  <2>2. Release(t) BY <2>1 DEF RecordPreflight
  <2>3. j \in Jobs BY <2>1 DEF TypeInv, JobOfOperation, WithJob
  <2>4. \A k \in Jobs : queue'[k].state = queue[k].state
    BY <2>1, <2>3 DEF RecordPreflight, TypeInv, TypeOK, Row
  <2>5. QED BY <2>2, <2>4, ReleasePoint, QuietOwner, OwnerFrame
<1>6. CASE \/ Prepare(t) \/ Write(t) \/ NotWritten(t)
           \/ (\E r \in Results : DispatchRefused(t, r)) \/ Answer(t) \/ AnswerUnknown(t)
  <2>1. queue' = queue BY <1>6 DEF Prepare, Write, NotWritten, DispatchRefused, Answer, AnswerUnknown, durable
  <2>2. pc' \in {[pc EXCEPT ![t] = "prepared"], [pc EXCEPT ![t] = "sent"], [pc EXCEPT ![t] = "answered"]}
    BY <1>6 DEF Prepare, Write, NotWritten, DispatchRefused, Answer, AnswerUnknown, Answered
  <2>3. \A s \in Targets : pc'[s] = pc[s] \/ pc'[s] \notin Choosing
    BY <2>2 DEF TypeInv, TypeOK, Choosing
  <2>4. QED BY <2>1, <2>3, QuietOwner, OwnerFrame
<1>7. CASE RecordRunning(t) \/ RecordFailure(t)
  <2>1. pc[t] = "answered" /\ ClaimKept(t) /\ Release(t) BY <1>7 DEF RecordRunning, RecordFailure
  <2>2. j \in Jobs /\ IsOwner(j)
    BY <2>1 DEF ClaimKept, IsOwner, TypeInv, JobOfOperation, WithJob
  <2>3. \A k \in Jobs \ {j} : queue'[k] = queue[k]
    BY <1>7 DEF RecordRunning, RecordFailure, TypeInv, TypeOK
  <2>4. NoNewOwner BY <2>1, <2>2, <2>3, ReleasePoint DEF NoNewOwner, IsOwner
  <2>5. QED BY <2>4, OwnerFrame
<1>8. QED BY <1>1, <1>2, <1>3, <1>4, <1>5, <1>6, <1>7, ClaimOwner

LEMMA RecoverOwner == ASSUME TypeInv, OwnerInv, Recover PROVE OwnerInv'
<1>1. PICK t \in Targets :
        \/ (\E g \in 1..gen : Mutate(t, g) \/ Observe(t, g))
        \/ Adopt(t)
        \/ ReconcileRunning(t) \/ ReconcileBind(t) \/ ReconcileEmpty(t)
        \/ ReconcileMany(t) \/ ReconcileNothing(t)
  BY DEF Recover
<1> DEFINE j == ctx[t].job
<1>2. CASE \E g \in 1..gen : Mutate(t, g)
  <2>1. Owners(t) = {} /\ queue' = queue /\ pc' = [pc EXCEPT ![t] = "preflight"]
    BY <1>2 DEF Mutate, IsHead, durable
  <2>2. QED BY <2>1, OwnerFrame DEF NoNewOwner, IsOwner, TypeInv, TypeOK
<1>3. CASE \E g \in 1..gen : Observe(t, g)
  <2>1. queue' = queue /\ pc' = [pc EXCEPT ![t] = "observed"] BY <1>3 DEF Observe, durable
  <2>2. QED BY <2>1, OwnerFrame DEF NoNewOwner, IsOwner, TypeInv, TypeOK, Choosing
<1>4. CASE Adopt(t)
  <2>1. \A k \in Jobs : queue'[k].state = queue[k].state
    BY <1>4 DEF Adopt, TypeInv, TypeOK, Row
  <2>2. \A s \in Targets : pc'[s] = pc[s] \/ pc'[s] \notin Choosing
    BY <1>4, ReleasePoint DEF Adopt, TypeInv, TypeOK, Choosing
  <2>3. QED BY <2>1, <2>2, QuietOwner, OwnerFrame
<1>5. CASE \/ ReconcileRunning(t) \/ ReconcileBind(t) \/ ReconcileEmpty(t)
           \/ ReconcileMany(t) \/ ReconcileNothing(t)
  <2>1. Release(t) \/ EnterAdopt(t)
    BY <1>5 DEF ReconcileRunning, ReconcileBind, ReconcileEmpty, ReconcileMany, ReconcileNothing
  <2>2. \A s \in Targets : pc'[s] = pc[s] \/ pc'[s] \notin Choosing
    BY <2>1, ReleasePoint DEF EnterAdopt, TypeInv, TypeOK, Choosing
  <2>3. \/ queue' = queue
        \/ (IsOwner(j) /\ \E u : queue' = [queue EXCEPT ![j].state = "running", ![j].turn = u])
        \/ \E e : queue' = [queue EXCEPT ![j].err = e]
    BY <1>5 DEF ReconcileRunning, ReconcileBind, ReconcileEmpty, ReconcileMany, ReconcileNothing,
                ClaimKept, IsOwner, durable
  <2>4. \A k \in Jobs : IsOwner(k)' => IsOwner(k)
    <3>1. CASE queue' = queue BY <3>1 DEF IsOwner
    <3>2. ASSUME NEW u, IsOwner(j), queue' = [queue EXCEPT ![j].state = "running", ![j].turn = u]
          PROVE  \A k \in Jobs : IsOwner(k)' => IsOwner(k)
      BY <3>2 DEF IsOwner, TypeInv, TypeOK
    <3>3. ASSUME NEW e, queue' = [queue EXCEPT ![j].err = e]
          PROVE  \A k \in Jobs : IsOwner(k)' => IsOwner(k)
      BY <3>3 DEF IsOwner, TypeInv, TypeOK, Row
    <3>4. QED BY <2>3, <3>1, <3>2, <3>3
  <2>5. NoNewOwner BY <2>2, <2>4 DEF NoNewOwner
  <2>6. QED BY <2>5, OwnerFrame
<1>6. QED BY <1>1, <1>2, <1>3, <1>4, <1>5

LEMMA OtherOwner == ASSUME TypeInv, OwnerInv, Control \/ Server \/ Life PROVE OwnerInv'
<1>1. \A s \in Targets : pc'[s] = pc[s] \/ pc'[s] \notin Choosing
  <2>1. CASE Crash BY <2>1 DEF Crash, Choosing
  <2>2. CASE pc' = pc BY <2>2
  <2>3. QED BY <2>1, <2>2 DEF Control, Stop, CancelLatestPending, CancelForRecovery,
      Server, ServerAccept, ServerReject, ServerCompletes, ForeignTurn,
      Life, SealConnection, ServerDies, Capture, ReplaceServer, StartWorkers, RetireResume, runtime
<1>2. \A k \in Jobs : queue'[k].state \in {queue[k].state, "absent"}
  <2>1. CASE queue' = queue BY <2>1
  <2>2. ASSUME NEW S, queue' = [k \in Jobs |-> IF k \in S THEN [NoRow EXCEPT !.seq = queue[k].seq] ELSE queue[k]]
        PROVE  \A k \in Jobs : queue'[k].state \in {queue[k].state, "absent"}
    BY <2>2 DEF NoRow
  <2>3. ASSUME NEW t \in Targets, RetireResume(t)
        PROVE  \A k \in Jobs : queue'[k].state = queue[k].state
    <3>1. \A r \in Row : [r EXCEPT !.err = ""].state = r.state BY DEF Row
    <3>2. \A k \in Jobs : queue[k] \in Row BY DEF TypeInv, TypeOK
    <3>3. \A k \in Jobs : queue'[k] \in {queue[k], [queue[k] EXCEPT !.err = ""]}
      BY <2>3 DEF RetireResume
    <3>4. QED BY <3>1, <3>2, <3>3
  <2>4. QED BY <2>1, <2>2, <2>3 DEF Control, Stop, CancelLatestPending, CancelForRecovery, Forget,
      Server, ServerAccept, ServerReject, ServerCompletes, ForeignTurn,
      Life, SealConnection, ServerDies, Capture, ReplaceServer, StartWorkers, Crash, durable
<1>3. QED BY <1>1, <1>2, QuietOwner, OwnerFrame

LEMMA InitOwner == Init => OwnerInv
<1> SUFFICES ASSUME Init PROVE OwnerInv OBVIOUS
<1>1. \A j \in Jobs : queue[j].state = "absent" BY DEF Init, NoRow
<1>2. OneOwnerPerTarget BY <1>1 DEF OneOwnerPerTarget
<1>3. \A t \in Targets : pc[t] \notin Choosing BY DEF Init, Choosing
<1>4. QED BY <1>2, <1>3 DEF OwnerInv

LEMMA OwnerInductive == TypeInv /\ OwnerInv /\ [Next]_vars => OwnerInv'
<1> SUFFICES ASSUME TypeInv, OwnerInv, [Next]_vars PROVE OwnerInv' OBVIOUS
<1>1. CASE UNCHANGED vars
  BY <1>1, QuietOwner, OwnerFrame DEF vars, durable, runtime
<1>2. QED BY <1>1, RequestsOwner, StartTurnOwner, RecoverOwner, OtherOwner DEF Next

\* Never two requests of one thread Starting or Running, although a claim, a recovery
\* and a completion of the same thread may follow each other in any order.
THEOREM ThreadHasOneOwner == Spec => []OneOwnerPerTarget
<1>1. TypeInv /\ OwnerInv => OneOwnerPerTarget BY DEF OwnerInv
<1>2. QED BY <1>1, InitType, TypeInductive, InitOwner, OwnerInductive, PTL DEF Spec

-----------------------------------------------------------------------------
(* Replies are not crossed: the inductive invariant *)

\* A turn that executes a request is in the history of that request's thread.
TurnsAreListed == \A u \in Turns : owner[u] # NoJob => u \in hist[Route[owner[u]]]

NoWire(t) == \A w \in wire : Route[w.job] # t

\* While a turn/start can still be accepted its attempt is prepared in the journal, no
\* other one of the thread is on the wire, and its operation has seen no answer.
WireIsJournaled ==
    /\ \A w \in wire : journal[Route[w.job]] = "start"
    /\ \A w, x \in wire : Route[w.job] = Route[x.job] => w.job = x.job
    /\ \A t \in Targets : pc[t] = "sent" /\ ctx[t].reply # "none" => NoWire(t)

\* An operation between the reading of the baseline and the claim.
HoldsBaseline(t) == pc[t] = "ready" \/ (pc[t] \in {"adopt", "next"} /\ ctx[t].lane = "recover")

HasTurn(t) ==
    \/ pc[t] = "sent" /\ ctx[t].reply = "started"
    \/ pc[t] = "answered" /\ ctx[t].result = "ok"

\* A baseline misses no turn of the queue, a recovery has seen only turns of the
\* thread, and an acknowledged turn executes the request it was asked for.
OpBase(t) ==
    /\ HoldsBaseline(t) => NoWire(t) /\ \A u \in hist[t] \ ctx[t].base : owner[u] = NoJob
    /\ pc[t] = "observed" => ctx[t].lane = "observe" /\ ctx[t].base \subseteq hist[t]
    /\ HasTurn(t) => ctx[t].turn \in Turns /\ owner[ctx[t].turn] = ctx[t].job

\* A committed attempt is journalled, the first of its thread on the wire, and no other
\* request of the thread is Starting.
PreparedBase(t) ==
    pc[t] = "prepared" =>
        /\ journal[t] = "start"
        /\ NoWire(t)
        /\ \A k \in Jobs : Route[k] = t /\ queue[k].state = "starting" => k = ctx[t].job

\* A turn that was handed out and does not execute another request than j.
Fits(u, j) == u \in Turns /\ ~Unused(u) /\ owner[u] \in {j, NoJob}

\* A turn beyond the baseline of a Starting row can only be that row's, or another
\* client's; what is bound or delivered fits its request.
RowBase(j) ==
    /\ queue[j].state = "starting" =>
        /\ \A u \in hist[Route[j]] \ queue[j].base : owner[u] \in {j, NoJob}
        /\ \A w \in wire : Route[w.job] = Route[j] => w.job = j
    /\ queue[j].state = "running" => Fits(queue[j].turn, j)
    /\ outbox[j] # NoTurn => Fits(outbox[j], j)

BaseInv ==
    /\ TurnsAreListed
    /\ WireIsJournaled
    /\ \A t \in Targets : OpBase(t)
    /\ \A t \in Targets : PreparedBase(t)
    /\ \A j \in Jobs : RowBase(j)

-----------------------------------------------------------------------------
(* Frames: a step that adds no turn and writes nothing to the app-server *)

\* The journal of a thread that has something on the wire, or about to be, is left alone.
JournalKept ==
    /\ \A w \in wire : journal'[Route[w.job]] = journal[Route[w.job]]
    /\ \A t \in Targets : pc[t] = "prepared" /\ pc'[t] = "prepared" => journal'[t] = journal[t]

\* The row is not started, or no attempt of its thread is under way.
NoNewStart(j) == queue'[j].state = "starting" => pc[Route[j]] # "prepared"

\* A row keeps what it was started with, leaves the queue or waits again.
RowKept(j) ==
    /\ \/ queue'[j].state \in {"absent", "pending"}
       \/ /\ queue'[j].state = queue[j].state
          /\ queue'[j].base = queue[j].base
          /\ queue'[j].turn = queue[j].turn
    /\ outbox'[j] = outbox[j]

LEMMA RowBaseKept ==
  ASSUME NEW j \in Jobs, RowBase(j), RowKept(j), wire' \subseteq wire, UNCHANGED <<hist, owner>>
  PROVE  RowBase(j)'
<1>1. \A u : Fits(u, j) => Fits(u, j)'
  BY DEF Fits, Unused
<1>2. QED BY <1>1 DEF RowBase, RowKept

LEMMA OpBaseKept ==
  ASSUME NEW t \in Targets, OpBase(t), OpSame(t), wire' \subseteq wire, UNCHANGED <<hist, owner>>
  PROVE  OpBase(t)'
  BY DEF OpBase, OpSame, HoldsBaseline, HasTurn, NoWire

LEMMA BaseFrame ==
  ASSUME TypeInv, BaseInv, wire' \subseteq wire, UNCHANGED <<hist, owner>>, JournalKept,
         \A t \in Targets : OpSame(t) \/ (OpBase(t)' /\ (pc'[t] = "sent" => NoWire(t)') /\ pc'[t] # "prepared"),
         \A j \in Jobs : RowKept(j) \/ (RowBase(j)' /\ NoNewStart(j))
  PROVE  BaseInv'
<1>1. TurnsAreListed' BY DEF BaseInv, TurnsAreListed
<1>2. WireIsJournaled' BY DEF BaseInv, WireIsJournaled, JournalKept, OpSame, NoWire
<1>3. \A t \in Targets : OpBase(t)' BY OpBaseKept DEF BaseInv
<1>4. \A j \in Jobs : RowBase(j)' BY RowBaseKept DEF BaseInv
<1>5. ASSUME NEW t \in Targets, pc'[t] = "prepared" PROVE PreparedBase(t)'
  <2>1. OpSame(t) /\ PreparedBase(t) /\ pc[t] = "prepared" BY <1>5 DEF BaseInv, OpSame
  <2>2. \A k \in Jobs : Route[k] = t /\ queue'[k].state = "starting" => queue[k].state = "starting"
    BY <2>1 DEF RowKept, NoNewStart
  <2>3. QED BY <1>5, <2>1, <2>2 DEF PreparedBase, OpSame, JournalKept, NoWire
<1>6. \A t \in Targets : PreparedBase(t)' BY <1>5 DEF PreparedBase
<1>7. QED BY <1>1, <1>2, <1>3, <1>4, <1>6 DEF BaseInv

\* The two ends of an operation need no baseline.
LEMMA PointBase ==
  ASSUME TypeInv, NEW t \in Targets, Release(t) \/ EnterNext(t)
  PROVE  \A s \in Targets : OpSame(s) \/ (OpBase(s)' /\ (pc'[s] = "sent" => NoWire(s)') /\ pc'[s] # "prepared")
<1>1. \A s \in Targets \ {t} : OpSame(s)
  BY DEF Release, EnterNext, TypeInv, TypeOK, OpSame
<1>2. CASE Release(t)
  <2>1. pc'[t] = "free" BY <1>2 DEF Release, TypeInv, TypeOK
  <2>2. QED BY <1>1, <2>1 DEF OpBase, HoldsBaseline, HasTurn
<1>3. CASE EnterNext(t)
  <2>1. pc'[t] = "next" /\ ctx'[t].lane = "direct"
    BY <1>3 DEF EnterNext, TypeInv, TypeOK, Idle
  <2>2. QED BY <1>1, <2>1 DEF OpBase, HoldsBaseline, HasTurn
<1>4. QED BY <1>2, <1>3

LEMMA SameRowsKept == ASSUME UNCHANGED <<queue, outbox>> PROVE \A j \in Jobs : RowKept(j)
  BY DEF RowKept

\* An attempt is prepared only on a thread that has nothing on the wire.
LEMMA FreshAttempt ==
  ASSUME TypeInv, BaseInv, NEW t \in Targets, NEW s, journal[t] # "start",
         journal' = [journal EXCEPT ![t] = s]
  PROVE  JournalKept
<1>1. \A w \in wire : Route[w.job] # t BY DEF BaseInv, WireIsJournaled
<1>2. \A w \in wire : Route[w.job] \in Targets
  BY TurnQueueAssumption DEF TypeInv, TypeOK, Wire
<1>3. pc[t] # "prepared" BY DEF BaseInv, PreparedBase
<1>4. QED BY <1>1, <1>2, <1>3 DEF JournalKept, TypeInv, TypeOK

-----------------------------------------------------------------------------
(* Steps *)

LEMMA RequestsBase == ASSUME TypeInv, BaseInv, Requests PROVE BaseInv'
<1>1. PICK j \in Jobs : Submit(j) \/ StageCompletion(j) \/ TimePasses(j)
  BY DEF Requests
<1>2. Route[j] \in Targets /\ queue \in [Jobs -> Row] BY TurnQueueAssumption DEF TypeInv, TypeOK
<1>3. UNCHANGED <<wire, hist, owner, journal>>
  BY <1>1 DEF Submit, StageCompletion, TimePasses, external
<1>4. JournalKept BY <1>3 DEF JournalKept
<1>5. \A s \in Targets : OpSame(s) \/ (OpBase(s)' /\ (pc'[s] = "sent" => NoWire(s)') /\ pc'[s] # "prepared")
  <2>1. UNCHANGED <<pc, ctx>> \/ EnterNext(Route[j])
    BY <1>1 DEF Submit, StageCompletion, TimePasses, runtime
  <2>2. QED BY <1>2, <2>1, PointBase DEF OpSame
<1>6. \A k \in Jobs : RowKept(k) \/ (RowBase(k)' /\ NoNewStart(k))
  <2>1. CASE Submit(j)
    BY <1>2, <2>1 DEF Submit, RowKept, NoRow
  <2>2. CASE StageCompletion(j)
    <3>1. /\ outbox' = [outbox EXCEPT ![j] = queue[j].turn]
          /\ queue' = [queue EXCEPT ![j] = [NoRow EXCEPT !.seq = queue[j].seq]]
          /\ queue[j].state = "running"
      BY <2>2 DEF StageCompletion, StageReply, Stageable
    <3>2. Fits(queue[j].turn, j) BY <3>1 DEF BaseInv, RowBase
    <3>3. outbox'[j] = queue[j].turn /\ queue'[j].state = "absent"
      BY <1>2, <3>1 DEF TypeInv, TypeOK, NoRow
    <3>4. RowBase(j)' /\ NoNewStart(j) BY <1>3, <3>2, <3>3 DEF RowBase, Fits, Unused, NoNewStart
    <3>5. \A k \in Jobs \ {j} : RowKept(k) BY <1>2, <3>1 DEF RowKept, TypeInv, TypeOK
    <3>6. QED BY <3>4, <3>5
  <2>3. CASE TimePasses(j) BY <2>3 DEF TimePasses, RowKept
  <2>4. QED BY <1>1, <2>1, <2>2, <2>3
<1>7. QED BY <1>3, <1>4, <1>5, <1>6, BaseFrame

LEMMA PreflightBase ==
  ASSUME NEW t \in Targets, NEW e, TypeInv, BaseInv, pc[t] = "preflight", RecordPreflight(t, e),
         JournalKept
  PROVE  BaseInv'
<1> DEFINE j == ctx[t].job
<1>1. UNCHANGED <<wire, hist, owner, outbox>> BY DEF RecordPreflight, external
<1>2. j \in Jobs BY DEF TypeInv, JobOfOperation, WithJob
<1>3. \A k \in Jobs : RowKept(k)
  <2>1. CASE queue' = queue BY <1>1, <2>1 DEF RowKept
  <2>2. CASE queue' = [queue EXCEPT ![j].err = e, ![j].attempt = Bump(@)]
    BY <1>1, <1>2, <2>2 DEF RowKept, TypeInv, TypeOK, Row
  <2>3. QED BY <2>1, <2>2 DEF RecordPreflight
<1>4. QED BY <1>1, <1>3, PointBase, BaseFrame DEF RecordPreflight

\* The saved baseline misses no turn of the queue, and nothing is on the wire.
LEMMA ClaimBase == ASSUME NEW t \in Targets, TypeInv, BaseInv, Claim(t) PROVE BaseInv'
<1>1. PICK j \in Jobs : j = ctx[t].job /\ Route[j] = t /\ pc[t] = "ready"
  BY DEF Claim, TypeInv, JobOfOperation, WithJob
<1>2. UNCHANGED <<wire, hist, owner, outbox, journal>> BY DEF Claim, external
<1>3. /\ queue'[j].state = "starting" /\ queue'[j].base = ctx[t].base
      /\ \A k \in Jobs \ {j} : queue'[k] = queue[k]
  BY <1>1 DEF Claim, TypeInv, TypeOK, Row
<1>4. NoWire(t) /\ \A u \in hist[t] \ ctx[t].base : owner[u] = NoJob
  BY <1>1 DEF BaseInv, OpBase, HoldsBaseline
<1>5. RowBase(j)'
  <2>1. outbox[j] # NoTurn => Fits(outbox[j], j) BY <1>1 DEF BaseInv, RowBase
  <2>2. QED BY <1>2, <1>1, <1>3, <1>4, <2>1 DEF RowBase, NoWire, Fits, Unused
<1>6. \A k \in Jobs \ {j} : RowKept(k) BY <1>2, <1>3 DEF RowKept
<1>7. pc'[t] = "claimed" BY DEF Claim, TypeInv, TypeOK
<1>8. OpBase(t)' BY <1>7 DEF OpBase, HoldsBaseline, HasTurn
<1>9. \A s \in Targets \ {t} : OpSame(s) BY DEF Claim, TypeInv, TypeOK, OpSame
<1>10. NoNewStart(j) /\ JournalKept BY <1>1, <1>2 DEF NoNewStart, JournalKept
<1>11. QED BY <1>2, <1>5, <1>6, <1>7, <1>8, <1>9, <1>10, BaseFrame

\* The claim is the only owner of its thread, so its request fits every Starting row.
LEMMA PrepareBase ==
  ASSUME NEW t \in Targets, TypeInv, OnceInv, OwnerInv, BaseInv, Prepare(t) PROVE BaseInv'
<1> DEFINE j == ctx[t].job
<1>1. /\ UNCHANGED <<wire, owner, hist, queue, ctx, outbox>>
      /\ pc[t] = "claimed" /\ pc' = [pc EXCEPT ![t] = "prepared"]
      /\ journal' = [journal EXCEPT ![t] = "start"] /\ journal[t] = "none"
  BY DEF Prepare, Authorised, Unblocked, external
<1>2. j \in Jobs /\ Route[j] = t BY <1>1 DEF TypeInv, JobOfOperation, WithJob
<1>3. NoWire(t) BY <1>1 DEF NoWire, BaseInv, WireIsJournaled
<1>4. queue[j].state = "starting" BY <1>1 DEF OnceInv, OpOnce, Prepare, Authorised
<1>5. TurnsAreListed' BY <1>1 DEF BaseInv, TurnsAreListed
<1>6. \A s \in Targets \ {t} : OpSame(s) BY <1>1 DEF TypeInv, TypeOK, OpSame
<1>7. JournalKept BY <1>1, FreshAttempt
<1>8. WireIsJournaled'
  BY <1>1, <1>6, <1>7 DEF BaseInv, WireIsJournaled, JournalKept, NoWire, OpSame, TypeInv, TypeOK
<1>9. OpBase(t)' BY <1>1 DEF OpBase, HoldsBaseline, HasTurn, TypeInv, TypeOK
<1>10. \A s \in Targets : OpBase(s)' BY <1>1, <1>6, <1>9, OpBaseKept DEF BaseInv
<1>11. PreparedBase(t)'
  <2>1. journal'[t] = "start" BY <1>1 DEF TypeInv, TypeOK
  <2>2. \A k \in Jobs : Route[k] = t /\ queue[k].state = "starting" => k = j
    BY <1>2, <1>4 DEF OwnerInv, OneOwnerPerTarget
  <2>3. QED BY <1>1, <1>3, <2>1, <2>2 DEF PreparedBase, NoWire
<1>12. ASSUME NEW s \in Targets \ {t} PROVE PreparedBase(s)'
  BY <1>1, <1>6 DEF PreparedBase, BaseInv, OpSame, NoWire, TypeInv, TypeOK
<1>13. \A k \in Jobs : RowBase(k)' BY <1>1, SameRowsKept, RowBaseKept DEF BaseInv
<1>14. QED BY <1>5, <1>8, <1>10, <1>11, <1>12, <1>13 DEF BaseInv

\* Until the write nothing else of the thread was sent or started.
LEMMA WriteBase ==
  ASSUME NEW t \in Targets, TypeInv, OnceInv, BaseInv, Write(t) PROVE BaseInv'
<1> DEFINE j == ctx[t].job
           x == [job |-> j, attempt |-> ctx[t].claim.attempt, epoch |-> epoch]
<1>1. /\ wire' = wire \cup {x} /\ x.job = j /\ UNCHANGED <<owner, hist, queue, ctx, outbox, journal>>
      /\ pc[t] = "prepared" /\ pc' = [pc EXCEPT ![t] = "sent"]
  BY DEF Write, durable
<1> HIDE DEF x
<1>2. j \in Jobs /\ Route[j] = t BY <1>1 DEF TypeInv, JobOfOperation, WithJob
<1>3. journal[t] = "start" /\ \A w \in wire : Route[w.job] # t
  BY <1>1 DEF BaseInv, PreparedBase, NoWire
<1>4. ctx[t].reply = "none"
  BY <1>1 DEF OnceInv, OpOnce
<1>5. TurnsAreListed' BY <1>1 DEF BaseInv, TurnsAreListed
<1>6. WireIsJournaled'
  <2>3. \A w \in wire' : journal'[Route[w.job]] = "start"
    BY <1>1, <1>2, <1>3 DEF BaseInv, WireIsJournaled
  <2>4. \A w, y \in wire' : Route[w.job] = Route[y.job] => w.job = y.job
    BY <1>1, <1>2, <1>3 DEF BaseInv, WireIsJournaled
  <2>5. ASSUME NEW s \in Targets, pc'[s] = "sent", ctx'[s].reply # "none" PROVE NoWire(s)'
    <3>1. s # t BY <1>1, <1>4, <2>5
    <3>2. pc[s] = "sent" /\ ctx[s].reply # "none" BY <1>1, <2>5, <3>1 DEF TypeInv, TypeOK
    <3>3. QED BY <1>1, <1>2, <3>1, <3>2 DEF NoWire, BaseInv, WireIsJournaled
  <2>6. QED BY <2>3, <2>4, <2>5 DEF WireIsJournaled
<1>7. \A s \in Targets : OpBase(s)' /\ PreparedBase(s)'
  <2>1. OpBase(t)' /\ PreparedBase(t)'
    <3>1. pc'[t] = "sent" BY <1>1 DEF TypeInv, TypeOK
    <3>2. QED BY <1>1, <1>4, <3>1 DEF OpBase, PreparedBase, HoldsBaseline, HasTurn
  <2>2. ASSUME NEW s \in Targets \ {t} PROVE OpBase(s)' /\ PreparedBase(s)'
    <3>1. pc'[s] = pc[s] /\ OpBase(s) /\ PreparedBase(s) BY <1>1 DEF TypeInv, TypeOK, BaseInv
    <3>2. NoWire(s) => NoWire(s)' BY <1>1, <1>2 DEF NoWire
    <3>3. QED BY <1>1, <3>1, <3>2 DEF OpBase, PreparedBase, HoldsBaseline, HasTurn
  <2>3. QED BY <2>1, <2>2
<1>8. ASSUME NEW k \in Jobs PROVE RowBase(k)'
  <2>1. queue[k].state = "starting" /\ Route[k] = t => k = j
    BY <1>1 DEF BaseInv, PreparedBase
  <2>2. RowBase(k) BY DEF BaseInv
  <2>3. \A u : Fits(u, k) => Fits(u, k)' BY <1>1 DEF Fits, Unused
  <2>4. QED BY <1>1, <1>2, <2>1, <2>2, <2>3 DEF RowBase
<1>9. QED BY <1>5, <1>6, <1>7, <1>8 DEF BaseInv

LEMMA AnsweredBase ==
  ASSUME NEW t \in Targets, NEW r \in Results, TypeInv, BaseInv, Answered(t, r),
         r = "ok" => HasTurn(t), UNCHANGED <<wire, hist, owner>>
  PROVE  \A s \in Targets : OpSame(s) \/ (OpBase(s)' /\ (pc'[s] = "sent" => NoWire(s)') /\ pc'[s] # "prepared")
<1>1. /\ pc'[t] = "answered" /\ ctx'[t].result = r /\ ctx'[t].job = ctx[t].job
      /\ r = "ok" => ctx'[t].turn = ctx[t].turn
  BY DEF Answered, TypeInv, TypeOK, Ctx
<1>2. r = "ok" => ctx[t].turn \in Turns /\ owner[ctx[t].turn] = ctx[t].job
  BY DEF BaseInv, OpBase
<1>3. OpBase(t)' BY <1>1, <1>2 DEF OpBase, HoldsBaseline, HasTurn
<1>4. \A s \in Targets \ {t} : OpSame(s) BY DEF Answered, TypeInv, TypeOK, OpSame
<1>5. QED BY <1>1, <1>3, <1>4

\* A bound turn fits its request, by the acknowledgement or by the history.
LEMMA BoundBase ==
  ASSUME TypeInv, BaseInv, NEW j \in Jobs, NEW u \in Turns, Fits(u, j),
         queue' = [queue EXCEPT ![j].state = "running", ![j].turn = u],
         UNCHANGED <<wire, hist, owner, outbox>>
  PROVE  \A k \in Jobs : RowKept(k) \/ (RowBase(k)' /\ NoNewStart(k))
<1>1. queue'[j].state = "running" /\ queue'[j].turn = u
  BY DEF TypeInv, TypeOK, Row
<1>2. \A k \in Jobs \ {j} : RowKept(k) BY DEF TypeInv, TypeOK, RowKept
<1>3. RowBase(j)'
  <2>1. outbox[j] # NoTurn => Fits(outbox[j], j) BY DEF BaseInv, RowBase
  <2>2. QED BY <1>1, <2>1 DEF RowBase, Fits, Unused
<1>4. NoNewStart(j) BY <1>1 DEF NoNewStart
<1>5. QED BY <1>2, <1>3, <1>4

LEMMA StartTurnBase == ASSUME TypeInv, OnceInv, OwnerInv, BaseInv, StartTurn PROVE BaseInv'
<1>1. PICK t \in Targets :
        \/ KickTarget(t) \/ SelectHead(t) \/ Decline(t)
        \/ PreflightOk(t) \/ PreflightFail(t) \/ PreflightHeld(t) \/ PreflightUnknown(t)
        \/ Claim(t) \/ ClaimRefused(t)
        \/ Prepare(t) \/ Write(t) \/ NotWritten(t)
        \/ (\E r \in Results : DispatchRefused(t, r))
        \/ Answer(t) \/ AnswerUnknown(t)
        \/ RecordRunning(t) \/ RecordFailure(t) \/ ClaimLost(t)
        \/ DropOperation(t)
  BY DEF StartTurn
<1>2. journal' = journal => JournalKept BY DEF JournalKept
<1>3. CASE KickTarget(t) \/ Decline(t) \/ ClaimRefused(t) \/ ClaimLost(t) \/ DropOperation(t)
  <2>1. (Release(t) \/ EnterNext(t)) /\ UNCHANGED <<queue, outbox, wire, hist, owner>>
    BY <1>3 DEF KickTarget, Decline, ClaimRefused, ClaimLost, DropOperation, durable, external
  <2>2. JournalKept
    <3>1. journal' = journal \/ (journal[t] = "none" /\ journal' = [journal EXCEPT ![t] = "resume"])
      BY <1>3 DEF KickTarget, Decline, ClaimRefused, ClaimLost, DropOperation, durable,
                  MayMutate, Unblocked
    <3>2. QED BY <1>2, <3>1, FreshAttempt
  <2>3. QED BY <2>1, <2>2, PointBase, SameRowsKept, BaseFrame
<1>4. CASE SelectHead(t)
  <2>1. UNCHANGED <<queue, outbox, wire, hist, owner, journal>> /\ pc[t] = "next"
    BY <1>4 DEF SelectHead, durable, external
  <2>2. PICK k \in Jobs : ctx' = [ctx EXCEPT ![t].job = k, ![t].claim = queue[k]]
    BY <1>4 DEF SelectHead
  <2>3. ctx'[t].lane = ctx[t].lane /\ ctx'[t].base = ctx[t].base
    BY <2>2 DEF TypeInv, TypeOK, Ctx
  <2>4. \/ pc'[t] = "preflight"
        \/ pc'[t] = "ready" /\ HoldsBaseline(t)
    BY <1>4, <2>1 DEF SelectHead, TypeInv, TypeOK, HoldsBaseline
  <2>5. OpBase(t)'
    <3>1. OpBase(t) BY DEF BaseInv
    <3>2. QED BY <2>1, <2>3, <2>4, <3>1 DEF OpBase, HoldsBaseline, HasTurn, NoWire
  <2>6. \A s \in Targets \ {t} : OpSame(s) BY <1>4 DEF SelectHead, TypeInv, TypeOK, OpSame
  <2>7. QED BY <1>2, <2>1, <2>4, <2>5, <2>6, SameRowsKept, BaseFrame
<1>5. CASE PreflightOk(t)
  <2>1. UNCHANGED <<queue, outbox, wire, hist, owner, journal>> /\ journal[t] = "none"
    BY <1>5 DEF PreflightOk, durable, external, MayMutate, Unblocked
  <2>2. ctx'[t].base = hist[t] BY <1>5 DEF PreflightOk, Baseline, TypeInv, TypeOK, Ctx
  <2>3. NoWire(t) BY <2>1 DEF NoWire, BaseInv, WireIsJournaled
  <2>4. pc'[t] \in {"adopt", "ready"} BY <1>5 DEF PreflightOk, TypeInv, TypeOK
  <2>5. OpBase(t)' BY <2>1, <2>2, <2>3, <2>4 DEF OpBase, HoldsBaseline, HasTurn, NoWire
  <2>6. \A s \in Targets \ {t} : OpSame(s) BY <1>5 DEF PreflightOk, TypeInv, TypeOK, OpSame
  <2>7. QED BY <1>2, <2>1, <2>4, <2>5, <2>6, SameRowsKept, BaseFrame
<1>6. CASE PreflightFail(t) \/ PreflightHeld(t) \/ PreflightUnknown(t)
  <2>1. PICK e : RecordPreflight(t, e) /\ pc[t] = "preflight"
    BY <1>6 DEF PreflightFail, PreflightHeld, PreflightUnknown
  <2>2. journal' = journal \/ (journal[t] = "none" /\ journal' = [journal EXCEPT ![t] = "resume"])
    BY <1>6 DEF PreflightFail, PreflightHeld, PreflightUnknown, MayMutate, Unblocked
  <2>3. JournalKept BY <1>2, <2>2, FreshAttempt
  <2>4. QED BY <2>1, <2>3, PreflightBase
<1>7. CASE \E r \in Results : DispatchRefused(t, r)
  <2>1. PICK r \in Results : DispatchRefused(t, r) BY <1>7
  <2>2. UNCHANGED <<queue, outbox, wire, hist, owner, journal>> /\ r # "ok" /\ Answered(t, r)
    BY <2>1 DEF DispatchRefused, durable, external
  <2>3. QED BY <1>2, <2>2, AnsweredBase, SameRowsKept, BaseFrame
<1>8. CASE Answer(t)
  <2>1. UNCHANGED <<queue, outbox, wire, hist, owner>> /\ pc[t] = "sent" /\ ctx[t].reply # "none"
    BY <1>8 DEF Answer, external
  <2>2. NoWire(t) BY <2>1 DEF BaseInv, WireIsJournaled
  <2>3. JournalKept
    BY <1>8, <2>2, TurnQueueAssumption DEF Answer, JournalKept, NoWire, TypeInv, TypeOK, Wire
  <2>4. ctx[t].reply \in Replies BY DEF TypeInv, TypeOK, Ctx
  <2>5. PICK r \in Results : Answered(t, r) /\ (r = "ok" => HasTurn(t))
    BY <1>8, <2>1, <2>4 DEF Answer, Replies, Results, HasTurn
  <2>6. QED BY <2>1, <2>3, <2>5, AnsweredBase, SameRowsKept, BaseFrame
<1>9. CASE AnswerUnknown(t)
  <2>1. UNCHANGED <<queue, outbox, wire, hist, owner, journal>> /\ Answered(t, "ambiguous")
    BY <1>9 DEF AnswerUnknown, durable, external
  <2>2. QED BY <1>2, <2>1, AnsweredBase, SameRowsKept, BaseFrame DEF Results
<1>13. CASE NotWritten(t)
  <2>1. /\ UNCHANGED <<queue, outbox, wire, hist, owner>> /\ pc[t] = "prepared"
        /\ Answered(t, "ambiguous") /\ journal' \in {journal, [journal EXCEPT ![t] = "none"]}
    BY <1>13 DEF NotWritten, external
  <2>2. NoWire(t) BY <2>1 DEF BaseInv, PreparedBase
  <2>3. pc'[t] = "answered" BY <2>1 DEF Answered, TypeInv, TypeOK
  <2>4. JournalKept
    BY <2>1, <2>2, <2>3, TurnQueueAssumption DEF JournalKept, NoWire, TypeInv, TypeOK, Wire
  <2>5. QED BY <2>1, <2>4, AnsweredBase, SameRowsKept, BaseFrame DEF Results
<1>10. CASE RecordRunning(t)
  <2>1. /\ UNCHANGED <<outbox, wire, hist, owner, journal>> /\ Release(t)
        /\ pc[t] = "answered" /\ ctx[t].result = "ok"
        /\ queue' = [queue EXCEPT ![ctx[t].job].state = "running", ![ctx[t].job].turn = ctx[t].turn]
    BY <1>10 DEF RecordRunning, external
  <2>2. PICK j \in Jobs : j = ctx[t].job BY <2>1 DEF TypeInv, JobOfOperation, WithJob
  <2>3. PICK u \in Turns : u = ctx[t].turn /\ owner[u] = j
    BY <2>1, <2>2 DEF BaseInv, OpBase, HasTurn
  <2>4. Fits(u, j)
    <3>1. j # NoJob /\ Route[j] \in Targets BY TurnQueueAssumption
    <3>2. QED BY <2>3, <3>1 DEF Fits, Unused, BaseInv, TurnsAreListed
  <2>5. \A k \in Jobs : RowKept(k) \/ (RowBase(k)' /\ NoNewStart(k)) BY <2>1, <2>2, <2>3, <2>4, BoundBase
  <2>6. QED BY <1>2, <2>1, <2>5, PointBase, BaseFrame
<1>11. CASE RecordFailure(t)
  <2>1. /\ UNCHANGED <<outbox, wire, hist, owner, journal>> /\ Release(t) /\ ClaimKept(t)
        /\ queue' = [queue EXCEPT ![ctx[t].job].state = StateAfter(ctx[t].result),
                                  ![ctx[t].job].err = ErrorAfter(ctx[t].result)]
    BY <1>11 DEF RecordFailure, external
  <2>2. queue[ctx[t].job].state = "starting" BY <2>1 DEF ClaimKept
  <2>3. \A k \in Jobs : RowKept(k)
    BY <2>1, <2>2 DEF RowKept, StateAfter, TypeInv, TypeOK, Row
  <2>4. QED BY <1>2, <2>1, <2>3, PointBase, BaseFrame
<1>12. QED BY <1>1, <1>3, <1>4, <1>5, <1>6, <1>7, <1>8, <1>9, <1>10, <1>11, ClaimBase, PrepareBase, WriteBase,
              <1>13

LEMMA RecoverBase == ASSUME TypeInv, BaseInv, Recover PROVE BaseInv'
<1>1. PICK t \in Targets :
        \/ (\E g \in 1..gen : Mutate(t, g) \/ Observe(t, g))
        \/ Adopt(t)
        \/ ReconcileRunning(t) \/ ReconcileBind(t) \/ ReconcileEmpty(t)
        \/ ReconcileMany(t) \/ ReconcileNothing(t)
  BY DEF Recover
<1>2. UNCHANGED <<wire, hist, owner, outbox, journal>>
  BY <1>1 DEF Mutate, Observe, Adopt, ReconcileRunning, ReconcileBind, ReconcileEmpty,
              ReconcileMany, ReconcileNothing, durable, external
<1>3. JournalKept BY <1>2 DEF JournalKept
<1>4. CASE \E g \in 1..gen : Mutate(t, g) \/ Observe(t, g)
  <2>1. PICK g \in 1..gen : Mutate(t, g) \/ Observe(t, g) BY <1>4
  <2>2. queue' = queue /\ \A s \in Targets \ {t} : OpSame(s)
    BY <2>1 DEF Mutate, Observe, durable, OpSame, TypeInv, TypeOK
  <2>3. \/ pc'[t] = "preflight"
        \/ pc'[t] = "observed" /\ ctx'[t].base = hist[t] /\ ctx'[t].lane = "observe"
    <3>1. CASE Mutate(t, g) BY <3>1 DEF Mutate, TypeInv, TypeOK
    <3>2. CASE Observe(t, g)
      <4>1. pc'[t] = "observed" BY <3>2 DEF Observe, TypeInv, TypeOK
      <4>2. PICK j \in Owners(t) : ctx' = [ctx EXCEPT ![t] = [Idle EXCEPT !.lane = "observe",
                !.gen = g, !.job = j, !.claim = queue[j], !.base = hist[t]]]
        BY <3>2 DEF Observe
      <4>3. ctx'[t].base = hist[t] /\ ctx'[t].lane = "observe"
        BY <4>2 DEF TypeInv, TypeOK, Idle
      <4>4. QED BY <4>1, <4>3
    <3>3. QED BY <2>1, <3>1, <3>2
  <2>4. OpBase(t)' BY <1>2, <2>3 DEF OpBase, HoldsBaseline, HasTurn
  <2>5. QED BY <1>2, <1>3, <2>2, <2>3, <2>4, SameRowsKept, BaseFrame
<1>5. CASE Adopt(t)
  <2>1. \A k \in Jobs : RowKept(k)
    BY <1>2, <1>5 DEF Adopt, RowKept, TypeInv, TypeOK, Row
  <2>2. \A s \in Targets : OpSame(s) \/ (OpBase(s)' /\ (pc'[s] = "sent" => NoWire(s)') /\ pc'[s] # "prepared")
    <3>1. CASE Release(t) BY <3>1, PointBase
    <3>2. CASE ctx[t].lane = "recover"
      <4>1. /\ pc'[t] = "next" /\ ctx'[t].lane = ctx[t].lane /\ ctx'[t].base = ctx[t].base
            /\ \A s \in Targets \ {t} : OpSame(s)
        BY <1>5, <3>2 DEF Adopt, TypeInv, TypeOK, Ctx, OpSame
      <4>2. HoldsBaseline(t) BY <1>5, <3>2 DEF Adopt, HoldsBaseline
      <4>3. OpBase(t) BY DEF BaseInv
      <4>4. OpBase(t)' BY <1>2, <4>1, <4>2, <4>3 DEF OpBase, HoldsBaseline, HasTurn, NoWire
      <4>5. QED BY <4>1, <4>4
    <3>3. QED BY <1>5, <3>1, <3>2 DEF Adopt
  <2>3. QED BY <1>2, <1>3, <2>1, <2>2, BaseFrame
<1>6. CASE \/ ReconcileRunning(t) \/ ReconcileBind(t) \/ ReconcileEmpty(t)
           \/ ReconcileMany(t) \/ ReconcileNothing(t)
  <2>1. (Release(t) \/ EnterAdopt(t)) /\ pc[t] = "observed"
    BY <1>6 DEF ReconcileRunning, ReconcileBind, ReconcileEmpty, ReconcileMany, ReconcileNothing,
                Reconcilable
  <2>2. \A s \in Targets : OpSame(s) \/ (OpBase(s)' /\ (pc'[s] = "sent" => NoWire(s)') /\ pc'[s] # "prepared")
    <3>1. CASE Release(t) BY <3>1, PointBase
    <3>2. CASE EnterAdopt(t) /\ ctx[t].lane # "recover"
      <4>1. pc'[t] = "adopt" /\ ctx' = ctx /\ \A s \in Targets \ {t} : OpSame(s)
        BY <3>2 DEF EnterAdopt, TypeInv, TypeOK, OpSame
      <4>2. OpBase(t)' BY <3>2, <4>1 DEF OpBase, HoldsBaseline, HasTurn
      <4>3. QED BY <4>1, <4>2
    <3>3. ctx[t].lane # "recover" BY <2>1 DEF BaseInv, OpBase
    <3>4. QED BY <2>1, <3>1, <3>2, <3>3
  <2>3. PICK j \in Jobs : j = ctx[t].job /\ Route[j] = t
    BY <2>1 DEF TypeInv, JobOfOperation, WithJob
  <2>4. \A k \in Jobs : RowKept(k) \/ (RowBase(k)' /\ NoNewStart(k))
    <3>1. CASE queue' = queue BY <1>2, <3>1, SameRowsKept
    <3>2. ASSUME NEW e, queue' = [queue EXCEPT ![j].err = e] PROVE \A k \in Jobs : RowKept(k)
      BY <1>2, <3>2 DEF RowKept, TypeInv, TypeOK, Row
    <3>3. ASSUME NEW u \in Turns, Candidates(t) = {u}, ClaimKept(t),
                 queue' = [queue EXCEPT ![j].state = "running", ![j].turn = u]
          PROVE  \A k \in Jobs : RowKept(k) \/ (RowBase(k)' /\ NoNewStart(k))
      <4>1. queue[j] = ctx[t].claim /\ queue[j].state = "starting"
        BY <2>3, <3>3 DEF ClaimKept
      <4>2. u \in hist[t] \ queue[j].base
        BY <2>1, <3>3, <4>1 DEF Candidates, BaseInv, OpBase
      <4>3. Fits(u, j) BY <2>3, <4>1, <4>2 DEF Fits, Unused, BaseInv, RowBase
      <4>4. QED BY <1>2, <3>3, <4>3, BoundBase
    <3>4. QED BY <1>6, <2>3, <3>1, <3>2, <3>3
      DEF ReconcileRunning, ReconcileBind, ReconcileEmpty, ReconcileMany, ReconcileNothing, durable
  <2>5. QED BY <1>2, <1>3, <2>2, <2>4, BaseFrame
<1>7. QED BY <1>1, <1>4, <1>5, <1>6

LEMMA ControlBase == ASSUME TypeInv, BaseInv, Control PROVE BaseInv'
<1>1. PICK t \in Targets : Stop(t) \/ CancelLatestPending(t) \/ CancelForRecovery(t)
  BY DEF Control
<1>2. UNCHANGED <<wire, hist, owner, outbox, journal, pc, ctx>>
  BY <1>1 DEF Stop, CancelLatestPending, CancelForRecovery, runtime, external
<1>3. queue' = queue \/ \E S : Forget(S)
  BY <1>1 DEF Stop, CancelLatestPending, CancelForRecovery
<1>4. \A k \in Jobs : RowKept(k)
  BY <1>2, <1>3 DEF Forget, NoRow, RowKept
<1>5. QED BY <1>2, <1>4, BaseFrame DEF JournalKept, OpSame

\* A turn that was handed out keeps fitting: the app-server hands out only new ones.
LEMMA FitsKept ==
  ASSUME NEW u, NEW j, NEW v \in Turns, Unused(v), Fits(u, j),
         \A t \in Targets : hist[t] \subseteq hist'[t],
         \A x \in Turns \ {v} : owner'[x] = owner[x]
  PROVE  Fits(u, j)'
  BY DEF Fits, Unused

\* The history of one thread grows by a turn nobody has, and by nothing else.
LEMMA GrownHistory ==
  ASSUME TypeInv, NEW t \in Targets, NEW v \in Turns, hist' = [hist EXCEPT ![t] = @ \cup {v}]
  PROVE  /\ \A s \in Targets : hist[s] \subseteq hist'[s]
         /\ \A s \in Targets \ {t} : hist'[s] = hist[s]
         /\ hist'[t] = hist[t] \cup {v}
  BY DEF TypeInv, TypeOK

LEMMA AcceptBase ==
  ASSUME NEW w \in wire, NEW v \in Turns, TypeInv, OnceInv, BaseInv, ServerAccept(w, v)
  PROVE  BaseInv'
<1>1. /\ wire' = wire \ {w} /\ Unused(v) /\ UNCHANGED <<queue, outbox, journal, pc>>
      /\ hist' = [hist EXCEPT ![Route[w.job]] = @ \cup {v}]
      /\ owner' = [owner EXCEPT ![v] = w.job] /\ Reply(w, "started", v)
  BY DEF ServerAccept, durable
<1>2. PICK j \in Jobs : j = w.job BY DEF TypeInv, TypeOK, Wire
<1>3. PICK t \in Targets : t = Route[j] BY TurnQueueAssumption
<1>4. /\ \A s \in Targets : hist[s] \subseteq hist'[s]
      /\ \A s \in Targets \ {t} : hist'[s] = hist[s]
      /\ hist'[t] = hist[t] \cup {v}
  BY <1>1, <1>2, <1>3, GrownHistory
<1>5. /\ owner'[v] = j /\ \A x \in Turns \ {v} : owner'[x] = owner[x]
      /\ owner[v] = NoJob
  BY <1>1, <1>2, TurnQueueAssumption DEF TypeInv, TypeOK, BaseInv, TurnsAreListed, Unused
<1>6. NoWire(t)' 
  BY <1>1, <1>2, <1>3 DEF NoWire, BaseInv, WireIsJournaled, OnceInv, AtMostOnce
<1>7. TurnsAreListed'
  <2>1. \A u \in Turns : owner[u] # NoJob => Route[owner[u]] \in Targets
    BY TurnQueueAssumption DEF TypeInv, TypeOK
  <2>2. QED BY <1>3, <1>4, <1>5, <2>1 DEF TurnsAreListed, BaseInv
<1>8. ASSUME NEW s \in Targets PROVE OpBase(s)' /\ (pc'[s] = "sent" /\ ctx'[s].reply # "none" => NoWire(s)')
  <2>1. OpBase(s) BY DEF BaseInv
  <2>2. NoWire(s) => NoWire(s)' BY <1>1 DEF NoWire
  <2>3. \/ ctx'[s] = ctx[s]
        \/ /\ s = t /\ pc[s] = "sent" /\ ctx[s].job = j
           /\ ctx'[s].job = j /\ ctx'[s].turn = v
    <3>1. CASE ctx' = ctx BY <3>1
    <3>2. CASE Awaited(w) /\ ctx' = [ctx EXCEPT ![Route[w.job]].reply = "started",
                                                ![Route[w.job]].turn = v]
      BY <1>2, <1>3, <3>2 DEF Awaited, TypeInv, TypeOK, Ctx
    <3>3. QED BY <1>1, <3>1, <3>2 DEF Reply
  <2>4. CASE ctx'[s] = ctx[s]
    <3>1. HoldsBaseline(s) => s # t BY <1>2, <1>3, <2>1 DEF OpBase, NoWire
    <3>2. HasTurn(s) => ctx[s].turn # v
      BY <1>5, <2>1, TurnQueueAssumption DEF OpBase, HasTurn, TypeInv, JobOfOperation, WithJob
    <3>3. HoldsBaseline(s)' => NoWire(s)' /\ \A u \in hist'[s] \ ctx'[s].base : owner'[u] = NoJob
      <4>1. HoldsBaseline(s)' => HoldsBaseline(s) /\ hist'[s] = hist[s] /\ v \notin hist[s]
        BY <1>1, <1>4, <2>4, <3>1 DEF HoldsBaseline, Unused
      <4>2. hist[s] \subseteq Turns BY DEF TypeInv, TypeOK
      <4>3. QED BY <1>5, <2>1, <2>2, <2>4, <4>1, <4>2 DEF OpBase
    <3>4. HasTurn(s)' => ctx'[s].turn \in Turns /\ owner'[ctx'[s].turn] = ctx'[s].job
      BY <1>1, <1>5, <2>1, <2>4, <3>2 DEF OpBase, HasTurn
    <3>5. OpBase(s)' BY <1>1, <1>4, <2>1, <2>4, <3>3, <3>4 DEF OpBase
    <3>6. QED BY <1>1, <2>2, <2>4, <3>5 DEF BaseInv, WireIsJournaled
  <2>5. CASE /\ s = t /\ pc[s] = "sent" /\ ctx'[s].job = j /\ ctx'[s].turn = v
    BY <1>1, <1>5, <1>6, <2>5 DEF OpBase, HoldsBaseline, HasTurn
  <2>6. QED BY <2>3, <2>4, <2>5
<1>9. WireIsJournaled'
  <2>1. \A s \in Targets : pc'[s] = "sent" /\ ctx'[s].reply # "none" => NoWire(s)' BY <1>8
  <2>2. QED BY <1>1, <2>1 DEF BaseInv, WireIsJournaled
<1>10. ASSUME NEW k \in Jobs PROVE RowBase(k)'
  <2>1. RowBase(k) /\ Route[k] \in Targets BY TurnQueueAssumption DEF BaseInv
  <2>2. \A u : Fits(u, k) => Fits(u, k)' BY <1>1, <1>4, <1>5, FitsKept
  <2>3. queue[k].state = "starting" /\ Route[k] = t => k = j BY <1>2, <1>3, <2>1 DEF RowBase
  <2>4. queue[k].state = "starting" =>
          \A u \in hist'[Route[k]] \ queue[k].base : owner'[u] \in {k, NoJob}
    <3>1. ASSUME queue[k].state = "starting", NEW u \in hist'[Route[k]] \ queue[k].base
          PROVE  owner'[u] \in {k, NoJob}
      <4>1. CASE u = v
        <5>1. Unused(v) => v \notin hist[Route[k]] BY <2>1 DEF Unused
        <5>2. Route[k] = t BY <1>1, <1>4, <2>1, <3>1, <4>1, <5>1
        <5>3. QED BY <1>5, <2>3, <3>1, <4>1, <5>2
      <4>2. CASE u # v
        <5>1. u \in hist[Route[k]] BY <1>4, <2>1, <3>1, <4>2
        <5>2. u \in Turns BY <2>1, <5>1 DEF TypeInv, TypeOK
        <5>3. QED BY <1>5, <2>1, <3>1, <4>2, <5>1, <5>2 DEF RowBase
      <4>3. QED BY <4>1, <4>2
    <3>2. QED BY <3>1
  <2>5. QED BY <1>1, <2>1, <2>2, <2>4 DEF RowBase
<1>11. ASSUME NEW s \in Targets PROVE PreparedBase(s)'
  <2>1. SUFFICES ASSUME pc'[s] = "prepared" PROVE PreparedBase(s)' BY DEF PreparedBase
  <2>2. pc[s] = "prepared" /\ PreparedBase(s) BY <1>1, <2>1 DEF BaseInv
  <2>3. s # t BY <1>2, <1>3, <2>2 DEF PreparedBase, NoWire
  <2>4. ctx'[s] = ctx[s] BY <1>1, <1>2, <1>3, <2>3 DEF Reply, TypeInv, TypeOK
  <2>5. QED BY <1>1, <2>2, <2>4 DEF PreparedBase, NoWire
<1>12. QED BY <1>7, <1>8, <1>9, <1>10, <1>11 DEF BaseInv

LEMMA RejectBase ==
  ASSUME NEW w \in wire, NEW r \in Replies, TypeInv, OnceInv, BaseInv, ServerReject(w, r)
  PROVE  BaseInv'
<1>1. /\ wire' = wire \ {w} /\ UNCHANGED <<queue, outbox, journal, pc, hist, owner>>
      /\ r \in {"rejected", "limited"} /\ Reply(w, r, NoTurn)
  BY DEF ServerReject, durable
<1>2. PICK t \in Targets : t = Route[w.job] BY TurnQueueAssumption DEF TypeInv, TypeOK, Wire
<1>3. NoWire(t)'
  BY <1>1, <1>2 DEF NoWire, BaseInv, WireIsJournaled, OnceInv, AtMostOnce
<1>4. ASSUME NEW s \in Targets
      PROVE  OpSame(s) \/ (OpBase(s)' /\ (pc'[s] = "sent" => NoWire(s)') /\ pc'[s] # "prepared")
  <2>1. CASE ctx' = ctx BY <1>1, <2>1 DEF OpSame
  <2>2. CASE Awaited(w) /\ ctx' = [ctx EXCEPT ![t].reply = r, ![t].turn = NoTurn]
    <3>1. s # t => OpSame(s) BY <1>1, <2>2 DEF OpSame, TypeInv, TypeOK
    <3>2. pc'[t] = "sent" /\ ctx'[t].reply = r
      BY <1>1, <1>2, <2>2 DEF Awaited, TypeInv, TypeOK, Ctx
    <3>3. OpBase(t)' BY <1>1, <3>2 DEF OpBase, HoldsBaseline, HasTurn
    <3>4. QED BY <1>3, <3>1, <3>2, <3>3
  <2>3. QED BY <1>1, <1>2, <2>1, <2>2 DEF Reply
<1>5. QED BY <1>1, <1>4, SameRowsKept, BaseFrame DEF JournalKept

LEMMA ForeignBase ==
  ASSUME NEW t \in Targets, NEW v \in Turns, TypeInv, BaseInv, ForeignTurn(t, v)
  PROVE  BaseInv'
<1>1. /\ Unused(v) /\ UNCHANGED <<queue, outbox, journal, pc, ctx, wire, owner>>
      /\ hist' = [hist EXCEPT ![t] = @ \cup {v}]
  BY DEF ForeignTurn, durable, runtime
<1>2. /\ \A s \in Targets : hist[s] \subseteq hist'[s]
      /\ \A s \in Targets \ {t} : hist'[s] = hist[s]
      /\ hist'[t] = hist[t] \cup {v}
  BY <1>1, GrownHistory
<1>3. \A u \in Turns : owner[u] # NoJob => Route[owner[u]] \in Targets
  BY TurnQueueAssumption DEF TypeInv, TypeOK
<1>4. owner[v] = NoJob BY <1>1, <1>3 DEF BaseInv, TurnsAreListed, Unused
<1>5. TurnsAreListed' BY <1>1, <1>2, <1>3 DEF TurnsAreListed, BaseInv
<1>6. WireIsJournaled' BY <1>1 DEF BaseInv, WireIsJournaled, NoWire
<1>7. \A s \in Targets : hist'[s] \subseteq hist[s] \cup {v} BY <1>2
<1>8. \A s \in Targets : OpBase(s)'
  BY <1>1, <1>2, <1>4, <1>7 DEF BaseInv, OpBase, HoldsBaseline, HasTurn, NoWire
<1>9. ASSUME NEW k \in Jobs PROVE RowBase(k)'
  <2>1. RowBase(k) /\ Route[k] \in Targets BY TurnQueueAssumption DEF BaseInv
  <2>2. \A u : Fits(u, k) => Fits(u, k)' BY <1>1, <1>2, FitsKept
  <2>3. QED BY <1>1, <1>4, <1>7, <2>1, <2>2 DEF RowBase
<1>10. \A s \in Targets : PreparedBase(s)' BY <1>1 DEF BaseInv, PreparedBase, NoWire
<1>11. QED BY <1>5, <1>6, <1>8, <1>9, <1>10 DEF BaseInv

LEMMA LifeBase == ASSUME TypeInv, BaseInv, Life PROVE BaseInv'
<1>1. /\ wire' \subseteq wire /\ UNCHANGED <<hist, owner, outbox>>
  BY DEF Life, SealConnection, ServerDies, Capture, ReplaceServer, Crash, StartWorkers, RetireResume,
         durable, external
<1>2. CASE Crash
  <2>1. UNCHANGED <<queue, journal>> /\ \A s \in Targets : pc'[s] = "free" BY <1>2 DEF Crash
  <2>2. \A s \in Targets : OpBase(s)' BY <2>1 DEF OpBase, HoldsBaseline, HasTurn
  <2>3. QED BY <1>1, <2>1, <2>2, SameRowsKept, BaseFrame DEF JournalKept
<1>3. CASE \E t \in Targets : RetireResume(t)
  <2>1. PICK t \in Targets : RetireResume(t) BY <1>3
  <2>2. UNCHANGED <<pc, ctx>> BY <2>1 DEF RetireResume, runtime
  <2>3. JournalKept BY <2>1, FreshAttempt DEF RetireResume
  <2>4. \A k \in Jobs : RowKept(k)
    <3>1. \A x \in Row : LET y == [x EXCEPT !.err = ""]
                         IN  y.state = x.state /\ y.base = x.base /\ y.turn = x.turn
      BY DEF Row
    <3>2. \A k \in Jobs : queue[k] \in Row BY DEF TypeInv, TypeOK
    <3>3. \A k \in Jobs : queue'[k] \in {queue[k], [queue[k] EXCEPT !.err = ""]}
      BY <2>1 DEF RetireResume
    <3>4. QED BY <1>1, <3>1, <3>2, <3>3 DEF RowKept
  <2>5. QED BY <1>1, <2>2, <2>3, <2>4, BaseFrame DEF OpSame
<1>4. CASE SealConnection \/ ServerDies \/ Capture \/ ReplaceServer \/ StartWorkers
  <2>1. UNCHANGED <<queue, journal, pc, ctx>>
    BY <1>4 DEF SealConnection, ServerDies, Capture, ReplaceServer, StartWorkers, durable
  <2>2. QED BY <1>1, <2>1, SameRowsKept, BaseFrame DEF JournalKept, OpSame
<1>5. QED BY <1>2, <1>3, <1>4 DEF Life

LEMMA InitBase == Init => BaseInv
<1> SUFFICES ASSUME Init PROVE BaseInv OBVIOUS
<1>1. TurnsAreListed /\ WireIsJournaled
  BY DEF Init, TurnsAreListed, WireIsJournaled, NoWire
<1>2. \A t \in Targets : OpBase(t)
  BY DEF Init, OpBase, HoldsBaseline, HasTurn
<1>3. \A j \in Jobs : RowBase(j) BY DEF Init, RowBase, NoRow
<1>4. \A t \in Targets : PreparedBase(t) BY DEF Init, PreparedBase
<1>5. QED BY <1>1, <1>2, <1>3, <1>4 DEF BaseInv

LEMMA BaseInductive == TypeInv /\ OnceInv /\ OwnerInv /\ BaseInv /\ [Next]_vars => BaseInv'
<1> SUFFICES ASSUME TypeInv, OnceInv, OwnerInv, BaseInv, [Next]_vars PROVE BaseInv' OBVIOUS
<1>1. CASE UNCHANGED <<queue, outbox, journal, pc, ctx, wire, hist, owner>>
  BY <1>1, SameRowsKept, BaseFrame DEF JournalKept, OpSame
<1>2. CASE Server
  <2>1. CASE \E u \in Turns : ServerCompletes(u)
    BY <1>1, <2>1 DEF ServerCompletes, durable, runtime
  <2>2. QED BY <1>2, <2>1, AcceptBase, RejectBase, ForeignBase DEF Server
<1>3. QED BY <1>1, <1>2, RequestsBase, StartTurnBase, RecoverBase, ControlBase, LifeBase
  DEF Next, vars, durable, runtime, external

\* The reply of one request is never bound or delivered as the reply of another, by an
\* acknowledgement or by a recovery from the history.
THEOREM RepliesAreNotCrossed == Spec => []NoCrossedReply
<1>1. BaseInv => NoCrossedReply BY DEF BaseInv, RowBase, Fits, NoCrossedReply
<1>2. QED BY <1>1, InitType, TypeInductive, InitOnce, OnceInductive, InitOwner, OwnerInductive,
             InitBase, BaseInductive, PTL DEF Spec

-----------------------------------------------------------------------------
(* How a row moves *)

\* A row is saved, closed, claimed, or settled by the operation that claimed it on a
\* thread that is not held; its created_at never changes.
Moves(j) ==
    \/ Submit(j)
    \/ /\ queue'[j].seq = queue[j].seq
       /\ \/ queue'[j].state = queue[j].state
          \/ queue'[j].state = "absent" /\ (StageCompletion(j) \/ Control)
          \/ /\ queue[j].state = "pending" /\ queue'[j].state = "starting"
             /\ Claim(Route[j]) /\ j = ctx[Route[j]].job
          \/ queue[j].state = "starting" /\ queue'[j].state # "absent" /\ Route[j] \notin held

\* A step that rewrites no row's state, or only that of a claim which still holds.
LEMMA Settles ==
  ASSUME TypeInv, NEW t \in Targets, NEW i \in Jobs, i = ctx[t].job, Route[i] = t, ClaimKept(t),
         NEW s \in RowStates \ {"absent"}, NEW r \in Row, r.seq = queue[i].seq, r.state = s,
         queue' = [queue EXCEPT ![i] = r]
  PROVE  \A j \in Jobs : Moves(j)
  BY DEF Moves, ClaimKept, CanMutate, TypeInv, TypeOK

LEMMA StatesKept ==
  ASSUME \A j \in Jobs : queue'[j].seq = queue[j].seq /\ queue'[j].state = queue[j].state
  PROVE  \A j \in Jobs : Moves(j)
  BY DEF Moves

LEMMA RequestsMove == ASSUME TypeInv, Requests PROVE \A j \in Jobs : Moves(j)
<1>1. PICK i \in Jobs : Submit(i) \/ StageCompletion(i) \/ TimePasses(i) BY DEF Requests
<1>2. CASE Submit(i) BY <1>2 DEF Submit, Moves, TypeInv, TypeOK
<1>3. CASE StageCompletion(i)
  BY <1>3 DEF StageCompletion, StageReply, Moves, TypeInv, TypeOK, NoRow
<1>4. CASE TimePasses(i) BY <1>4, StatesKept DEF TimePasses
<1>5. QED BY <1>1, <1>2, <1>3, <1>4

LEMMA StartTurnMoves == ASSUME TypeInv, StartTurn PROVE \A j \in Jobs : Moves(j)
<1>1. PICK t \in Targets :
        \/ KickTarget(t) \/ SelectHead(t) \/ Decline(t)
        \/ PreflightOk(t) \/ PreflightFail(t) \/ PreflightHeld(t) \/ PreflightUnknown(t)
        \/ Claim(t) \/ ClaimRefused(t)
        \/ Prepare(t) \/ Write(t) \/ NotWritten(t)
        \/ (\E r \in Results : DispatchRefused(t, r))
        \/ Answer(t) \/ AnswerUnknown(t)
        \/ RecordRunning(t) \/ RecordFailure(t) \/ ClaimLost(t)
        \/ DropOperation(t)
  BY DEF StartTurn
<1>2. CASE queue' = queue BY <1>2, StatesKept
<1>3. CASE PreflightFail(t) \/ PreflightHeld(t) \/ PreflightUnknown(t)
  <2>1. PICK e : RecordPreflight(t, e) /\ pc[t] = "preflight"
    BY <1>3 DEF PreflightFail, PreflightHeld, PreflightUnknown
  <2>2. ctx[t].job \in Jobs BY <2>1 DEF TypeInv, JobOfOperation, WithJob
  <2>3. \A j \in Jobs : queue'[j].seq = queue[j].seq /\ queue'[j].state = queue[j].state
    <3>1. CASE queue' = queue BY <3>1
    <3>2. CASE queue' = [queue EXCEPT ![ctx[t].job].err = e, ![ctx[t].job].attempt = Bump(@)]
      BY <2>2, <3>2 DEF TypeInv, TypeOK, Row
    <3>3. QED BY <2>1, <3>1, <3>2 DEF RecordPreflight
  <2>4. QED BY <2>3, StatesKept
<1>4. CASE Claim(t)
  <2>1. PICK i \in Jobs : i = ctx[t].job /\ Route[i] = t /\ queue[i].state = "pending"
    BY <1>4 DEF Claim, CanClaim, TypeInv, JobOfOperation, WithJob
  <2>2. /\ queue'[i].state = "starting" /\ queue'[i].seq = queue[i].seq
        /\ \A k \in Jobs \ {i} : queue'[k] = queue[k]
    BY <1>4, <2>1 DEF Claim, TypeInv, TypeOK, Row
  <2>3. QED BY <1>4, <2>1, <2>2 DEF Moves
<1>5. CASE RecordRunning(t)
  <2>1. PICK i \in Jobs : i = ctx[t].job /\ Route[i] = t /\ ClaimKept(t)
    BY <1>5 DEF RecordRunning, TypeInv, JobOfOperation, WithJob
  <2>2. DEFINE r == [queue[i] EXCEPT !.state = "running", !.turn = ctx[t].turn]
  <2>3. queue' = [queue EXCEPT ![i] = r] BY <1>5, <2>1 DEF RecordRunning, TypeInv, TypeOK
  <2>4. r \in Row /\ r.seq = queue[i].seq /\ r.state = "running"
    <3>1. queue[i] \in Row /\ ctx[t].turn \in Turns \cup {NoTurn} BY DEF TypeInv, TypeOK, Ctx
    <3>2. QED BY <3>1 DEF Row, RowStates
  <2>5. QED BY <2>1, <2>3, <2>4, Settles DEF RowStates
<1>6. CASE RecordFailure(t)
  <2>1. PICK i \in Jobs : i = ctx[t].job /\ Route[i] = t /\ ClaimKept(t)
    BY <1>6 DEF RecordFailure, TypeInv, JobOfOperation, WithJob
  <2>2. DEFINE r == [queue[i] EXCEPT !.state = StateAfter(ctx[t].result),
                                     !.err = ErrorAfter(ctx[t].result)]
  <2>3. queue' = [queue EXCEPT ![i] = r] BY <1>6, <2>1 DEF RecordFailure, TypeInv, TypeOK
  <2>4. r \in Row /\ r.seq = queue[i].seq /\ r.state = StateAfter(ctx[t].result)
    <3>1. queue[i] \in Row BY DEF TypeInv, TypeOK
    <3>2. StateAfter(ctx[t].result) \in RowStates BY DEF StateAfter, RowStates
    <3>3. ErrorAfter(ctx[t].result) \in Errors BY DEF ErrorAfter, Errors
    <3>4. QED BY <3>1, <3>2, <3>3 DEF Row
  <2>5. StateAfter(ctx[t].result) \in RowStates \ {"absent"} BY DEF StateAfter, RowStates
  <2>6. QED BY <2>1, <2>3, <2>4, <2>5, Settles
<1>7. QED BY <1>1, <1>2, <1>3, <1>4, <1>5, <1>6
  DEF KickTarget, SelectHead, Decline, PreflightOk, ClaimRefused, Prepare, Write, NotWritten, DispatchRefused,
      Answer, AnswerUnknown, ClaimLost, DropOperation, durable

LEMMA RecoverMoves == ASSUME TypeInv, Recover PROVE \A j \in Jobs : Moves(j)
<1>1. PICK t \in Targets :
        \/ (\E g \in 1..gen : Mutate(t, g) \/ Observe(t, g))
        \/ Adopt(t)
        \/ ReconcileRunning(t) \/ ReconcileBind(t) \/ ReconcileEmpty(t)
        \/ ReconcileMany(t) \/ ReconcileNothing(t)
  BY DEF Recover
<1>2. CASE queue' = queue BY <1>2, StatesKept
<1>3. CASE Adopt(t)
  <2>1. \A j \in Jobs : queue'[j].seq = queue[j].seq /\ queue'[j].state = queue[j].state
    BY <1>3 DEF Adopt, TypeInv, TypeOK, Row
  <2>2. QED BY <2>1, StatesKept
<1>4. ASSUME NEW e, queue' = [queue EXCEPT ![ctx[t].job].err = e] PROVE \A j \in Jobs : Moves(j)
  <2>1. \A j \in Jobs : queue'[j].seq = queue[j].seq /\ queue'[j].state = queue[j].state
    BY <1>4 DEF TypeInv, TypeOK, Row
  <2>2. QED BY <2>1, StatesKept
<1>5. ASSUME NEW u \in Turns, pc[t] = "observed", ClaimKept(t),
             queue' = [queue EXCEPT ![ctx[t].job].state = "running", ![ctx[t].job].turn = u]
      PROVE  \A j \in Jobs : Moves(j)
  <2>1. PICK i \in Jobs : i = ctx[t].job /\ Route[i] = t /\ ClaimKept(t)
    BY <1>5 DEF TypeInv, JobOfOperation, WithJob
  <2>2. DEFINE r == [queue[i] EXCEPT !.state = "running", !.turn = u]
  <2>3. queue' = [queue EXCEPT ![i] = r] BY <1>5, <2>1 DEF TypeInv, TypeOK
  <2>4. r \in Row /\ r.seq = queue[i].seq /\ r.state = "running"
    <3>1. queue[i] \in Row BY DEF TypeInv, TypeOK
    <3>2. QED BY <3>1 DEF Row, RowStates
  <2>5. QED BY <2>1, <2>3, <2>4, Settles DEF RowStates
<1>6. QED BY <1>1, <1>2, <1>3, <1>4, <1>5
  DEF Mutate, Observe, ReconcileRunning, ReconcileBind, ReconcileEmpty, ReconcileMany,
      ReconcileNothing, Reconcilable, durable

LEMMA OtherMoves == ASSUME TypeInv, Control \/ Server \/ Life PROVE \A j \in Jobs : Moves(j)
<1>1. CASE queue' = queue BY <1>1, StatesKept
<1>2. ASSUME Control, NEW S, Forget(S) PROVE \A j \in Jobs : Moves(j)
  BY <1>2 DEF Forget, NoRow, Moves
<1>3. ASSUME NEW t \in Targets, RetireResume(t) PROVE \A j \in Jobs : Moves(j)
  <2>1. \A x \in Row : LET y == [x EXCEPT !.err = ""] IN y.state = x.state /\ y.seq = x.seq
    BY DEF Row
  <2>2. \A k \in Jobs : queue[k] \in Row BY DEF TypeInv, TypeOK
  <2>3. \A k \in Jobs : queue'[k] \in {queue[k], [queue[k] EXCEPT !.err = ""]}
    BY <1>3 DEF RetireResume
  <2>4. QED BY <2>1, <2>2, <2>3, StatesKept
<1>4. CASE Control
  BY <1>1, <1>2, <1>4 DEF Control, Stop, CancelLatestPending, CancelForRecovery
<1>5. CASE Server \/ Life
  BY <1>1, <1>3, <1>5 DEF Server, ServerAccept, ServerReject, ServerCompletes, ForeignTurn,
      Life, SealConnection, ServerDies, Capture, ReplaceServer, StartWorkers, Crash, durable
<1>6. QED BY <1>4, <1>5

LEMMA RowsMove == TypeInv /\ [Next]_vars => \A j \in Jobs : Moves(j)
<1>1. CASE UNCHANGED vars BY <1>1, StatesKept DEF vars, durable
<1>2. QED BY <1>1, RequestsMove, StartTurnMoves, RecoverMoves, OtherMoves DEF Next

-----------------------------------------------------------------------------
(* What is stopped or fenced is not sent *)

LEMMA OnlyWriteSends ==
  ASSUME [Next]_vars PROVE wire' \subseteq wire \/ \E t \in Targets : Write(t)
<1>1. CASE Requests BY <1>1 DEF Requests, Submit, StageCompletion, TimePasses, external
<1>2. CASE StartTurn
  <2>1. PICK t \in Targets :
        \/ KickTarget(t) \/ SelectHead(t) \/ Decline(t)
        \/ PreflightOk(t) \/ PreflightFail(t) \/ PreflightHeld(t) \/ PreflightUnknown(t)
        \/ Claim(t) \/ ClaimRefused(t)
        \/ Prepare(t) \/ Write(t) \/ NotWritten(t)
        \/ (\E r \in Results : DispatchRefused(t, r))
        \/ Answer(t) \/ AnswerUnknown(t)
        \/ RecordRunning(t) \/ RecordFailure(t) \/ ClaimLost(t)
        \/ DropOperation(t)
    BY <1>2 DEF StartTurn
  <2>2. CASE KickTarget(t) \/ SelectHead(t) \/ Decline(t) \/ PreflightOk(t) \/ PreflightFail(t)
             \/ PreflightHeld(t) \/ PreflightUnknown(t) \/ Claim(t) \/ ClaimRefused(t)
    BY <2>2 DEF KickTarget, SelectHead, Decline, PreflightOk, PreflightFail, PreflightHeld,
                PreflightUnknown, RecordPreflight, Claim, ClaimRefused, external
  <2>3. CASE Prepare(t) \/ NotWritten(t) \/ (\E r \in Results : DispatchRefused(t, r))
             \/ Answer(t) \/ AnswerUnknown(t)
    BY <2>3 DEF Prepare, NotWritten, DispatchRefused, Answer, AnswerUnknown, external
  <2>4. CASE RecordRunning(t) \/ RecordFailure(t) \/ ClaimLost(t) \/ DropOperation(t)
    BY <2>4 DEF RecordRunning, RecordFailure, ClaimLost, DropOperation, external
  <2>5. QED BY <2>1, <2>2, <2>3, <2>4
<1>3. CASE Recover
  BY <1>3 DEF Recover, Mutate, Observe, Adopt, ReconcileRunning, ReconcileBind, ReconcileEmpty,
              ReconcileMany, ReconcileNothing, external
<1>4. CASE Control BY <1>4 DEF Control, Stop, CancelLatestPending, CancelForRecovery, external
<1>5. CASE Server
  BY <1>5 DEF Server, ServerAccept, ServerReject, ServerCompletes, ForeignTurn
<1>6. CASE Life
  BY <1>6 DEF Life, SealConnection, ServerDies, Capture, ReplaceServer, Crash, StartWorkers, RetireResume, external
<1>7. CASE UNCHANGED vars BY <1>7 DEF vars, external
<1>8. QED BY <1>1, <1>2, <1>3, <1>4, <1>5, <1>6, <1>7 DEF Next

LEMMA OnlyCompletionReplies ==
  ASSUME [Next]_vars PROVE outbox' = outbox \/ \E j \in Jobs : StageCompletion(j)
<1>1. CASE Requests BY <1>1 DEF Requests, Submit, TimePasses
<1>2. CASE StartTurn
  BY <1>2 DEF StartTurn, KickTarget, SelectHead, Decline, PreflightOk, PreflightFail, PreflightHeld,
              PreflightUnknown, RecordPreflight, Claim, ClaimRefused, Prepare, Write, NotWritten, DispatchRefused, Answer,
              AnswerUnknown, RecordRunning, RecordFailure, ClaimLost, DropOperation, durable
<1>3. CASE Recover
  BY <1>3 DEF Recover, Mutate, Observe, Adopt, ReconcileRunning, ReconcileBind, ReconcileEmpty,
              ReconcileMany, ReconcileNothing, durable
<1>4. CASE Control BY <1>4 DEF Control, Stop, CancelLatestPending, CancelForRecovery
<1>5. CASE Server
  BY <1>5 DEF Server, ServerAccept, ServerReject, ServerCompletes, ForeignTurn, durable
<1>6. CASE Life
  BY <1>6 DEF Life, SealConnection, ServerDies, Capture, ReplaceServer, Crash, StartWorkers, RetireResume, durable
<1>7. CASE UNCHANGED vars BY <1>7 DEF vars, durable
<1>8. QED BY <1>1, <1>2, <1>3, <1>4, <1>5, <1>6, <1>7 DEF Next

LEMMA OnlyPrepareCommits ==
  ASSUME TypeInv, [Next]_vars, NEW t \in Targets, pc'[t] = "prepared"
  PROVE  Prepare(t) \/ (pc[t] = "prepared" /\ ctx'[t].job = ctx[t].job)
<1>1. ASSUME NEW s \in Targets, Release(s) \/ EnterNext(s)
      PROVE  pc[t] = "prepared" /\ ctx'[t].job = ctx[t].job
  BY <1>1 DEF Release, EnterNext, TypeInv, TypeOK
<1>2. CASE UNCHANGED <<pc, ctx>> BY <1>2
<1>3. CASE Requests
  BY <1>1, <1>2, <1>3, TurnQueueAssumption DEF Requests, Submit, StageCompletion, TimePasses, runtime
<1>4. CASE StartTurn
  <2>1. PICK s \in Targets :
        \/ KickTarget(s) \/ SelectHead(s) \/ Decline(s)
        \/ PreflightOk(s) \/ PreflightFail(s) \/ PreflightHeld(s) \/ PreflightUnknown(s)
        \/ Claim(s) \/ ClaimRefused(s)
        \/ Prepare(s) \/ Write(s) \/ NotWritten(s)
        \/ (\E r \in Results : DispatchRefused(s, r))
        \/ Answer(s) \/ AnswerUnknown(s)
        \/ RecordRunning(s) \/ RecordFailure(s) \/ ClaimLost(s)
        \/ DropOperation(s)
    BY <1>4 DEF StartTurn
  <2>2. CASE \/ KickTarget(s) \/ Decline(s) \/ PreflightFail(s) \/ PreflightHeld(s)
             \/ PreflightUnknown(s) \/ ClaimRefused(s) \/ RecordRunning(s) \/ RecordFailure(s)
             \/ ClaimLost(s) \/ DropOperation(s)
    BY <1>1, <2>2 DEF KickTarget, Decline, PreflightFail, PreflightHeld, PreflightUnknown,
         RecordPreflight, ClaimRefused, RecordRunning, RecordFailure, ClaimLost, DropOperation
  <2>3. CASE SelectHead(s) BY <2>3 DEF SelectHead, TypeInv, TypeOK
  <2>4. CASE PreflightOk(s) BY <2>4 DEF PreflightOk, TypeInv, TypeOK
  <2>5. CASE Claim(s) BY <2>5 DEF Claim, TypeInv, TypeOK
  <2>6. CASE Prepare(s) BY <2>6 DEF Prepare, TypeInv, TypeOK
  <2>7. CASE Write(s) BY <2>7 DEF Write, TypeInv, TypeOK
  <2>8. CASE \/ NotWritten(s) \/ (\E r \in Results : DispatchRefused(s, r))
             \/ Answer(s) \/ AnswerUnknown(s)
    <3>1. \E r : Answered(s, r) BY <2>8 DEF NotWritten, DispatchRefused, Answer, AnswerUnknown
    <3>2. QED BY <3>1 DEF Answered, TypeInv, TypeOK
  <2>9. QED BY <2>1, <2>2, <2>3, <2>4, <2>5, <2>6, <2>7, <2>8
<1>5. CASE Recover
  <2>1. PICK s \in Targets :
        \/ (\E g \in 1..gen : Mutate(s, g) \/ Observe(s, g))
        \/ Adopt(s)
        \/ ReconcileRunning(s) \/ ReconcileBind(s) \/ ReconcileEmpty(s)
        \/ ReconcileMany(s) \/ ReconcileNothing(s)
    BY <1>5 DEF Recover
  <2>2. CASE Release(s) BY <1>1, <2>2
  <2>3. CASE \/ EnterAdopt(s)
             \/ \E g \in 1..gen : Mutate(s, g) \/ Observe(s, g)
    BY <2>3 DEF EnterAdopt, Mutate, Observe, TypeInv, TypeOK
  <2>4. CASE Adopt(s) /\ ~Release(s) BY <2>4 DEF Adopt, TypeInv, TypeOK
  <2>5. QED BY <2>1, <2>2, <2>3, <2>4 DEF ReconcileRunning, ReconcileBind, ReconcileEmpty,
        ReconcileMany, ReconcileNothing
<1>6. CASE Control BY <1>2, <1>6 DEF Control, Stop, CancelLatestPending, CancelForRecovery, runtime
<1>7. CASE Server
  <2>1. pc' = pc BY <1>7 DEF Server, ServerAccept, ServerReject, ServerCompletes, ForeignTurn, runtime
  <2>2. ASSUME NEW w \in wire, NEW r, NEW u, Reply(w, r, u) PROVE ctx'[t].job = ctx[t].job
    <3>1. \A c \in Ctx : [c EXCEPT !.reply = r, !.turn = u].job = c.job BY DEF Ctx
    <3>2. ctx'[t] \in {ctx[t], [ctx[t] EXCEPT !.reply = r, !.turn = u]}
      BY <2>2 DEF Reply, TypeInv, TypeOK
    <3>3. QED BY <3>1, <3>2 DEF TypeInv, TypeOK
  <2>3. QED BY <1>2, <1>7, <2>1, <2>2
    DEF Server, ServerAccept, ServerReject, ServerCompletes, ForeignTurn, runtime
<1>8. CASE Life
  BY <1>2, <1>8 DEF Life, SealConnection, ServerDies, Capture, ReplaceServer, Crash, StartWorkers,
       RetireResume, runtime
<1>9. CASE UNCHANGED vars BY <1>2, <1>9 DEF vars, runtime
<1>10. QED BY <1>3, <1>4, <1>5, <1>6, <1>7, <1>8, <1>9 DEF Next

\* Holds, cancellations and the fence are never lifted by the steps of the bot.
LEMMA FencesGrow ==
  ASSUME [Next]_vars
  PROVE  /\ execHeld \subseteq execHeld' /\ cancelled \subseteq cancelled'
         /\ held' = held \/ Capture
<1>1. CASE Requests BY <1>1 DEF Requests, Submit, StageCompletion, TimePasses
<1>2. CASE StartTurn
  BY <1>2 DEF StartTurn, KickTarget, SelectHead, Decline, PreflightOk, PreflightFail, PreflightHeld,
              PreflightUnknown, RecordPreflight, Claim, ClaimRefused, Prepare, Write, NotWritten,
              DispatchRefused, Answer, AnswerUnknown, RecordRunning, RecordFailure, ClaimLost,
              DropOperation, durable
<1>3. CASE Recover
  BY <1>3 DEF Recover, Mutate, Observe, Adopt, ReconcileRunning, ReconcileBind, ReconcileEmpty,
              ReconcileMany, ReconcileNothing, durable
<1>4. CASE Control BY <1>4 DEF Control, Stop, CancelLatestPending, CancelForRecovery, Forget
<1>5. CASE Server
  BY <1>5 DEF Server, ServerAccept, ServerReject, ServerCompletes, ForeignTurn, durable
<1>6. CASE Life
  BY <1>6 DEF Life, SealConnection, ServerDies, Capture, ReplaceServer, Crash, StartWorkers,
              RetireResume, durable
<1>7. CASE UNCHANGED vars BY <1>7 DEF vars, durable
<1>8. QED BY <1>1, <1>2, <1>3, <1>4, <1>5, <1>6, <1>7 DEF Next

LEMMA OnlyAcceptRuns ==
  ASSUME [Next]_vars
  PROVE  owner' = owner \/ \E w \in wire, u \in Turns : ServerAccept(w, u)
<1>1. CASE Requests BY <1>1 DEF Requests, Submit, StageCompletion, TimePasses, external
<1>2. CASE StartTurn
  BY <1>2 DEF StartTurn, KickTarget, SelectHead, Decline, PreflightOk, PreflightFail, PreflightHeld,
              PreflightUnknown, RecordPreflight, Claim, ClaimRefused, Prepare, Write, NotWritten, DispatchRefused, Answer,
              AnswerUnknown, RecordRunning, RecordFailure, ClaimLost, DropOperation, external
<1>3. CASE Recover
  BY <1>3 DEF Recover, Mutate, Observe, Adopt, ReconcileRunning, ReconcileBind, ReconcileEmpty,
              ReconcileMany, ReconcileNothing, external
<1>4. CASE Control BY <1>4 DEF Control, Stop, CancelLatestPending, CancelForRecovery, external
<1>5. CASE Server
  BY <1>5 DEF Server, ServerReject, ServerCompletes, ForeignTurn
<1>6. CASE Life
  BY <1>6 DEF Life, SealConnection, ServerDies, Capture, ReplaceServer, Crash, StartWorkers, RetireResume, external
<1>7. CASE UNCHANGED vars BY <1>7 DEF vars, external
<1>8. QED BY <1>1, <1>2, <1>3, <1>4, <1>5, <1>6, <1>7 DEF Next

\* A /stop or a cancellation that finds no committed attempt and nothing sent is final.
\* It takes neither the lock of the thread nor the writer: an operation that chose or
\* claimed the request before it goes on, and ends without a write because the claim is
\* validated in the transaction that commits the attempt.
THEOREM WithdrawnStaysUnsent == Spec => StopIsFinal
<1>1. ASSUME TypeInv, [Next]_vars, NEW j \in Jobs, Withdrawn(j) PROVE Withdrawn(j)'
  <2>1. j \in (execHeld \cup cancelled)' BY <1>1, FencesGrow DEF Withdrawn
  <2>2. ASSUME NEW w \in wire' PROVE w.job # j
    <3>1. CASE w \in wire BY <1>1, <3>1 DEF Withdrawn, Unsent
    <3>2. CASE w \notin wire
      <4>1. PICK t \in Targets : Write(t) BY <1>1, <2>2, <3>2, OnlyWriteSends
      <4>2. w.job = ctx[t].job /\ pc[t] = "prepared" BY <2>2, <3>2, <4>1 DEF Write
      <4>3. QED BY <1>1, <4>2 DEF Withdrawn
    <3>3. QED BY <3>1, <3>2
  <2>3. ASSUME NEW u \in Turns PROVE owner'[u] # j
    <3>1. CASE owner' = owner BY <1>1, <3>1 DEF Withdrawn, Unsent
    <3>2. CASE \E w \in wire, v \in Turns : ServerAccept(w, v)
      BY <1>1, <3>2 DEF ServerAccept, Withdrawn, Unsent, TypeInv, TypeOK
    <3>3. QED BY <1>1, <3>1, <3>2, OnlyAcceptRuns
  <2>4. ASSUME NEW t \in Targets, pc'[t] = "prepared", ctx'[t].job = j PROVE FALSE
    <3>1. CASE Prepare(t)
      <4>1. ctx[t].job = j BY <2>4, <3>1 DEF Prepare
      <4>2. QED BY <1>1, <3>1, <4>1 DEF Prepare, Authorised, Withdrawn
    <3>2. CASE pc[t] = "prepared" /\ ctx'[t].job = ctx[t].job
      BY <1>1, <2>4, <3>2 DEF Withdrawn
    <3>3. QED BY <1>1, <2>4, <3>1, <3>2, OnlyPrepareCommits
  <2>5. QED BY <2>1, <2>2, <2>3, <2>4 DEF Withdrawn, Unsent
<1>2. TypeInv /\ [Next]_vars => [\A j \in Jobs : Withdrawn(j) => Withdrawn(j)']_vars
  BY <1>1
<1>3. QED BY <1>2, InitType, TypeInductive, PTL DEF Spec, StopIsFinal

\* No attempt is under way on a held thread: the fence waits for the ones that are.
HeldInv == \A t \in Targets : pc[t] = "prepared" => t \notin held

LEMMA HeldInductive == TypeInv /\ HeldInv /\ [Next]_vars => HeldInv'
<1> SUFFICES ASSUME TypeInv, HeldInv, [Next]_vars, NEW t \in Targets, pc'[t] = "prepared"
             PROVE  t \notin held'
  BY DEF HeldInv
<1>1. CASE Capture
  BY <1>1 DEF Capture, NoRequestInFlight
<1>2. CASE held' = held
  BY <1>2, OnlyPrepareCommits DEF HeldInv, Prepare, Authorised, CanMutate
<1>3. QED BY <1>1, <1>2, FencesGrow

LEMMA InitHeld == Init => HeldInv
  BY DEF Init, HeldInv

\* What a thread held after the death of its app-server may still do: lose its
\* requests to a cancellation, and nothing else.
THEOREM HeldThreadIsFrozen == Spec => DeadTargetIsFrozen
<1> DEFINE Frozen == \A j \in Jobs : Route[j] \in held =>
                       /\ \A w \in wire' \ wire : w.job # j
                       /\ queue'[j].state \in {queue[j].state, "absent"}
                       /\ outbox'[j] = outbox[j]
<1>1. TypeInv /\ HeldInv /\ [Next]_vars => Frozen
  <2> SUFFICES ASSUME TypeInv, HeldInv, [Next]_vars, NEW j \in Jobs, Route[j] \in held
               PROVE  /\ \A w \in wire' \ wire : w.job # j
                      /\ queue'[j].state \in {queue[j].state, "absent"}
                      /\ outbox'[j] = outbox[j]
    OBVIOUS
  <2>1. ASSUME NEW w \in wire' \ wire PROVE w.job # j
    <3>1. PICK t \in Targets : Write(t) BY <2>1, OnlyWriteSends
    <3>2. w.job = ctx[t].job /\ pc[t] = "prepared" /\ t \notin held
      BY <2>1, <3>1 DEF Write, HeldInv
    <3>3. Route[ctx[t].job] = t BY <3>2 DEF TypeInv, JobOfOperation, WithJob
    <3>4. QED BY <3>2, <3>3
  <2>2. queue'[j].state \in {queue[j].state, "absent"}
    <3>1. Moves(j) BY RowsMove
    <3>2. ~Submit(j) BY DEF Submit
    <3>3. Claim(Route[j]) /\ j = ctx[Route[j]].job => Route[j] \notin held
      BY DEF Claim, CanClaim, CanMutate
    <3>4. QED BY <3>1, <3>2, <3>3 DEF Moves
  <2>3. outbox'[j] = outbox[j]
    <3>1. ASSUME NEW k \in Jobs, StageCompletion(k) PROVE outbox'[j] = outbox[j]
      <4>1. k # j BY <3>1 DEF StageCompletion, Stageable
      <4>2. QED BY <3>1, <4>1 DEF StageCompletion, StageReply, TypeInv, TypeOK
    <3>2. QED BY <3>1, OnlyCompletionReplies
  <2>4. QED BY <2>1, <2>2, <2>3
<1>2. TypeInv /\ HeldInv /\ [Next]_vars => [Frozen]_vars BY <1>1
<1>3. QED BY <1>2, InitType, TypeInductive, InitHeld, HeldInductive, PTL DEF Spec, DeadTargetIsFrozen

-----------------------------------------------------------------------------
(* Requests start in order *)

\* From the choice of the head to its claim no older request becomes startable.
OpOrder(t) ==
    pc[t] \in Choosing =>
        \A k \in Jobs : Startable(k, t) => queue[ctx[t].job].seq <= queue[k].seq

OrderInv ==
    /\ boot => \A t \in Targets : pc[t] = "free"
    /\ \A t \in Targets : OpOrder(t)

\* A step of the operation that holds the lock of s touches no other thread's rows.
LEMMA OrderLocal ==
  ASSUME TypeInv, OrderInv, NEW s \in Targets, execHeld \subseteq execHeld', boot' = boot, ~boot,
         \A k \in Jobs : Route[k] # s => queue'[k] = queue[k],
         \A t \in Targets \ {s} : OpSame(t), OpOrder(s)'
  PROVE  OrderInv'
<1>1. ASSUME NEW t \in Targets \ {s} PROVE OpOrder(t)'
  <2>1. SUFFICES ASSUME pc'[t] \in Choosing, NEW k \in Jobs, Startable(k, t)'
                 PROVE  queue'[ctx'[t].job].seq <= queue'[k].seq
    BY DEF OpOrder
  <2>2. OpSame(t) /\ OpOrder(t) BY DEF OrderInv
  <2>3. ctx[t].job \in Jobs /\ Route[ctx[t].job] = t /\ pc[t] \in Choosing
    BY <2>1, <2>2 DEF OpSame, TypeInv, JobOfOperation, Choosing, WithJob
  <2>4. Route[k] = t /\ queue'[k] = queue[k] BY <2>1 DEF Startable
  <2>5. Startable(k, t) BY <2>1, <2>4 DEF Startable, Eligible
  <2>6. QED BY <2>2, <2>3, <2>4, <2>5 DEF OpOrder, OpSame
<1>2. QED BY <1>1 DEF OrderInv

LEMMA PointOrder ==
  ASSUME TypeInv, NEW s \in Targets, Release(s) \/ EnterNext(s)
  PROVE  OpOrder(s)' /\ \A t \in Targets \ {s} : OpSame(t)
<1>1. pc'[s] \notin Choosing BY DEF Release, EnterNext, TypeInv, TypeOK, Choosing
<1>2. QED BY <1>1 DEF OpOrder, Release, EnterNext, TypeInv, TypeOK, OpSame

\* Rows that do not become startable, operations that are left alone or ended.
LEMMA OrderQuiet ==
  ASSUME TypeInv, OrderInv, boot' => \A t \in Targets : pc'[t] = "free",
         \A k \in Jobs : queue'[k].seq = queue[k].seq,
         \A k \in Jobs : \A t \in Targets : Startable(k, t)' => Startable(k, t),
         \A t \in Targets : OpSame(t) \/ pc'[t] \notin Choosing
  PROVE  OrderInv'
<1>1. ASSUME NEW t \in Targets PROVE OpOrder(t)'
  <2>1. pc'[t] \in Choosing => OpSame(t) /\ pc[t] \in Choosing /\ ctx[t].job \in Jobs
    BY DEF OpSame, TypeInv, JobOfOperation, Choosing, WithJob
  <2>2. QED BY <2>1 DEF OpOrder, OrderInv, OpSame
<1>2. QED BY <1>1 DEF OrderInv

LEMMA RequestsOrder == ASSUME TypeInv, OrderInv, Requests PROVE OrderInv'
<1>1. PICK j \in Jobs : Submit(j) \/ StageCompletion(j) \/ TimePasses(j) BY DEF Requests
<1>2. PICK s \in Targets : s = Route[j] BY TurnQueueAssumption
<1>3. CASE Submit(j) \/ StageCompletion(j)
  <2>1. boot' = boot /\ execHeld' = execHeld /\ ~boot /\ pc[s] = "free"
    BY <1>2, <1>3 DEF Submit, StageCompletion, Working
  <2>2. \A k \in Jobs : Route[k] # s => queue'[k] = queue[k]
    BY <1>2, <1>3 DEF Submit, StageCompletion, StageReply, TypeInv, TypeOK
  <2>3. OpOrder(s)' /\ \A t \in Targets \ {s} : OpSame(t)
    <3>1. CASE UNCHANGED <<pc, ctx>>
      BY <2>1, <3>1 DEF OpOrder, OpSame, Choosing
    <3>2. QED BY <1>2, <1>3, <3>1, PointOrder DEF Submit, StageCompletion
  <2>4. QED BY <2>1, <2>2, <2>3, OrderLocal
<1>4. CASE TimePasses(j)
  BY <1>4 DEF TimePasses, OrderInv, OpOrder, Startable, Eligible, runtime
<1>5. QED BY <1>1, <1>3, <1>4

LEMMA StartTurnOrder == ASSUME TypeInv, OrderInv, StartTurn PROVE OrderInv'
<1>1. PICK t \in Targets :
        \/ KickTarget(t) \/ SelectHead(t) \/ Decline(t)
        \/ PreflightOk(t) \/ PreflightFail(t) \/ PreflightHeld(t) \/ PreflightUnknown(t)
        \/ Claim(t) \/ ClaimRefused(t)
        \/ Prepare(t) \/ Write(t) \/ NotWritten(t)
        \/ (\E r \in Results : DispatchRefused(t, r))
        \/ Answer(t) \/ AnswerUnknown(t)
        \/ RecordRunning(t) \/ RecordFailure(t) \/ ClaimLost(t)
        \/ DropOperation(t)
  BY DEF StartTurn
<1>2. ~boot
  BY <1>1 DEF OrderInv, KickTarget, Working, SelectHead, Decline, PreflightOk, PreflightFail,
      PreflightHeld, PreflightUnknown, Claim, ClaimRefused, Prepare, Write, NotWritten, DispatchRefused, Answer,
      AnswerUnknown, RecordRunning, RecordFailure, ClaimLost, DropOperation
<1>3. boot' = boot /\ execHeld \subseteq execHeld'
  BY <1>1 DEF KickTarget, SelectHead, Decline, PreflightOk, PreflightFail, PreflightHeld,
      PreflightUnknown, RecordPreflight, Claim, ClaimRefused, Prepare, Write, NotWritten, DispatchRefused, Answer,
      AnswerUnknown, RecordRunning, RecordFailure, ClaimLost, DropOperation, durable
<1>4. \A k \in Jobs : Route[k] # t => queue'[k] = queue[k]
  <2>1. CASE queue' = queue BY <2>1
  <2>2. ASSUME pc[t] \in WithJob, NEW r, queue' = [queue EXCEPT ![ctx[t].job] = r]
        PROVE  \A k \in Jobs : Route[k] # t => queue'[k] = queue[k]
    BY <2>2 DEF TypeInv, TypeOK, JobOfOperation
  <2>3. QED BY <1>1, <2>1, <2>2
    DEF KickTarget, SelectHead, Decline, PreflightOk, PreflightFail, PreflightHeld,
      PreflightUnknown, RecordPreflight, Claim, ClaimRefused, Prepare, Write, NotWritten, DispatchRefused, Answer,
      AnswerUnknown, RecordRunning, RecordFailure, ClaimLost, DropOperation, durable, WithJob
<1>5. OpOrder(t)' /\ \A s \in Targets \ {t} : OpSame(s)
  <2>1. CASE Release(t) \/ EnterNext(t) BY <2>1, PointOrder
  <2>2. CASE SelectHead(t)
    <3>1. PICK k \in Jobs : CanSelect(k, t) /\ ctx' = [ctx EXCEPT ![t].job = k, ![t].claim = queue[k]]
      BY <2>2 DEF SelectHead
    <3>2. ctx'[t].job = k /\ queue' = queue /\ execHeld' = execHeld
      BY <2>2, <3>1 DEF SelectHead, durable, TypeInv, TypeOK, Ctx
    <3>3. \A i \in Jobs : Startable(i, t) => queue[k].seq <= queue[i].seq
      BY <3>1 DEF CanSelect, IsHead
    <3>4. OpOrder(t)' BY <3>2, <3>3 DEF OpOrder, Startable, Eligible
    <3>5. QED BY <2>2, <3>4 DEF SelectHead, TypeInv, TypeOK, OpSame
  <2>3. CASE PreflightOk(t)
    <3>1. /\ ctx'[t].job = ctx[t].job /\ queue' = queue /\ execHeld' = execHeld
          /\ pc[t] = "preflight" /\ \A s \in Targets \ {t} : OpSame(s)
      BY <2>3 DEF PreflightOk, durable, TypeInv, TypeOK, Ctx, OpSame
    <3>2. OpOrder(t)' BY <3>1 DEF OrderInv, OpOrder, Startable, Eligible, Choosing
    <3>3. QED BY <3>1, <3>2
  <2>4. CASE \/ Claim(t) \/ Prepare(t) \/ Write(t) \/ NotWritten(t)
             \/ (\E r \in Results : DispatchRefused(t, r)) \/ Answer(t) \/ AnswerUnknown(t)
    <3>1. pc'[t] \in {"claimed", "prepared", "sent", "answered"}
      BY <2>4 DEF Claim, Prepare, Write, NotWritten, DispatchRefused, Answer, AnswerUnknown, Answered, TypeInv, TypeOK
    <3>2. \A s \in Targets \ {t} : OpSame(s)
      BY <2>4 DEF Claim, Prepare, Write, NotWritten, DispatchRefused, Answer, AnswerUnknown, Answered,
                  TypeInv, TypeOK, OpSame
    <3>3. QED BY <3>1, <3>2 DEF OpOrder, Choosing
  <2>5. QED BY <1>1, <2>1, <2>2, <2>3, <2>4
    DEF KickTarget, Decline, PreflightFail, PreflightHeld, PreflightUnknown, RecordPreflight,
        ClaimRefused, RecordRunning, RecordFailure, ClaimLost, DropOperation
<1>6. QED BY <1>2, <1>3, <1>4, <1>5, OrderLocal

LEMMA RecoverOrder == ASSUME TypeInv, OrderInv, Recover PROVE OrderInv'
<1>1. PICK t \in Targets :
        \/ (\E g \in 1..gen : Mutate(t, g) \/ Observe(t, g))
        \/ Adopt(t)
        \/ ReconcileRunning(t) \/ ReconcileBind(t) \/ ReconcileEmpty(t)
        \/ ReconcileMany(t) \/ ReconcileNothing(t)
  BY DEF Recover
<1>2. ~boot /\ boot' = boot /\ execHeld' = execHeld
  BY <1>1 DEF OrderInv, Mutate, Observe, Working, Adopt, ReconcileRunning, ReconcileBind,
      ReconcileEmpty, ReconcileMany, ReconcileNothing, Reconcilable, durable
<1>3. \A k \in Jobs : Route[k] # t => queue'[k] = queue[k]
  <2>1. CASE queue' = queue BY <2>1
  <2>2. ASSUME pc[t] \in WithJob, NEW r, queue' = [queue EXCEPT ![ctx[t].job] = r]
        PROVE  \A k \in Jobs : Route[k] # t => queue'[k] = queue[k]
    BY <2>2 DEF TypeInv, TypeOK, JobOfOperation
  <2>3. CASE Adopt(t) BY <2>3 DEF Adopt, Adopts
  <2>4. QED BY <1>1, <2>1, <2>2, <2>3
    DEF Mutate, Observe, ReconcileRunning, ReconcileBind, ReconcileEmpty,
      ReconcileMany, ReconcileNothing, Reconcilable, durable, WithJob
<1>4. OpOrder(t)' /\ \A s \in Targets \ {t} : OpSame(s)
  <2>1. CASE Release(t) BY <2>1, PointOrder
  <2>2. CASE \E g \in 1..gen : Mutate(t, g)
    <3>1. PICK g \in 1..gen : Mutate(t, g) BY <2>2
    <3>2. PICK k \in Jobs : IsHead(k, t) /\ ctx' = [ctx EXCEPT ![t] = [Idle EXCEPT
              !.lane = "recover", !.gen = g, !.job = k, !.claim = queue[k]]]
      BY <3>1 DEF Mutate
    <3>3. ctx'[t].job = k /\ queue' = queue
      BY <3>1, <3>2 DEF Mutate, durable, TypeInv, TypeOK, Idle
    <3>4. OpOrder(t)' BY <1>2, <3>2, <3>3 DEF OpOrder, IsHead, Startable, Eligible
    <3>5. QED BY <3>1, <3>4 DEF Mutate, TypeInv, TypeOK, OpSame
  <2>3. CASE (\E g \in 1..gen : Observe(t, g)) \/ (EnterAdopt(t))
             \/ (Adopt(t) /\ ctx[t].lane = "recover")
    <3>1. pc'[t] \in {"observed", "adopt", "next"} /\ \A s \in Targets \ {t} : OpSame(s)
      BY <2>3 DEF Observe, EnterAdopt, Adopt, TypeInv, TypeOK, OpSame
    <3>2. QED BY <3>1 DEF OpOrder, Choosing
  <2>4. QED BY <1>1, <2>1, <2>2, <2>3
    DEF Adopt, ReconcileRunning, ReconcileBind, ReconcileEmpty, ReconcileMany, ReconcileNothing
<1>5. QED BY <1>2, <1>3, <1>4, OrderLocal

LEMMA OtherOrder == ASSUME TypeInv, OrderInv, Control \/ Server \/ Life PROVE OrderInv'
<1>1. CASE \E t \in Targets : RetireResume(t)
  <2>1. \A t \in Targets : pc'[t] = "free" BY <1>1 DEF RetireResume, runtime, OrderInv
  <2>2. QED BY <2>1 DEF OrderInv, OpOrder, Choosing
<1>2. CASE Crash
  <2>1. \A t \in Targets : pc'[t] = "free" BY <1>2 DEF Crash
  <2>2. QED BY <2>1 DEF OrderInv, OpOrder, Choosing
<1>3. CASE Control
  <2>1. UNCHANGED <<boot, pc, ctx>> /\ execHeld \subseteq execHeld'
    BY <1>3 DEF Control, Stop, CancelLatestPending, CancelForRecovery, runtime
  <2>2. queue' = queue \/ \E S : Forget(S)
    BY <1>3 DEF Control, Stop, CancelLatestPending, CancelForRecovery
  <2>3. \A k \in Jobs : queue'[k].seq = queue[k].seq /\ (queue'[k] = queue[k] \/ queue'[k].state = "absent")
    BY <2>2 DEF Forget, NoRow
  <2>4. \A k \in Jobs : \A t \in Targets : Startable(k, t)' => Startable(k, t)
    BY <2>1, <2>3 DEF Startable, Eligible
  <2>5. QED BY <2>1, <2>3, <2>4, OrderQuiet DEF OrderInv, OpSame
<1>4. CASE UNCHANGED <<queue, execHeld, pc>> /\ (boot' => boot)
           /\ \A t \in Targets : ctx'[t].job = ctx[t].job
  BY <1>4 DEF OrderInv, OpOrder, Startable, Eligible
<1>5. CASE Server
  <2>1. UNCHANGED <<queue, execHeld, pc, boot>>
    BY <1>5 DEF Server, ServerAccept, ServerReject, ServerCompletes, ForeignTurn, durable, runtime
  <2>2. \A t \in Targets : ctx'[t].job = ctx[t].job
    <3>1. CASE ctx' = ctx BY <3>1
    <3>2. ASSUME NEW w \in wire, NEW r \in Replies, NEW u, Reply(w, r, u)
          PROVE  \A t \in Targets : ctx'[t].job = ctx[t].job
      BY <2>1, <3>2, ReplyOnce
    <3>3. QED BY <1>5, <3>1, <3>2 DEF Server, ServerAccept, ServerReject, ServerCompletes,
        ForeignTurn, runtime, Replies
  <2>3. QED BY <1>4, <2>1, <2>2
<1>6. CASE SealConnection \/ ServerDies \/ Capture \/ ReplaceServer \/ StartWorkers
  BY <1>4, <1>6 DEF SealConnection, ServerDies, Capture, ReplaceServer, StartWorkers, durable
<1>7. QED BY <1>1, <1>2, <1>3, <1>5, <1>6 DEF Life

LEMMA OrderInductive == TypeInv /\ OrderInv /\ [Next]_vars => OrderInv'
<1> SUFFICES ASSUME TypeInv, OrderInv, [Next]_vars PROVE OrderInv' OBVIOUS
<1>1. CASE UNCHANGED vars
  BY <1>1 DEF vars, durable, runtime, OrderInv, OpOrder, Startable, Eligible
<1>2. QED BY <1>1, RequestsOrder, StartTurnOrder, RecoverOrder, OtherOrder DEF Next

LEMMA InitOrder == Init => OrderInv
  BY DEF Init, OrderInv, OpOrder, Choosing

\* The requests of a thread are claimed in the order in which they were saved; only a
\* request that is held is passed.  The claim does not look at the other rows: the
\* order holds because the lock is kept from the choice of the head to its claim.
THEOREM RequestsStartInOrder == Spec => StartsInOrder
<1> DEFINE InOrder == \A j, k \in Jobs :
              /\ Route[j] = Route[k] /\ queue[k].state = "pending" /\ queue[k].seq < queue[j].seq
              /\ queue[j].state = "pending" /\ queue'[j].state = "starting"
              => k \in execHeld \/ queue[k].err = "held"
<1>1. TypeInv /\ OrderInv /\ [Next]_vars => InOrder
  <2> SUFFICES ASSUME TypeInv, OrderInv, [Next]_vars, NEW j \in Jobs, NEW k \in Jobs,
                      Route[j] = Route[k], queue[k].state = "pending", queue[k].seq < queue[j].seq,
                      queue[j].state = "pending", queue'[j].state = "starting"
               PROVE  k \in execHeld \/ queue[k].err = "held"
    OBVIOUS
  <2>1. ~Submit(j)
    <3>1. SUFFICES ASSUME Submit(j) PROVE FALSE OBVIOUS
    <3>2. queue'[j].state = "pending" BY <3>1 DEF Submit, NoRow, TypeInv, TypeOK
    <3>3. QED BY <3>2
  <2>2. Claim(Route[j]) /\ j = ctx[Route[j]].job BY <2>1, RowsMove DEF Moves
  <2>3. OpOrder(Route[j]) /\ pc[Route[j]] \in Choosing
    BY <2>2, TurnQueueAssumption DEF OrderInv, Claim, Choosing
  <2>4. ~(queue[j].seq <= queue[k].seq) BY DEF TypeInv, TypeOK, Row
  <2>5. ~Startable(k, Route[j]) BY <2>2, <2>3, <2>4 DEF OpOrder
  <2>6. QED BY <2>5 DEF Startable, Eligible
<1>2. TypeInv /\ OrderInv /\ [Next]_vars => [InOrder]_vars BY <1>1
<1>3. QED BY <1>2, InitType, TypeInductive, InitOrder, OrderInductive, PTL DEF Spec, StartsInOrder

-----------------------------------------------------------------------------
(* The queue implements the promise *)

\* A cancelled request is out of the queue, for ever.
ClosedInv == \A j \in cancelled : queue[j].state = "absent" /\ queue[j].seq # 0

LEMMA OnlyControlCancels == ASSUME [Next]_vars PROVE cancelled' = cancelled \/ Control
<1>1. CASE Requests BY <1>1 DEF Requests, Submit, StageCompletion, TimePasses
<1>2. CASE StartTurn
  <2>1. PICK t \in Targets :
        \/ KickTarget(t) \/ SelectHead(t) \/ Decline(t)
        \/ PreflightOk(t) \/ PreflightFail(t) \/ PreflightHeld(t) \/ PreflightUnknown(t)
        \/ Claim(t) \/ ClaimRefused(t)
        \/ Prepare(t) \/ Write(t) \/ NotWritten(t)
        \/ (\E r \in Results : DispatchRefused(t, r))
        \/ Answer(t) \/ AnswerUnknown(t)
        \/ RecordRunning(t) \/ RecordFailure(t) \/ ClaimLost(t)
        \/ DropOperation(t)
    BY <1>2 DEF StartTurn
  <2>2. CASE KickTarget(t) \/ SelectHead(t) \/ Decline(t) \/ PreflightOk(t) \/ PreflightFail(t)
             \/ PreflightHeld(t) \/ PreflightUnknown(t) \/ Claim(t) \/ ClaimRefused(t)
    BY <2>2 DEF KickTarget, SelectHead, Decline, PreflightOk, PreflightFail, PreflightHeld,
                PreflightUnknown, RecordPreflight, Claim, ClaimRefused, durable
  <2>3. CASE Prepare(t) \/ Write(t) \/ NotWritten(t) \/ (\E r \in Results : DispatchRefused(t, r))
             \/ Answer(t) \/ AnswerUnknown(t)
    BY <2>3 DEF Prepare, Write, NotWritten, DispatchRefused, Answer, AnswerUnknown, durable
  <2>4. CASE RecordRunning(t) \/ RecordFailure(t) \/ ClaimLost(t) \/ DropOperation(t)
    BY <2>4 DEF RecordRunning, RecordFailure, ClaimLost, DropOperation, durable
  <2>5. QED BY <2>1, <2>2, <2>3, <2>4
<1>3. CASE Recover
  BY <1>3 DEF Recover, Mutate, Observe, Adopt, ReconcileRunning, ReconcileBind, ReconcileEmpty,
              ReconcileMany, ReconcileNothing, durable
<1>4. CASE Server
  BY <1>4 DEF Server, ServerAccept, ServerReject, ServerCompletes, ForeignTurn, durable
<1>5. CASE Life
  BY <1>5 DEF Life, SealConnection, ServerDies, Capture, ReplaceServer, Crash, StartWorkers, RetireResume, durable
<1>6. CASE UNCHANGED vars BY <1>6 DEF vars, durable
<1>7. QED BY <1>1, <1>2, <1>3, <1>4, <1>5, <1>6 DEF Next

\* A cancellation closes a set of requests that were in the queue.
LEMMA ControlForgets ==
  ASSUME TypeInv, OnceInv, Control
  PROVE  /\ UNCHANGED <<outbox, owner>>
         /\ \/ UNCHANGED <<queue, cancelled>>
            \/ \E S \in SUBSET Jobs : /\ Forget(S)
                                      /\ \A j \in S : queue[j].state # "absent" /\ queue[j].seq # 0
<1>1. PICK t \in Targets : Stop(t) \/ CancelLatestPending(t) \/ CancelForRecovery(t)
  BY DEF Control
<1>2. UNCHANGED <<outbox, owner>>
  BY <1>1 DEF Stop, CancelLatestPending, CancelForRecovery, external
<1>3. RowsOf(t) \in SUBSET Jobs /\ \A j \in RowsOf(t) : queue[j].state # "absent" /\ queue[j].seq # 0
  BY DEF RowsOf, OnceInv, RowOnce
<1>4. CASE Stop(t) BY <1>2, <1>4 DEF Stop
<1>5. CASE CancelLatestPending(t)
  <2>1. PICK j \in RowsOf(t) : Forget({j}) BY <1>5 DEF CancelLatestPending
  <2>2. QED BY <1>2, <1>3, <2>1
<1>6. CASE CancelForRecovery(t) BY <1>2, <1>3, <1>6 DEF CancelForRecovery
<1>7. QED BY <1>1, <1>4, <1>5, <1>6

LEMMA ClosedInductive == TypeInv /\ OnceInv /\ ClosedInv /\ [Next]_vars => ClosedInv'
<1> SUFFICES ASSUME TypeInv, OnceInv, ClosedInv, [Next]_vars PROVE ClosedInv' OBVIOUS
<1>1. CASE cancelled' = cancelled
  <2>1. SUFFICES ASSUME NEW j \in cancelled PROVE queue'[j].state = "absent" /\ queue'[j].seq # 0
    BY <1>1 DEF ClosedInv
  <2>2. j \in Jobs /\ queue[j].state = "absent" /\ queue[j].seq # 0
    BY DEF ClosedInv, TypeInv, TypeOK
  <2>3. Moves(j) /\ ~Submit(j) BY <2>2, RowsMove DEF Submit
  <2>4. QED BY <2>2, <2>3 DEF Moves
<1>2. CASE Control
  <2>1. CASE UNCHANGED <<queue, cancelled>> BY <2>1 DEF ClosedInv
  <2>2. ASSUME NEW S \in SUBSET Jobs, Forget(S), \A j \in S : queue[j].seq # 0 PROVE ClosedInv'
    <3>1. cancelled' = cancelled \cup S /\ cancelled \subseteq Jobs
      BY <2>2 DEF Forget, TypeInv, TypeOK
    <3>2. \A j \in Jobs : \/ j \in S /\ queue'[j].state = "absent" /\ queue'[j].seq = queue[j].seq
                          \/ j \notin S /\ queue'[j] = queue[j]
      BY <2>2 DEF Forget, NoRow
    <3>3. QED BY <2>2, <3>1, <3>2 DEF ClosedInv
  <2>3. QED BY <1>2, <2>1, <2>2, ControlForgets
<1>3. QED BY <1>1, <1>2, OnlyControlCancels

\* The refinement mapping.
Phases == [j \in Jobs |-> PhaseOf(j)]
Runs   == [j \in Jobs |-> {u \in Turns : owner[u] = j}]

\* The cases of a phase exclude each other.
Sorted(j) ==
    /\ queue[j].state # "absent" => queue[j].seq # 0
    /\ j \in cancelled => queue[j].state = "absent" /\ queue[j].seq # 0

LEMMA AllSorted == ASSUME OnceInv, ClosedInv PROVE \A j \in Jobs : Sorted(j)
  BY DEF OnceInv, RowOnce, ClosedInv, Sorted

LEMMA PhaseCases ==
  ASSUME NEW j \in Jobs, Sorted(j)
  PROVE  /\ queue[j].seq = 0 => PhaseOf(j) = "new"
         /\ queue[j].state # "absent" => PhaseOf(j) = "accepted"
         /\ j \in cancelled => PhaseOf(j) = "cancelled"
         /\ queue[j].seq # 0 /\ queue[j].state = "absent" /\ j \notin cancelled => PhaseOf(j) = "replied"
  BY DEF PhaseOf, Sorted

LEMMA PhaseCasesNext ==
  ASSUME NEW j \in Jobs, Sorted(j)'
  PROVE  /\ queue'[j].seq = 0 => PhaseOf(j)' = "new"
         /\ queue'[j].state # "absent" => PhaseOf(j)' = "accepted"
         /\ j \in cancelled' => PhaseOf(j)' = "cancelled"
         /\ queue'[j].seq # 0 /\ queue'[j].state = "absent" /\ j \notin cancelled' => PhaseOf(j)' = "replied"
  BY DEF PhaseOf, Sorted

\* A row that stays in, or stays out of, the queue is in the same phase.
LEMMA PhaseKept ==
  ASSUME NEW j \in Jobs, Sorted(j), Sorted(j)', queue'[j].seq = queue[j].seq,
         queue'[j].state = "absent" <=> queue[j].state = "absent",
         j \in cancelled' <=> j \in cancelled
  PROVE  PhaseOf(j)' = PhaseOf(j)
  BY PhaseCases, PhaseCasesNext

LEMMA InitPromise == Init => Promise!Init
<1> SUFFICES ASSUME Init PROVE Promise!Init OBVIOUS
<1>1. \A j \in Jobs : queue[j].seq = 0 /\ queue[j].state = "absent" /\ j \notin cancelled
  BY DEF Init, NoRow
<1>2. \A j \in Jobs : PhaseOf(j) = "new" BY <1>1, PhaseCases DEF Sorted
<1>3. \A j \in Jobs : {u \in Turns : owner[u] = j} = {} BY TurnQueueAssumption DEF Init
<1>4. QED BY <1>2, <1>3 DEF Promise!Init, Init

LEMMA PromiseStep ==
  ASSUME TypeInv, OnceInv, BaseInv, ClosedInv, ClosedInv', OnceInv', [Next]_vars
  PROVE  Promise!Next \/ UNCHANGED Promise!vars
<1>1. \A j \in Jobs : Sorted(j) /\ Sorted(j)' BY AllSorted DEF OnceInv, RowOnce, ClosedInv, Sorted
<1>2. \A j \in Jobs : Moves(j) BY RowsMove
<1>3. owner' = owner => Runs' = Runs BY DEF Runs
<1>4. ASSUME NEW j \in Jobs, Submit(j) PROVE Promise!Accept(j)
  <2>1. UNCHANGED <<outbox, owner, cancelled>> BY <1>4 DEF Submit, external
  <2>2. /\ queue[j].seq = 0 /\ queue'[j].state = "pending"
        /\ \A k \in Jobs \ {j} : queue'[k] = queue[k]
    BY <1>4 DEF Submit, NoRow, TypeInv, TypeOK
  <2>3. PhaseOf(j) = "new" /\ PhaseOf(j)' = "accepted"
    BY <1>1, <2>2, PhaseCases, PhaseCasesNext
  <2>4. \A k \in Jobs \ {j} : PhaseOf(k)' = PhaseOf(k) BY <1>1, <2>1, <2>2, PhaseKept
  <2>5. Phases' = [Phases EXCEPT ![j] = "accepted"] BY <2>3, <2>4 DEF Phases
  <2>6. QED BY <1>3, <2>1, <2>3, <2>5 DEF Promise!Accept, Phases, Runs
<1>5. ASSUME NEW j \in Jobs, StageCompletion(j) PROVE \E u \in Turns : Promise!Answer(j, u)
  <2>1. /\ UNCHANGED <<owner, cancelled>> /\ queue[j].state = "running"
        /\ outbox' = [outbox EXCEPT ![j] = queue[j].turn]
    BY <1>5 DEF StageCompletion, StageReply, Stageable, external
  <2>2. /\ queue'[j].state = "absent" /\ queue'[j].seq = queue[j].seq
        /\ \A k \in Jobs \ {j} : queue'[k] = queue[k]
    BY <1>5 DEF StageCompletion, StageReply, NoRow, TypeInv, TypeOK
  <2>3. PICK u \in Turns : u = queue[j].turn /\ owner[u] \in {j, NoJob}
    BY <2>1 DEF BaseInv, RowBase, Fits
  <2>4. PhaseOf(j) = "accepted" /\ PhaseOf(j)' = "replied"
    BY <1>1, <2>1, <2>2, PhaseCases, PhaseCasesNext DEF Sorted
  <2>5. \A k \in Jobs \ {j} : PhaseOf(k)' = PhaseOf(k) BY <1>1, <2>1, <2>2, PhaseKept
  <2>6. Phases' = [Phases EXCEPT ![j] = "replied"] BY <2>4, <2>5 DEF Phases
  <2>7. \A k \in Jobs \ {j} : u \notin Runs[k] BY <2>3, TurnQueueAssumption DEF Runs
  <2>8. QED BY <1>3, <2>1, <2>3, <2>4, <2>6, <2>7 DEF Promise!Answer, Phases, Runs
<1>6. CASE Control
  <2>1. UNCHANGED <<outbox, owner>> BY <1>6, ControlForgets
  <2>2. CASE UNCHANGED <<queue, cancelled>>
    <3>1. \A k \in Jobs : PhaseOf(k)' = PhaseOf(k) BY <1>1, <2>2, PhaseKept
    <3>2. QED BY <1>3, <2>1, <3>1 DEF Promise!vars, Runs
  <2>3. ASSUME NEW S \in SUBSET Jobs, Forget(S), \A j \in S : queue[j].state # "absent"
        PROVE  Promise!Cancel(S)
    <3>1. \A j \in S : PhaseOf(j) = "accepted" BY <1>1, <2>3, PhaseCases
    <3>2. cancelled' = cancelled \cup S /\ \A j \in Jobs \ S : queue'[j] = queue[j]
      BY <2>3 DEF Forget
    <3>3. \A j \in S : PhaseOf(j)' = "cancelled" BY <1>1, <3>2, PhaseCasesNext
    <3>4. \A j \in Jobs \ S : PhaseOf(j)' = PhaseOf(j) BY <1>1, <3>2, PhaseKept
    <3>5. Phases' = [j \in Jobs |-> IF j \in S THEN "cancelled" ELSE Phases[j]]
      BY <3>3, <3>4 DEF Phases
    <3>6. QED BY <1>3, <2>1, <3>1, <3>5 DEF Promise!Cancel, Phases, Runs
  <2>4. QED BY <1>6, <2>2, <2>3, ControlForgets DEF Promise!Next
<1>7. ASSUME NEW w \in wire, NEW v \in Turns, ServerAccept(w, v)
      PROVE  \E j \in Jobs : Promise!Execute(j, v)
  <2>1. UNCHANGED <<queue, outbox, cancelled>> /\ owner' = [owner EXCEPT ![v] = w.job] /\ Unused(v)
    BY <1>7 DEF ServerAccept, durable
  <2>2. PICK j \in Jobs : j = w.job BY DEF TypeInv, TypeOK, Wire
  <2>3. owner[v] = NoJob
    <3>1. owner[v] # NoJob => Route[owner[v]] \in Targets BY TurnQueueAssumption DEF TypeInv, TypeOK
    <3>2. QED BY <2>1, <3>1 DEF BaseInv, TurnsAreListed, Unused
  <2>4. Runs[j] = {} BY <2>2 DEF Runs, OnceInv, AtMostOnce
  <2>5. \A k \in Jobs : v \notin Runs[k] BY <2>3, TurnQueueAssumption DEF Runs
  <2>6. Runs' = [Runs EXCEPT ![j] = {v}]
    <3>1. \A u \in Turns : owner'[u] = IF u = v THEN j ELSE owner[u]
      BY <2>1, <2>2 DEF TypeInv, TypeOK
    <3>2. \A k \in Jobs : {u \in Turns : owner'[u] = k} = IF k = j THEN {v} ELSE Runs[k]
      <4>1. ASSUME NEW k \in Jobs \ {j} PROVE {u \in Turns : owner'[u] = k} = Runs[k]
        BY <2>3, <3>1, TurnQueueAssumption DEF Runs
      <4>2. {u \in Turns : owner'[u] = j} = {v} BY <2>4, <3>1 DEF Runs
      <4>3. QED BY <4>1, <4>2
    <3>3. QED BY <3>2 DEF Runs
  <2>7. queue[j].seq # 0 BY <2>2 DEF OnceInv, RowOnce, Unsent
  <2>8. PhaseOf(j) # "new" BY <1>1, <2>7, PhaseCases
  <2>9. \A k \in Jobs : PhaseOf(k)' = PhaseOf(k) BY <1>1, <2>1, PhaseKept
  <2>10. QED BY <2>1, <2>4, <2>5, <2>6, <2>8, <2>9 DEF Promise!Execute, Runs
<1>8. CASE /\ ~\E j \in Jobs : Submit(j) \/ StageCompletion(j)
           /\ ~Control
           /\ ~\E w \in wire, v \in Turns : ServerAccept(w, v)
  <2>1. UNCHANGED <<outbox, owner, cancelled>>
    BY <1>8, OnlyCompletionReplies, OnlyAcceptRuns, OnlyControlCancels
  <2>2. \A k \in Jobs : PhaseOf(k)' = PhaseOf(k) BY <1>1, <1>2, <1>8, <2>1, PhaseKept DEF Moves
  <2>3. QED BY <1>3, <2>1, <2>2 DEF Promise!vars, Runs
<1>9. QED BY <1>4, <1>5, <1>6, <1>7, <1>8 DEF Promise!Next

\* The queue, with its crashes, timeouts, cancellations and recoveries, implements what
\* is promised of the requests: each is executed at most once, after it was accepted,
\* and closed once, with a reply that is not another request's.
THEOREM QueueKeepsPromise == Spec => KeepsPromise
<1> DEFINE Inv == TypeInv /\ OnceInv /\ OwnerInv /\ BaseInv /\ ClosedInv
<1>1. Init => Inv
  <2>1. Init => ClosedInv BY DEF Init, ClosedInv
  <2>2. QED BY <2>1, InitType, InitOnce, InitOwner, InitBase
<1>2. Inv /\ [Next]_vars => Inv'
  BY TypeInductive, OnceInductive, OwnerInductive, BaseInductive, ClosedInductive
<1>3. Inv /\ Inv' /\ [Next]_vars => [Promise!Next]_Promise!vars BY PromiseStep
<1>4. QED BY <1>1, <1>2, <1>3, InitPromise, PTL DEF Spec, KeepsPromise, Promise!Spec
=============================================================================
