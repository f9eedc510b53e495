------------------------- MODULE PromptIntakeProofs -------------------------
(***************************************************************************)
(* A prompt is in one place and is queued at most once, a lease is ended   *)
(* only by its holder, and what the user was told stays true.              *)
(***************************************************************************)
EXTENDS PromptIntake, FiniteSetTheorems, TLAPS

-----------------------------------------------------------------------------
(* The inductive invariant *)

IntakeRow == [token: Workers \cup {None}, lease: 0..Lease, retry: 0..Backoff, present: BOOLEAN]
WorkerState == [pc: Steps \cup Processing, job: Jobs \cup {None}, inTime: BOOLEAN, watched: BOOLEAN]

\* A live worker works for its own prompt, which was accepted; the recovery worker
\* has a prompt from the claim on.
WorkInv ==
  /\ \A j \in Jobs: worker[j].pc # "off" => worker[j].job = j /\ told[j] # "nothing"
  /\ worker[Recovery].pc \notin {"off", "claim"} => worker[Recovery].job \in Jobs

\* Where a prompt is.  Before it is accepted it is nowhere; what is in the table was
\* never queued; the word "held" is said only under a hold, which nobody takes back.
PlaceInv(j) ==
  /\ told[j] = "nothing" =>
       ~intake[j].present /\ turn[j] = "none" /\ j \notin cancelled /\ promoted[j] = 0
  /\ told[j] # "nothing" => intake[j].present \/ turn[j] # "none" \/ j \in cancelled
  /\ intake[j].present => turn[j] = "none" /\ j \notin cancelled /\ promoted[j] = 0
  /\ turn[j] # "none" => j \notin cancelled
  /\ promoted[j] <= 1
  /\ ~intake[j].present => intake[j] = NoRow
  /\ told[j] = "held" => j \in held \/ dead

IntakeInv == TypeOK /\ WorkInv /\ \A j \in Jobs: PlaceInv(j)

-----------------------------------------------------------------------------
(* Rows and workers *)

LEMMA Bounds == {0, Lease} \subseteq 0..Lease /\ {0, Backoff} \subseteq 0..Backoff
  BY IntakeConstants

LEMMA RowTypes ==
  /\ NoRow \in IntakeRow /\ NewRow \in IntakeRow /\ NewRow.present /\ ~NoRow.present
  /\ NoRow.token = None /\ NoRow.lease = 0
<1>1. NoRow \in IntakeRow BY Bounds DEF NoRow, IntakeRow
<1>2. NewRow \in IntakeRow /\ NewRow.present BY <1>1 DEF NewRow, IntakeRow
<1>3. QED BY <1>1, <1>2 DEF NoRow

LEMMA FailedRow ==
  /\ [NewRow EXCEPT !.retry = Backoff] \in IntakeRow
  /\ [NewRow EXCEPT !.retry = Backoff].present
  BY RowTypes, Bounds DEF IntakeRow

LEMMA LeasedRow ==
  ASSUME NEW r \in IntakeRow
  PROVE  /\ [r EXCEPT !.lease = Lease] \in IntakeRow
         /\ [r EXCEPT !.lease = Lease].present = r.present
         /\ [r EXCEPT !.lease = Lease].token = r.token
  BY IntakeConstants DEF IntakeRow

LEMMA ClaimRow ==
  ASSUME NEW w \in Workers \cup {None}, NEW r \in IntakeRow, NEW n \in {0, Lease}
  PROVE  /\ [r EXCEPT !.token = w, !.lease = n] \in IntakeRow
         /\ [r EXCEPT !.token = w, !.lease = n].present = r.present
         /\ [r EXCEPT !.token = w, !.lease = n].token = w
  BY Bounds DEF IntakeRow

LEMMA OffType == Off \in WorkerState /\ Off.pc = "off"
  BY DEF Off, WorkerState, Steps

LEMMA BegunType ==
  ASSUME NEW pc \in Steps \cup Processing, NEW j \in Jobs \cup {None}
  PROVE  Begun(pc, j) \in WorkerState /\ Begun(pc, j).pc = pc /\ Begun(pc, j).job = j
  BY DEF Begun, Off, WorkerState

\* A worker goes on with its prompt.
Goes(w) ==
  /\ worker' \in [Workers -> WorkerState]
  /\ worker'[w].job = worker[w].job
  /\ \A v \in Workers \ {w}: worker'[v] = worker[v]

LEMMA StepType ==
  ASSUME worker \in [Workers -> WorkerState], NEW w \in Workers, NEW pc \in Steps \cup Processing,
         Step(w, pc)
  PROVE  Goes(w) /\ worker'[w].pc = pc
<1> DEFINE s == IF pc \in Processing THEN [worker[w] EXCEPT !.pc = pc] ELSE Begun(pc, worker[w].job)
<1>1. worker[w] \in WorkerState /\ worker[w].job \in Jobs \cup {None} BY DEF WorkerState
<1>2. CASE pc \in Processing
  <2>1. s \in WorkerState /\ s.pc = pc /\ s.job = worker[w].job BY <1>1, <1>2 DEF WorkerState
  <2>2. QED BY <2>1 DEF Step, Goes
<1>3. CASE pc \notin Processing
  <2>1. s \in WorkerState /\ s.pc = pc /\ s.job = worker[w].job BY <1>1, <1>3, BegunType
  <2>2. QED BY <2>1 DEF Step, Goes
<1>4. QED BY <1>2, <1>3

LEMMA Workforce == \A w \in Workers: w = Recovery \/ w \in Jobs
  BY DEF Workers

LEMMA Distinct ==
  /\ Recovery \in Workers /\ Recovery \notin Jobs /\ Jobs \subseteq Workers /\ None \notin Workers
  BY IntakeConstants DEF Workers

\* A row of the table has no queue row, so that nothing is left to remove.
LEMMA NothingToRemove ==
  ASSUME NEW j \in Jobs, PlaceInv(j), NEW r, r.present = intake[j].present
  PROVE  RemovedIfQueued(r, j) = r
  BY DEF RemovedIfQueued, PlaceInv, Rowed

-----------------------------------------------------------------------------
(* Frames *)

\* The table keeps its rows, and a user is only told more.
Frame ==
  /\ UNCHANGED <<turn, cancelled, promoted>>
  /\ held \subseteq held' /\ (dead => dead')
  /\ \A j \in Jobs:
       /\ intake'[j].present = intake[j].present
       /\ intake'[j] = intake[j] \/ intake[j].present
       /\ \/ told'[j] = told[j]
          \/ told[j] # "nothing" /\ told'[j] # "nothing" /\ (told'[j] = "held" => j \in held \/ dead)

LEMMA PlacesKept ==
  ASSUME \A j \in Jobs: PlaceInv(j), Frame PROVE \A j \in Jobs: PlaceInv(j)'
  BY DEF PlaceInv, Frame

\* A worker that goes on keeps its prompt.
LEMMA WorkKept ==
  ASSUME TypeOK, WorkInv, NEW w \in Workers, worker[w].pc # "off",
         w = Recovery => worker[w].pc # "claim",
         Goes(w), \A j \in Jobs: told[j] # "nothing" => told'[j] # "nothing"
  PROVE  WorkInv'
<1>1. ASSUME NEW j \in Jobs, worker'[j].pc # "off" PROVE worker'[j].job = j /\ told'[j] # "nothing"
  <2>1. CASE j = w BY <2>1 DEF WorkInv, Goes
  <2>2. CASE j # w BY <1>1, <2>2, Distinct DEF WorkInv, Goes
  <2>3. QED BY <2>1, <2>2
<1>2. worker'[Recovery].pc \notin {"off", "claim"} => worker'[Recovery].job \in Jobs
  <2>1. CASE Recovery = w BY <2>1 DEF WorkInv, Goes
  <2>2. CASE Recovery # w BY <2>2, Distinct DEF WorkInv, Goes
  <2>3. QED BY <2>1, <2>2
<1>3. QED BY <1>1, <1>2 DEF WorkInv

\* What a worker past its claim works on.
LEMMA HasJob ==
  ASSUME IntakeInv, NEW w \in Workers, worker[w].pc \notin {"off", "claim"}
  PROVE  worker[w].job \in Jobs /\ (w # Recovery => worker[w].job = w /\ told[w] # "nothing")
  BY Workforce DEF IntakeInv, WorkInv

\* A step of a worker that writes at most its own row and its own user's message.
LEMMA WorkerStep ==
  ASSUME IntakeInv, NEW w \in Workers, worker[w].pc \notin {"off", "claim"}, Goes(w),
         UNCHANGED <<turn, held, dead, cancelled, todo, boot, crashes, promoted>>,
         lock' \in Workers \cup {None},
         intake' \in [Jobs -> IntakeRow], Frame,
         told' \in [Jobs -> {"nothing", "accepted", "queued", "held", "pending", "missing",
                             "saved", "error"}]
  PROVE  IntakeInv'
<1>1. WorkInv' BY WorkKept DEF IntakeInv, Frame
<1>2. \A j \in Jobs: PlaceInv(j)' BY PlacesKept DEF IntakeInv
<1>3. TypeOK' BY DEF IntakeInv, TypeOK, IntakeRow, WorkerState, Goes
<1>4. QED BY <1>1, <1>2, <1>3 DEF IntakeInv

LEMMA UnlockType ==
  ASSUME IntakeInv, NEW w \in Workers, Unlock(w) PROVE lock' \in Workers \cup {None}
  BY DEF Unlock, IntakeInv, TypeOK

\* The variables, by the names used here.
LEMMA Shapes ==
  ASSUME IntakeInv
  PROVE  /\ intake \in [Jobs -> IntakeRow] /\ worker \in [Workers -> WorkerState]
         /\ lock \in Workers \cup {None}
         /\ told \in [Jobs -> {"nothing", "accepted", "queued", "held", "pending", "missing",
                               "saved", "error"}]
  BY DEF IntakeInv, TypeOK, IntakeRow, WorkerState

\* A step that leaves the table and the messages alone.
LEMMA QuietStep ==
  ASSUME IntakeInv, NEW w \in Workers, worker[w].pc \notin {"off", "claim"}, Goes(w),
         lock' \in Workers \cup {None},
         UNCHANGED <<turn, held, dead, cancelled, todo, boot, crashes, promoted, intake, told>>
  PROVE  IntakeInv'
  BY Shapes, WorkerStep DEF Frame

\* A step that rewrites the worker's own row, or tells its own user something.
LEMMA RowStep ==
  ASSUME IntakeInv, NEW w \in Workers, worker[w].pc \notin {"off", "claim"}, Goes(w),
         lock' \in Workers \cup {None}, NEW j \in Jobs, j = worker[w].job,
         NEW r \in IntakeRow, intake' = [intake EXCEPT ![j] = r], r.present = intake[j].present,
         r = intake[j] \/ intake[j].present,
         NEW m \in {"accepted", "queued", "held", "pending", "missing", "saved", "error"},
         told' = told \/ (w # Recovery /\ told' = [told EXCEPT ![j] = m]),
         m = "held" => j \in held \/ dead,
         UNCHANGED <<turn, held, dead, cancelled, todo, boot, crashes, promoted>>
  PROVE  IntakeInv'
<1>1. intake' \in [Jobs -> IntakeRow] BY Shapes
<1>2. told' \in [Jobs -> {"nothing", "accepted", "queued", "held", "pending", "missing",
                          "saved", "error"}]
  BY Shapes
<1>3. w # Recovery => told[j] # "nothing" BY HasJob
<1>4. Frame BY <1>3, Shapes DEF Frame
<1>5. QED BY <1>1, <1>2, <1>4, WorkerStep

-----------------------------------------------------------------------------
(* Steps of a worker *)

LEMMA RenewalsKeep ==
  ASSUME IntakeInv, NEW w \in Workers, FirstRenewal(w) \/ Renewal(w) PROVE IntakeInv'
<1>1. worker[w].pc \notin {"off", "claim"} BY DEF FirstRenewal, Renewal, Processing
<1>2. PICK j \in Jobs: j = worker[w].job BY <1>1, HasJob
<1>3. intake[j] \in IntakeRow BY Shapes
<1>4. [intake[j] EXCEPT !.lease = Lease] \in IntakeRow
      /\ [intake[j] EXCEPT !.lease = Lease].present = intake[j].present
  BY <1>3, LeasedRow
<1>5. UNCHANGED <<turn, held, dead, cancelled, todo, boot, crashes, told, promoted>>
  BY DEF FirstRenewal, Renewal
<1>6. lock' \in Workers \cup {None} BY Shapes, UnlockType DEF FirstRenewal, Renewal
<1>7. Goes(w)
  <2>1. CASE worker' = worker BY <2>1, Shapes DEF Goes
  <2>2. CASE Step(w, "lost") \/ Step(w, "preparing")
    BY <2>2, Shapes, StepType DEF Steps, Processing
  <2>3. CASE worker' = [worker EXCEPT ![w].watched = FALSE]
    <3>1. worker[w] \in WorkerState BY Shapes
    <3>2. [worker[w] EXCEPT !.watched = FALSE] \in WorkerState
          /\ [worker[w] EXCEPT !.watched = FALSE].job = worker[w].job
      BY <3>1 DEF WorkerState
    <3>3. QED BY <2>3, <3>2, Shapes DEF Goes
  <2>4. QED BY <2>1, <2>2, <2>3 DEF FirstRenewal, Renewal
<1>8. \/ intake' = intake
      \/ Current(w, j) /\ intake' = [intake EXCEPT ![j] = [intake[j] EXCEPT !.lease = Lease]]
  BY <1>2 DEF FirstRenewal, Renewal
<1>9. CASE intake' = intake BY <1>1, <1>5, <1>6, <1>7, <1>9, QuietStep
<1>10. CASE Current(w, j) /\ intake' = [intake EXCEPT ![j] = [intake[j] EXCEPT !.lease = Lease]]
  BY <1>1, <1>2, <1>4, <1>5, <1>6, <1>7, <1>10, RowStep DEF Current
<1>11. QED BY <1>8, <1>9, <1>10

LEMMA QuietsKeep ==
  ASSUME IntakeInv, NEW w \in Workers, TakeLock(w) \/ FinishSubmission(w) \/ Fail(w)
  PROVE  IntakeInv'
<1>1. worker[w].pc \notin {"off", "claim"} BY DEF TakeLock, FinishSubmission, Fail, Processing
<1>2. PICK j \in Jobs: j = worker[w].job BY <1>1, HasJob
<1>3. UNCHANGED <<intake, turn, held, dead, cancelled, todo, boot, crashes, promoted>>
  BY DEF TakeLock, FinishSubmission, Fail, store
<1>4. lock' \in Workers \cup {None}
  BY Shapes, UnlockType DEF TakeLock, FinishSubmission, Fail
<1>5. Goes(w)
  <2>1. CASE Step(w, "failed") \/ Step(w, "done")
    BY <2>1, Shapes, StepType DEF Steps
  <2>2. CASE worker' = [worker EXCEPT ![w].pc = "locked", ![w].inTime = Current(w, worker[w].job)]
    <3>1. worker[w] \in WorkerState /\ intake[j] \in IntakeRow BY Shapes
    <3>2. Current(w, worker[w].job) \in BOOLEAN
      BY <1>2, <3>1 DEF Current, IntakeRow
    <3>3. DEFINE s == [worker[w] EXCEPT !.pc = "locked", !.inTime = Current(w, worker[w].job)]
    <3>4. s \in WorkerState /\ s.job = worker[w].job
      BY <3>1, <3>2 DEF WorkerState, Processing
    <3>5. QED BY <2>2, <3>4, Shapes DEF Goes
  <2>3. QED BY <2>1, <2>2 DEF TakeLock, FinishSubmission, Fail
<1>6. CASE told' = told BY <1>1, <1>3, <1>4, <1>5, <1>6, QuietStep
<1>7. CASE w # Recovery /\ told' = [told EXCEPT ![j] = "queued"]
  <2>1. intake[j] \in IntakeRow /\ intake' = [intake EXCEPT ![j] = intake[j]] BY <1>3, Shapes
  <2>2. QED BY <1>1, <1>2, <1>3, <1>4, <1>5, <1>7, <2>1, RowStep
<1>8. QED BY <1>2, <1>6, <1>7 DEF TakeLock, FinishSubmission, Fail

LEMMA FailuresKeep ==
  ASSUME IntakeInv, NEW w \in Workers,
         \/ w \in Jobs /\ FinishLive(w)
         \/ w = Recovery /\ FinishRecovery
         \/ RecordFailure(w)
         \/ FinishLost(w)
  PROVE  IntakeInv'
<1>1. worker[w].pc \notin {"off", "claim"}
  BY DEF FinishLive, FinishRecovery, RecordFailure, FinishLost
<1>2. PICK j \in Jobs: j = worker[w].job /\ (w # Recovery => j = w) BY <1>1, HasJob
<1>3. UNCHANGED <<turn, held, dead, cancelled, todo, lock, boot, crashes, promoted>>
  BY DEF FinishLive, FinishRecovery, RecordFailure, FinishLost
<1>4. intake[j] \in IntakeRow /\ intake[j] = RemovedIfQueued(intake[j], j)
  BY Shapes, NothingToRemove DEF IntakeInv
<1>5. Goes(w)
  <2>1. Step(w, "done") \/ Step(w, "backoff")
    BY DEF FinishLive, FinishRecovery, RecordFailure, FinishLost
  <2>2. QED BY <2>1, Shapes, StepType DEF Steps
<1>6. \/ intake' = [intake EXCEPT ![j] = intake[j]]
      \/ intake[j].present /\ intake' = [intake EXCEPT ![j] = [NewRow EXCEPT !.retry = Backoff]]
  <2>1. intake' = intake => intake' = [intake EXCEPT ![j] = intake[j]] BY Shapes
  <2>2. QED BY <1>2, <1>4, <2>1, Distinct
    DEF FinishLive, FinishRecovery, RecordFailure, FinishLost, Failable
<1>7. \E m \in {"accepted", "queued", "held", "pending", "missing", "saved", "error"}:
        /\ m = "held" => j \in held \/ dead
        /\ told' = told \/ (w # Recovery /\ told' = [told EXCEPT ![j] = m])
  BY <1>2, Distinct DEF FinishLive, FinishRecovery, RecordFailure, FinishLost, Replay
<1>8. PICK m \in {"accepted", "queued", "held", "pending", "missing", "saved", "error"}:
        /\ m = "held" => j \in held \/ dead
        /\ told' = told \/ (w # Recovery /\ told' = [told EXCEPT ![j] = m])
  BY <1>7
<1>9. lock' \in Workers \cup {None} BY <1>3, Shapes
<1>10. CASE intake' = [intake EXCEPT ![j] = intake[j]]
  BY <1>1, <1>2, <1>3, <1>4, <1>5, <1>8, <1>9, <1>10, RowStep
<1>11. CASE intake[j].present /\ intake' = [intake EXCEPT ![j] = [NewRow EXCEPT !.retry = Backoff]]
  BY <1>1, <1>2, <1>3, <1>5, <1>8, <1>9, <1>11, FailedRow, RowStep
<1>12. QED BY <1>6, <1>10, <1>11

\* The queue row appears and the intake row ends in one step, for a prompt that was
\* never queued.
LEMMA PromoteKeeps == ASSUME IntakeInv, NEW w \in Workers, Promote(w) PROVE IntakeInv'
<1>1. worker[w].pc \notin {"off", "claim"} BY DEF Promote
<1>2. PICK j \in Jobs: j = worker[w].job BY <1>1, HasJob
<1>3. UNCHANGED <<held, dead, cancelled, todo, boot, crashes, told>> BY DEF Promote
<1>4. Goes(w)
  <2>1. Step(w, "starting") \/ Step(w, "failed") BY DEF Promote
  <2>2. QED BY <2>1, Shapes, StepType DEF Steps, Processing
<1>5. lock' \in Workers \cup {None} BY Shapes, UnlockType DEF Promote
<1>6. CASE UNCHANGED <<turn, intake, promoted>> BY <1>1, <1>3, <1>4, <1>5, <1>6, QuietStep
<1>7. CASE /\ Promotable(w, j) /\ turn' = [turn EXCEPT ![j] = "pending"]
           /\ intake' = [intake EXCEPT ![j] = NoRow]
           /\ promoted' = [promoted EXCEPT ![j] = @ + 1]
  <2>1. intake[j].present /\ told[j] # "nothing" /\ promoted[j] = 0
    BY <1>7 DEF Promotable, IntakeInv, PlaceInv
  <2>2. intake'[j] = NoRow /\ \A k \in Jobs \ {j}: intake'[k] = intake[k]
    BY <1>7, Shapes
  <2>3. /\ turn'[j] = "pending" /\ promoted'[j] = 1
        /\ \A k \in Jobs \ {j}: turn'[k] = turn[k] /\ promoted'[k] = promoted[k]
    BY <1>7, <2>1 DEF IntakeInv, TypeOK
  <2>4. \A k \in Jobs: PlaceInv(k)'
    <3>1. PlaceInv(j)'
      BY <1>3, <2>1, <2>2, <2>3, RowTypes DEF PlaceInv, IntakeInv
    <3>2. \A k \in Jobs \ {j}: PlaceInv(k)'
      BY <1>3, <2>2, <2>3 DEF PlaceInv, IntakeInv
    <3>3. QED BY <3>1, <3>2
  <2>5. WorkInv' BY <1>1, <1>3, <1>4, WorkKept DEF IntakeInv
  <2>6. intake' \in [Jobs -> IntakeRow] BY <1>7, Shapes, RowTypes
  <2>7. turn' \in [Jobs -> {"none", "pending", "started", "outbox", "delivered"}]
        /\ promoted' \in [Jobs -> Nat]
    BY <1>7, <2>1 DEF IntakeInv, TypeOK
  <2>8. TypeOK' BY <1>3, <1>4, <1>5, <2>6, <2>7 DEF IntakeInv, TypeOK, IntakeRow, WorkerState, Goes
  <2>9. QED BY <2>4, <2>5, <2>8 DEF IntakeInv
<1>8. QED BY <1>2, <1>6, <1>7 DEF Promote

-----------------------------------------------------------------------------
(* Claims and the recovery pass *)

\* A claim writes the token and the lease into a row of the table.
LEMMA ClaimedIntake ==
  ASSUME IntakeInv, NEW w \in Workers, NEW j \in Jobs, Claimable(j), intake' = ClaimedRow(w, j)
  PROVE  /\ intake' \in [Jobs -> IntakeRow]
         /\ \A k \in Jobs: /\ intake'[k].present = intake[k].present
                           /\ intake'[k] = intake[k] \/ intake[k].present
<1> DEFINE r == [intake[j] EXCEPT !.token = w, !.lease = Lease]
<1>1. intake[j] \in IntakeRow BY Shapes
<1>2. r \in IntakeRow /\ r.present = intake[j].present BY <1>1, ClaimRow
<1>3. intake' = [intake EXCEPT ![j] = r] BY Shapes DEF ClaimedRow
<1>4. QED BY <1>2, <1>3, Shapes DEF Claimable

LEMMA LiveClaimKeeps == ASSUME IntakeInv, NEW j \in Jobs, LiveClaim(j) PROVE IntakeInv'
<1>1. /\ worker[j].pc = "claim" /\ worker[j].job = j /\ told[j] # "nothing" /\ j \in Workers /\ j # Recovery
      /\ UNCHANGED <<turn, held, dead, cancelled, todo, lock, boot, crashes, promoted>>
  BY Distinct DEF LiveClaim, IntakeInv, WorkInv
<1>2. Goes(j) BY <1>1, Shapes, StepType DEF LiveClaim, Steps
<1>3. /\ intake' \in [Jobs -> IntakeRow]
      /\ \A k \in Jobs: /\ intake'[k].present = intake[k].present
                        /\ intake'[k] = intake[k] \/ intake[k].present
  <2>1. CASE intake' = intake BY <2>1, Shapes
  <2>2. CASE Claimable(j) /\ intake' = ClaimedRow(j, j) BY <1>1, <2>2, ClaimedIntake
  <2>3. QED BY <2>1, <2>2 DEF LiveClaim
<1>4. told' = told \/ \E m \in {"queued", "held", "pending", "missing"}:
                        told' = [told EXCEPT ![j] = m] /\ (m = "held" => j \in held)
  BY DEF LiveClaim, Replay
<1>5. Frame BY <1>1, <1>3, <1>4, Shapes DEF Frame
<1>6. told' \in [Jobs -> {"nothing", "accepted", "queued", "held", "pending", "missing",
                          "saved", "error"}]
  BY <1>4, Shapes
<1>7. \A k \in Jobs: PlaceInv(k)' BY <1>5, PlacesKept DEF IntakeInv
<1>8. WorkInv' BY <1>1, <1>2, <1>5, WorkKept DEF IntakeInv, Frame
<1>9. TypeOK' BY <1>1, <1>2, <1>3, <1>6 DEF IntakeInv, TypeOK, IntakeRow, WorkerState, Goes
<1>10. QED BY <1>7, <1>8, <1>9 DEF IntakeInv

\* The recovery worker stays the recovery worker.
LEMMA RecoveryStep ==
  ASSUME IntakeInv, worker' \in [Workers -> WorkerState],
         \A j \in Jobs: worker'[j] = worker[j],
         worker'[Recovery].pc \notin {"off", "claim"} => worker'[Recovery].job \in Jobs,
         UNCHANGED <<turn, held, dead, cancelled, lock, crashes, told, promoted>>,
         todo' \subseteq Jobs, boot' \in BOOLEAN, intake' \in [Jobs -> IntakeRow],
         \A k \in Jobs: /\ intake'[k].present = intake[k].present
                        /\ intake'[k] = intake[k] \/ intake[k].present
  PROVE  IntakeInv'
<1>1. Frame BY DEF Frame
<1>2. \A k \in Jobs: PlaceInv(k)' BY <1>1, PlacesKept DEF IntakeInv
<1>3. WorkInv' BY DEF IntakeInv, WorkInv
<1>4. TypeOK' BY DEF IntakeInv, TypeOK, IntakeRow, WorkerState
<1>5. QED BY <1>2, <1>3, <1>4 DEF IntakeInv

\* A pass of the recovery frees what a dead process had claimed, and removes nothing.
LEMMA ScannedRow ==
  ASSUME IntakeInv, NEW j \in Jobs
  PROVE  /\ Rows[j] \in IntakeRow /\ Rows[j].present = intake[j].present
         /\ Rows[j] = intake[j] \/ (boot /\ intake[j].present)
<1> DEFINE r == IF boot /\ intake[j].present
                THEN [intake[j] EXCEPT !.token = None, !.lease = 0] ELSE intake[j]
<1>1. intake[j] \in IntakeRow BY Shapes
<1>2. r \in IntakeRow /\ r.present = intake[j].present
  <2>1. CASE boot /\ intake[j].present
    <3>1. None \in Workers \cup {None} /\ 0 \in {0, Lease} OBVIOUS
    <3>2. QED BY <1>1, <2>1, <3>1, ClaimRow
  <2>2. CASE ~(boot /\ intake[j].present) BY <1>1, <2>2
  <2>3. QED BY <2>1, <2>2
<1>3. Rows[j] = RemovedIfQueued(r, j) BY DEF Rows
<1>4. Rows[j] = r BY <1>2, <1>3, NothingToRemove DEF IntakeInv
<1>5. QED BY <1>2, <1>4

LEMMA RecoveryPassKeeps ==
  ASSUME IntakeInv, Scan \/ RecoveryClaim \/ NextReady \/ PassOver PROVE IntakeInv'
<1>1. UNCHANGED <<turn, held, dead, cancelled, lock, crashes, told, promoted>>
  BY DEF Scan, RecoveryClaim, NextReady, PassOver, store
<1>2. todo \subseteq Jobs /\ boot \in BOOLEAN BY DEF IntakeInv, TypeOK
<1>3. CASE Scan
  <2>1. intake' = Rows /\ Step(Recovery, "claim") /\ boot' = boot /\ todo' \subseteq Jobs
    BY <1>3 DEF Scan, Ready
  <2>2. Goes(Recovery) /\ worker'[Recovery].pc = "claim"
    BY <2>1, Distinct, Shapes, StepType DEF Steps
  <2>3. \A j \in Jobs: intake'[j] = Rows[j] BY <2>1
  <2>4. DOMAIN Rows = Jobs /\ Rows = [j \in Jobs |-> Rows[j]] BY DEF Rows
  <2>5. intake' \in [Jobs -> IntakeRow] BY <2>1, <2>4, ScannedRow
  <2>6. QED BY <1>1, <1>2, <2>1, <2>2, <2>3, <2>5, Distinct, ScannedRow, RecoveryStep DEF Goes
<1>4. CASE RecoveryClaim
  <2>1. PICK j \in todo: /\ todo' = todo \ {j}
                         /\ \/ UNCHANGED <<intake, worker>>
                            \/ /\ Claimable(j) /\ intake' = ClaimedRow(Recovery, j)
                               /\ worker' = [worker EXCEPT ![Recovery] = Begun("claimed", j)]
    BY <1>4 DEF RecoveryClaim
  <2>2. boot' = boot /\ j \in Jobs /\ todo' \subseteq Jobs BY <1>2, <1>4, <2>1 DEF RecoveryClaim
  <2>3. CASE UNCHANGED <<intake, worker>>
    BY <1>1, <1>2, <2>2, <2>3, Shapes, RecoveryStep DEF IntakeInv, WorkInv
  <2>4. CASE /\ Claimable(j) /\ intake' = ClaimedRow(Recovery, j)
             /\ worker' = [worker EXCEPT ![Recovery] = Begun("claimed", j)]
    <3>1. Begun("claimed", j) \in WorkerState /\ Begun("claimed", j).job = j
      BY <2>2, BegunType DEF Steps
    <3>2. worker' \in [Workers -> WorkerState] /\ worker'[Recovery].job = j
          /\ \A k \in Jobs: worker'[k] = worker[k]
      BY <2>4, <3>1, Distinct, Shapes
    <3>3. QED BY <1>1, <1>2, <2>2, <2>4, <3>2, Distinct, ClaimedIntake, RecoveryStep
  <2>5. QED BY <2>1, <2>3, <2>4
<1>5. CASE NextReady \/ PassOver
  <2>1. PICK s \in WorkerState: worker' = [worker EXCEPT ![Recovery] = s] /\ s.pc \in {"off", "claim"}
    <3>1. [Off EXCEPT !.pc = "claim"] \in WorkerState /\ [Off EXCEPT !.pc = "claim"].pc = "claim"
      BY DEF Off, WorkerState, Steps
    <3>2. QED BY <1>5, <3>1, OffType DEF NextReady, PassOver
  <2>2. worker' \in [Workers -> WorkerState] /\ worker'[Recovery].pc \in {"off", "claim"}
        /\ \A k \in Jobs: worker'[k] = worker[k]
    BY <2>1, Distinct, Shapes
  <2>3. intake' = intake /\ todo' = todo /\ boot' \in BOOLEAN
    BY <1>2, <1>5 DEF NextReady, PassOver, store
  <2>4. QED BY <1>1, <1>2, <2>2, <2>3, Shapes, RecoveryStep
<1>6. QED BY <1>3, <1>4, <1>5

-----------------------------------------------------------------------------
(* The admission, the queue, the controls, time and crashes *)

LEMMA AdmitKeeps == ASSUME IntakeInv, NEW j \in Jobs, Admit(j) PROVE IntakeInv'
<1>1. /\ intake' = [intake EXCEPT ![j] = NewRow] /\ told' = [told EXCEPT ![j] = "accepted"]
      /\ worker' = [worker EXCEPT ![j] = Begun("claim", j)]
      /\ told[j] = "nothing"
      /\ UNCHANGED <<turn, held, dead, cancelled, todo, lock, boot, crashes, promoted>>
  BY DEF Admit
<1>2. Begun("claim", j) \in WorkerState /\ Begun("claim", j).job = j BY BegunType DEF Steps
<1>3. /\ intake'[j] = NewRow /\ told'[j] = "accepted" /\ worker'[j].job = j
      /\ \A k \in Jobs \ {j}: intake'[k] = intake[k] /\ told'[k] = told[k]
      /\ \A v \in Workers \ {j}: worker'[v] = worker[v]
  BY <1>1, <1>2, Shapes, Distinct
<1>4. \A k \in Jobs: PlaceInv(k)'
  <2>1. PlaceInv(j)' BY <1>1, <1>3, RowTypes DEF PlaceInv, IntakeInv
  <2>2. \A k \in Jobs \ {j}: PlaceInv(k)' BY <1>1, <1>3 DEF PlaceInv, IntakeInv
  <2>3. QED BY <2>1, <2>2
<1>5. WorkInv' BY <1>3, Distinct DEF WorkInv, IntakeInv
<1>6. intake' \in [Jobs -> IntakeRow] /\ worker' \in [Workers -> WorkerState]
  BY <1>1, <1>2, Shapes, RowTypes
<1>7. TypeOK' BY <1>1, <1>6 DEF IntakeInv, TypeOK, IntakeRow, WorkerState
<1>8. QED BY <1>4, <1>5, <1>7 DEF IntakeInv

LEMMA QueueMovesKeeps == ASSUME IntakeInv, NEW j \in Jobs, QueueMoves(j) PROVE IntakeInv'
<1>1. PICK x \in {"started", "outbox", "delivered"}: turn[j] # "none" /\ turn' = [turn EXCEPT ![j] = x]
  BY DEF QueueMoves
<1>2. UNCHANGED <<intake, held, dead, cancelled, worker, todo, lock, boot, crashes, told, promoted>>
  BY DEF QueueMoves
<1>3. \A k \in Jobs: turn'[k] = "none" <=> turn[k] = "none"
  BY <1>1 DEF IntakeInv, TypeOK
<1>4. \A k \in Jobs: PlaceInv(k)' BY <1>2, <1>3 DEF IntakeInv, PlaceInv
<1>5. TypeOK' BY <1>1, <1>2 DEF IntakeInv, TypeOK
<1>6. QED BY <1>2, <1>4, <1>5 DEF IntakeInv, WorkInv

LEMMA CancelKeeps == ASSUME IntakeInv, Cancel PROVE IntakeInv'
<1>1. PICK j \in Cancellable: /\ cancelled' = cancelled \cup {j}
                              /\ intake' = [intake EXCEPT ![j] = NoRow]
                              /\ turn' = [turn EXCEPT ![j] = "none"]
  BY DEF Cancel
<1>2. UNCHANGED <<held, dead, worker, todo, lock, boot, crashes, told, promoted>> BY DEF Cancel
<1>3. j \in Jobs /\ (intake[j].present \/ turn[j] = "pending") BY DEF Cancellable
<1>4. /\ intake'[j] = NoRow /\ turn'[j] = "none" /\ j \in cancelled'
      /\ \A k \in Jobs \ {j}: /\ intake'[k] = intake[k] /\ turn'[k] = turn[k]
                              /\ k \in cancelled' <=> k \in cancelled
  BY <1>1, <1>3, Shapes DEF IntakeInv, TypeOK
<1>5. \A k \in Jobs: PlaceInv(k)'
  <2>1. told[j] # "nothing" BY <1>3 DEF IntakeInv, PlaceInv
  <2>2. PlaceInv(j)' BY <1>2, <1>3, <1>4, <2>1, RowTypes DEF IntakeInv, PlaceInv
  <2>3. \A k \in Jobs \ {j}: PlaceInv(k)' BY <1>2, <1>4 DEF IntakeInv, PlaceInv
  <2>4. QED BY <2>2, <2>3
<1>6. intake' \in [Jobs -> IntakeRow] BY <1>1, Shapes, RowTypes
<1>7. TypeOK' BY <1>1, <1>2, <1>3, <1>6 DEF IntakeInv, TypeOK, IntakeRow
<1>8. QED BY <1>2, <1>5, <1>7 DEF IntakeInv, WorkInv

LEMMA TickedRow ==
  ASSUME NEW r \in IntakeRow,
         NEW s, s = [r EXCEPT !.lease = IF @ > 0 THEN @ - 1 ELSE 0,
                              !.retry = IF @ > 0 THEN @ - 1 ELSE 0]
  PROVE  s \in IntakeRow /\ s.present = r.present /\ s.token = r.token /\ (r = NoRow => s = r)
<1>1. /\ (IF r.lease > 0 THEN r.lease - 1 ELSE 0) \in 0..Lease
      /\ (IF r.retry > 0 THEN r.retry - 1 ELSE 0) \in 0..Backoff
  BY IntakeConstants DEF IntakeRow
<1>2. s \in IntakeRow /\ s.present = r.present /\ s.token = r.token BY <1>1 DEF IntakeRow
<1>3. ASSUME r = NoRow PROVE s = r
  <2>1. r.lease = 0 /\ r.retry = 0 BY <1>3 DEF NoRow
  <2>2. s = [r EXCEPT !.lease = 0, !.retry = 0] BY <2>1
  <2>3. s = r BY <2>1, <2>2 DEF IntakeRow
  <2>4. QED BY <2>3
<1>4. QED BY <1>2, <1>3

LEMMA OtherKeeps == ASSUME IntakeInv, Stop \/ Capture \/ Tick \/ Crash PROVE IntakeInv'
<1>1. CASE Stop
  <2>1. held \subseteq held' /\ held' \subseteq Jobs BY <1>1 DEF Stop, IntakeInv, TypeOK
  <2>2. UNCHANGED <<intake, turn, dead, cancelled, worker, todo, lock, boot, crashes, told, promoted>>
    BY <1>1 DEF Stop
  <2>3. QED BY <2>1, <2>2 DEF IntakeInv, TypeOK, WorkInv, PlaceInv
<1>2. CASE Capture BY <1>2 DEF Capture, IntakeInv, TypeOK, WorkInv, PlaceInv
<1>3. CASE Tick
  <2>1. UNCHANGED <<turn, held, dead, cancelled, worker, todo, lock, boot, crashes, told, promoted>>
    BY <1>3 DEF Tick
  <2>2. ASSUME NEW k \in Jobs
        PROVE  intake'[k] \in IntakeRow /\ intake'[k].present = intake[k].present
               /\ (intake[k] = NoRow => intake'[k] = intake[k])
    BY <1>3, Shapes, TickedRow DEF Tick
  <2>3. intake' \in [Jobs -> IntakeRow] BY <1>3, <2>2 DEF Tick
  <2>4. \A k \in Jobs: PlaceInv(k)' BY <2>1, <2>2 DEF IntakeInv, PlaceInv
  <2>5. QED BY <2>1, <2>3, <2>4 DEF IntakeInv, TypeOK, IntakeRow, WorkInv
<1>4. CASE Crash
  <2>1. /\ UNCHANGED <<intake, turn, held, dead, cancelled, told, promoted>>
        /\ worker' = [w \in Workers |-> Off] /\ crashes' \in 0..MaxCrashes
    BY <1>4, IntakeConstants DEF Crash, store, IntakeInv, TypeOK
  <2>2. WorkInv' BY <2>1, OffType, Distinct DEF WorkInv
  <2>3. TypeOK' BY <1>4, <2>1, OffType DEF Crash, IntakeInv, TypeOK, WorkerState
  <2>4. QED BY <2>1, <2>2, <2>3 DEF IntakeInv, PlaceInv
<1>5. QED BY <1>1, <1>2, <1>3, <1>4

LEMMA InitIntake == Init => IntakeInv
<1> SUFFICES ASSUME Init PROVE IntakeInv OBVIOUS
<1>1. TypeOK
  <2>1. intake \in [Jobs -> IntakeRow] BY RowTypes DEF Init
  <2>2. worker \in [Workers -> WorkerState] BY OffType DEF Init
  <2>3. crashes \in 0..MaxCrashes BY IntakeConstants DEF Init
  <2>4. QED BY <2>1, <2>2, <2>3 DEF Init, TypeOK, IntakeRow, WorkerState
<1>2. WorkInv BY OffType, Distinct DEF Init, WorkInv
<1>3. \A j \in Jobs: PlaceInv(j) BY RowTypes DEF Init, PlaceInv
<1>4. QED BY <1>1, <1>2, <1>3 DEF IntakeInv

LEMMA IntakeInductive == IntakeInv /\ [Next]_vars => IntakeInv'
<1> SUFFICES ASSUME IntakeInv, [Next]_vars PROVE IntakeInv' OBVIOUS
<1>1. CASE UNCHANGED vars BY <1>1 DEF vars, IntakeInv, TypeOK, WorkInv, PlaceInv
<1>2. CASE \E j \in Jobs: Admit(j) \/ LiveClaim(j) \/ FinishLive(j) \/ QueueMoves(j)
  BY <1>2, Distinct, AdmitKeeps, LiveClaimKeeps, FailuresKeep, QueueMovesKeeps
<1>3. CASE \E w \in Workers: Work(w) \/ Renewal(w) \/ Fail(w)
  BY <1>3, RenewalsKeep, QuietsKeep, PromoteKeeps, FailuresKeep DEF Work
<1>4. CASE RecoveryPass BY <1>4, Distinct, RecoveryPassKeeps, FailuresKeep DEF RecoveryPass
<1>5. QED BY <1>1, <1>2, <1>3, <1>4, CancelKeeps, OtherKeeps DEF Next

-----------------------------------------------------------------------------
(* Theorems *)

\* Through crashes, expired leases and takeovers a prompt is queued at most once, and
\* an accepted one is in exactly one of the table, the queue and the cancellations.
THEOREM PromptHasOnePlace == Spec => []OnePlace
<1>1. IntakeInv => OnePlace
  <2> SUFFICES ASSUME IntakeInv, NEW j \in Jobs
               PROVE  /\ promoted[j] <= 1
                      /\ told[j] # "nothing" =>
                           Cardinality({p \in 1..3: \/ p = 1 /\ intake[j].present
                                                    \/ p = 2 /\ Owned(j)
                                                    \/ p = 3 /\ j \in cancelled}) = 1
    BY DEF OnePlace, IntakeInv
  <2> DEFINE In(p) == \/ p = 1 /\ intake[j].present
                      \/ p = 2 /\ Owned(j)
                      \/ p = 3 /\ j \in cancelled
             S == {p \in 1..3: In(p)}
  <2>1. promoted[j] <= 1 BY DEF IntakeInv, PlaceInv
  <2>2. ASSUME told[j] # "nothing" PROVE \E p \in 1..3: S = {p}
    <3>1. /\ intake[j].present \/ Owned(j) \/ j \in cancelled
          /\ intake[j].present => ~Owned(j) /\ j \notin cancelled
          /\ Owned(j) => j \notin cancelled
      BY <2>2 DEF IntakeInv, PlaceInv, Owned
    <3>2. CASE intake[j].present
      <4>1. \A p \in 1..3: In(p) <=> p = 1 BY <3>1, <3>2
      <4> HIDE DEF In
      <4>2. S = {1} BY <4>1
      <4>3. QED BY <4>2
    <3>3. CASE Owned(j)
      <4>1. \A p \in 1..3: In(p) <=> p = 2 BY <3>1, <3>3
      <4> HIDE DEF In
      <4>2. S = {2} BY <4>1
      <4>3. QED BY <4>2
    <3>4. CASE j \in cancelled
      <4>1. \A p \in 1..3: In(p) <=> p = 3 BY <3>1, <3>4
      <4> HIDE DEF In
      <4>2. S = {3} BY <4>1
      <4>3. QED BY <4>2
    <3>5. QED BY <3>1, <3>2, <3>3, <3>4
  <2>3. told[j] # "nothing" => Cardinality(S) = 1
    <3> HIDE DEF S
    <3>1. QED BY <2>2, FS_Singleton
  <2>4. QED BY ONLY <2>1, <2>3
<1>2. QED BY <1>1, InitIntake, IntakeInductive, PTL DEF Spec

-----------------------------------------------------------------------------
(* What the user was told                                                  *)

\* A prompt that moves: its queue row goes on, it is cancelled, or it is promoted
\* under no hold.
QueueStep(j) ==
  \/ turn'[j] = turn[j] /\ promoted'[j] = promoted[j]
  \/ turn[j] # "none" /\ promoted'[j] = promoted[j]
  \/ turn'[j] = "none" /\ promoted'[j] = promoted[j]
  \/ j \notin held /\ ~dead

\* "Saved" is said only by the worker that has just given its claim back.
SavedStep(j) ==
  \/ told'[j] = told[j]
  \/ told'[j] # "saved"
  \/ intake[j].present /\ intake'[j].present /\ turn' = turn

LEMMA EveryQueueStep == ASSUME IntakeInv, Next, NEW j \in Jobs PROVE QueueStep(j)
<1>1. CASE UNCHANGED <<turn, promoted>> BY <1>1 DEF QueueStep
<1>2. ASSUME NEW w \in Workers, Promote(w) PROVE QueueStep(j)
  <2>1. PICK k \in Jobs: k = worker[w].job BY <1>2, HasJob DEF Promote
  <2>2. CASE j = k /\ Promotable(w, k) BY <2>2 DEF Promotable, QueueStep
  <2>3. CASE UNCHANGED <<turn, promoted>> BY <2>3, <1>1
  <2>4. CASE /\ j # k /\ turn' = [turn EXCEPT ![k] = "pending"]
             /\ promoted' = [promoted EXCEPT ![k] = @ + 1]
    BY <2>4 DEF QueueStep, IntakeInv, TypeOK
  <2>5. QED BY <1>2, <2>1, <2>2, <2>3, <2>4 DEF Promote
<1>3. ASSUME NEW k \in Jobs, QueueMoves(k) PROVE QueueStep(j)
  <2>1. promoted' = promoted /\ turn[k] # "none" /\ \E x: turn' = [turn EXCEPT ![k] = x]
    BY <1>3 DEF QueueMoves
  <2>2. QED BY <2>1 DEF QueueStep, IntakeInv, TypeOK
<1>4. CASE Cancel
  <2>1. promoted' = promoted /\ \E k \in Jobs: turn' = [turn EXCEPT ![k] = "none"]
    BY <1>4 DEF Cancel, Cancellable
  <2>2. QED BY <2>1 DEF QueueStep, IntakeInv, TypeOK
<1>5. \/ UNCHANGED <<turn, promoted>> \/ \E w \in Workers: Promote(w)
      \/ \E k \in Jobs: QueueMoves(k) \/ Cancel
  BY DEF Next, Work, RecoveryPass, Admit, LiveClaim, FinishLive, FirstRenewal, TakeLock,
    FinishSubmission, RecordFailure, FinishLost, Renewal, Fail, Scan, RecoveryClaim, NextReady,
    PassOver, FinishRecovery, Stop, Capture, Tick, Crash, store
<1>6. QED BY <1>1, <1>2, <1>3, <1>4, <1>5

LEMMA EverySavedStep == ASSUME IntakeInv, Next, NEW j \in Jobs PROVE SavedStep(j)
<1>1. CASE UNCHANGED told BY <1>1 DEF SavedStep
<1>2. ASSUME NEW w \in Workers, RecordFailure(w) PROVE SavedStep(j)
  <2>1. PICK k \in Jobs: k = worker[w].job BY <1>2, HasJob DEF RecordFailure
  <2>2. CASE Failable(w, k)
    <3>1. intake'[k].present /\ intake[k].present /\ turn' = turn
      BY <1>2, <2>1, <2>2, FailedRow, Shapes DEF RecordFailure, Failable
    <3>2. told' = told \/ told' = [told EXCEPT ![k] = "saved"]
      BY <1>2, <2>1, <2>2 DEF RecordFailure
    <3>3. QED BY <3>1, <3>2, Shapes DEF SavedStep
  <2>3. CASE ~Failable(w, k)
    <3>1. told' = told \/ told' = [told EXCEPT ![k] = "error"]
      BY <1>2, <2>1, <2>3 DEF RecordFailure
    <3>2. QED BY <3>1, Shapes DEF SavedStep
  <2>4. QED BY <2>2, <2>3
<1>3. ASSUME NEW k, NEW m \in {"accepted", "queued", "held", "pending", "missing", "error"},
             told' = [told EXCEPT ![k] = m]
      PROVE  SavedStep(j)
  BY <1>3, Shapes DEF SavedStep
<1>4. ASSUME NEW k, Replay(k) PROVE SavedStep(j)
  BY <1>4, Shapes DEF SavedStep, Replay
<1>5. CASE \E k \in Jobs: Admit(k) \/ LiveClaim(k) \/ FinishLive(k)
  BY <1>1, <1>3, <1>4, <1>5 DEF Admit, LiveClaim, FinishLive
<1>6. CASE \E w \in Workers: FinishSubmission(w) \/ FinishLost(w)
  BY <1>1, <1>3, <1>4, <1>6 DEF FinishSubmission, FinishLost
<1>7. \/ UNCHANGED told \/ \E w \in Workers: RecordFailure(w)
      \/ \E k \in Jobs: Admit(k) \/ LiveClaim(k) \/ FinishLive(k)
      \/ \E w \in Workers: FinishSubmission(w) \/ FinishLost(w)
  BY DEF Next, Work, RecoveryPass, QueueMoves, FirstRenewal, TakeLock, Promote, Renewal, Fail,
    Scan, RecoveryClaim, NextReady, PassOver, FinishRecovery, Stop, Cancel, Capture, Tick, Crash
<1>8. QED BY <1>1, <1>2, <1>5, <1>6, <1>7

\* A prompt held by /stop while it is prepared is queued by nobody, "saved" is said of a
\* prompt that is in the table and not started, and what will not be retried is not.
THEOREM WordsAreKept == Spec => WordIsKept
<1> DEFINE Kept == \A j \in Jobs:
       /\ j \in held /\ intake[j].present => turn'[j] = "none"
       /\ told'[j] = "saved" /\ told[j] # "saved" => intake'[j].present /\ turn'[j] = "none"
       /\ told[j] = "held" => promoted'[j] = promoted[j]
<1>1. IntakeInv /\ [Next]_vars => [Kept]_vars
  <2> SUFFICES ASSUME IntakeInv, Next, NEW j \in Jobs
               PROVE  /\ j \in held /\ intake[j].present => turn'[j] = "none"
                      /\ told'[j] = "saved" /\ told[j] # "saved"
                           => intake'[j].present /\ turn'[j] = "none"
                      /\ told[j] = "held" => promoted'[j] = promoted[j]
    OBVIOUS
  <2>1. QueueStep(j) /\ SavedStep(j) BY EveryQueueStep, EverySavedStep
  <2>2. intake[j].present => turn[j] = "none" BY DEF IntakeInv, PlaceInv
  <2>3. told[j] = "held" => j \in held \/ dead BY DEF IntakeInv, PlaceInv
  <2>4. QED BY <2>1, <2>2, <2>3 DEF QueueStep, SavedStep
<1>2. QED BY <1>1, InitIntake, IntakeInductive, PTL DEF Spec, WordIsKept

-----------------------------------------------------------------------------
(* Leases                                                                  *)

\* How the claim of a prompt is ended.
LeaseStep(j) ==
  \/ intake'[j].token = intake[j].token
  \/ intake[j].lease = 0
  \/ worker'[intake[j].token] # worker[intake[j].token]
  \/ j \in cancelled'
  \/ boot

LEMMA TableStep ==
  ASSUME IntakeInv, Next, NEW j \in Jobs PROVE LeaseStep(j)
<1> intake \in [Jobs -> IntakeRow] /\ \A k \in Jobs: ~intake[k].present => intake[k] = NoRow
  BY Shapes DEF IntakeInv, PlaceInv
<1>1. CASE UNCHANGED intake BY <1>1 DEF LeaseStep
<1>2. ASSUME NEW k \in Jobs, NEW r, intake' = [intake EXCEPT ![k] = r],
             r.token = intake[k].token \/ intake[k].lease = 0
      PROVE  LeaseStep(j)
  BY <1>2 DEF LeaseStep
<1>3. ASSUME NEW k \in Jobs, Admit(k) PROVE LeaseStep(j)
  <2>1. intake' = [intake EXCEPT ![k] = NewRow] /\ intake[k].lease = 0
    BY <1>3, RowTypes DEF Admit
  <2>2. QED BY <1>2, <2>1
<1>4. ASSUME NEW w \in Workers, NEW k \in Jobs, Claimable(k), intake' = ClaimedRow(w, k)
      PROVE  LeaseStep(j)
  <2>1. intake' = [intake EXCEPT ![k] = [intake[k] EXCEPT !.token = w, !.lease = Lease]]
    BY <1>4 DEF ClaimedRow
  <2>2. QED BY <1>2, <1>4, <2>1 DEF Claimable
<1>5. ASSUME NEW k \in Jobs, intake' = [intake EXCEPT ![k].lease = Lease] PROVE LeaseStep(j)
  <2>1. intake[k] \in IntakeRow OBVIOUS
  <2>2. [intake[k] EXCEPT !.lease = Lease].token = intake[k].token BY <2>1, LeasedRow
  <2>3. QED BY <1>2, <1>5, <2>2
<1>6. ASSUME NEW k \in Jobs, intake' = [intake EXCEPT ![k] = RemovedIfQueued(@, k)]
      PROVE  LeaseStep(j)
  <2>1. RemovedIfQueued(intake[k], k) = intake[k] BY NothingToRemove DEF IntakeInv
  <2>2. QED BY <1>2, <1>6, <2>1
<1>7. ASSUME NEW w \in Workers, Promote(w) \/ RecordFailure(w) PROVE LeaseStep(j)
  <2>1. PICK k \in Jobs: k = worker[w].job BY <1>7, HasJob DEF Promote, RecordFailure
  <2>2. worker'[w] # worker[w]
    BY <1>7, Shapes, StepType DEF Promote, RecordFailure, Steps, Processing
  <2>3. \/ UNCHANGED intake
        \/ intake[k].token = w /\ \E r: intake' = [intake EXCEPT ![k] = r]
    BY <1>7, <2>1 DEF Promote, RecordFailure, Promotable, Failable
  <2>4. QED BY <1>1, <2>2, <2>3 DEF LeaseStep
<1>8. CASE Scan
  <2>1. intake'[j] = intake[j] \/ boot BY <1>8, ScannedRow DEF Scan
  <2>2. QED BY <2>1 DEF LeaseStep
<1>9. CASE Cancel
  <2>1. \E k \in Jobs: k \in cancelled' /\ intake' = [intake EXCEPT ![k] = NoRow]
    BY <1>9 DEF Cancel, Cancellable
  <2>2. QED BY <2>1 DEF LeaseStep
<1>10. CASE Tick
  <2>1. intake'[j].token = intake[j].token BY <1>10, TickedRow DEF Tick
  <2>2. QED BY <2>1 DEF LeaseStep
<1>11. ASSUME NEW w \in Workers, FirstRenewal(w) \/ Renewal(w) PROVE LeaseStep(j)
  <2>1. worker[w].job \in Jobs BY <1>11, HasJob DEF FirstRenewal, Renewal, Processing
  <2>2. QED BY <1>1, <1>5, <1>11, <2>1 DEF FirstRenewal, Renewal
<1>12. CASE FinishRecovery \/ \E w \in Workers: FinishLost(w)
  <2>1. CASE UNCHANGED intake BY <2>1, <1>1
  <2>2. CASE /\ intake' = [intake EXCEPT ![worker[Recovery].job] = RemovedIfQueued(@, worker[Recovery].job)]
             /\ worker[Recovery].pc \in {"failed", "lost"}
    BY <1>6, <2>2, Distinct, HasJob
  <2>3. QED BY <1>12, <2>1, <2>2 DEF FinishRecovery, FinishLost
<1>13. CASE \E k \in Jobs: LiveClaim(k) \/ FinishLive(k)
  BY <1>1, <1>4, <1>6, <1>13, Distinct DEF LiveClaim, FinishLive
<1>14. CASE RecoveryClaim
  BY <1>1, <1>4, <1>14, Distinct DEF RecoveryClaim, IntakeInv, TypeOK
<1>15. \/ UNCHANGED intake \/ \E k \in Jobs: Admit(k) \/ LiveClaim(k) \/ FinishLive(k)
       \/ \E w \in Workers: Promote(w) \/ RecordFailure(w) \/ FirstRenewal(w) \/ Renewal(w)
                             \/ FinishLost(w)
       \/ Scan \/ RecoveryClaim \/ FinishRecovery \/ Cancel \/ Tick
  BY DEF Next, Work, RecoveryPass, QueueMoves, TakeLock, FinishSubmission, Fail, NextReady,
    PassOver, Stop, Capture, Crash, store
<1>16. QED BY <1>1, <1>3, <1>7, <1>8, <1>9, <1>10, <1>11, <1>12, <1>13, <1>14, <1>15

\* A claim that has not run out is ended by its holder, by /retract or by a restart, and
\* by nobody else.
THEOREM LeasesAreRespected == Spec => LeaseIsRespected
<1> DEFINE Respected == \A j \in Jobs:
       LET w == intake[j].token
       IN intake[j].lease > 0 /\ intake'[j].token # w =>
            worker'[w] # worker[w] \/ j \in cancelled' \/ boot
<1>1. IntakeInv /\ [Next]_vars => [Respected]_vars
  <2> SUFFICES ASSUME IntakeInv, Next, NEW j \in Jobs,
                      intake[j].lease > 0, intake'[j].token # intake[j].token
               PROVE  worker'[intake[j].token] # worker[intake[j].token] \/ j \in cancelled' \/ boot
    OBVIOUS
  <2>1. QED BY TableStep DEF LeaseStep
<1>2. QED BY <1>1, InitIntake, IntakeInductive, PTL DEF Spec, LeaseIsRespected
=============================================================================
