---------------------------- MODULE PromptIntake ----------------------------
(***************************************************************************)
(* The prompts of one target between their admission and the turn queue:   *)
(* the table codex_prompt_intakes with its leases (cdr-store               *)
(* prompt_intake), the handler that admits a prompt and prepares it while  *)
(* it renews its lease (cdr-runtime action_executor/prompt_intake), the    *)
(* recovery worker that takes over what nobody holds, and the controls     *)
(* that meet them half way: /stop, /retract and the dead-generation fence. *)
(*                                                                         *)
(* Each prompt has a live worker of its own; Recovery is the one recovery  *)
(* worker.  A claim token is the name of the worker that drew it, because  *)
(* a worker holds one claim at a time.  Times count down: lease and retry  *)
(* are what is left of claim_expires_at and retry_after.                   *)
(***************************************************************************)
EXTENDS Integers, Sequences, FiniteSets

CONSTANTS
  Jobs,         \* the prompts, numbered in the order of created_at
  Recovery,     \* the recovery worker
  None,         \* no token, no holder
  Lease,        \* INTAKE_CLAIM_SECONDS
  Backoff,      \* retry_delay_seconds
  MaxCrashes,   \* bound: crashes of the bot
  Controls      \* TRUE when /stop, /retract and a dead generation may come

ASSUME IntakeConstants ==
  /\ Jobs \subseteq Nat /\ IsFiniteSet(Jobs)
  /\ Recovery \notin Jobs /\ None \notin Jobs \cup {Recovery}
  /\ Lease \in Nat \ {0} /\ Backoff \in Nat
  /\ MaxCrashes \in Nat /\ Controls \in BOOLEAN

Workers == Jobs \cup {Recovery}

VARIABLES
  intake,     \* codex_prompt_intakes: token, lease and retry of each row
  turn,       \* codex_turn_queue and codex_delivery_outbox, as one state per prompt
  held,       \* cdr_execution_holds
  dead,       \* the target is in codex_dead_generation_holds
  cancelled,  \* codex_request_cancellations
  worker,     \* each worker: where it is, its prompt, its lease when it took the lock
  todo,       \* what the recovery worker's pass has left
  lock,       \* who has the target lock of the QueueCoordinator
  boot,       \* the startup pass of the recovery is not over
  crashes,
  told,       \* what the user of each prompt was told
  promoted    \* how often each prompt was promoted (history)

store == <<intake, turn, held, dead, cancelled>>
vars == <<intake, turn, held, dead, cancelled, worker, todo, lock, boot, crashes,
          told, promoted>>

NoRow == [token |-> None, lease |-> 0, retry |-> 0, present |-> FALSE]
NewRow == [NoRow EXCEPT !.present = TRUE]
Off == [pc |-> "off", job |-> None, inTime |-> FALSE, watched |-> TRUE]
Begun(pc, j) == [Off EXCEPT !.pc = pc, !.job = j]

\* Where a worker can be; Processing is the pinned future, watched by the renewal.
Steps == {"off", "claim", "claimed", "failed", "backoff", "lost", "done"}
Processing == {"preparing", "locked", "starting"}

-----------------------------------------------------------------------------
(* The table.                                                              *)

Owned(j) == turn[j] # "none"
Rowed(j) == turn[j] \in {"pending", "started", "outbox"}

\* Mutant of Claimable: a claim that ran out is not free until it is given back.
ClaimableIfReleased(j) ==
  /\ intake[j].present
  /\ j \notin held
  /\ intake[j].retry = 0 /\ intake[j].token = None
  /\ ~dead

\* try_claim_prompt_intake
Claimable(j) ==
  /\ intake[j].present
  /\ j \notin held
  /\ intake[j].retry = 0 /\ intake[j].lease = 0
  /\ ~dead

\* The token is fresh and the lease begins.
ClaimedRow(w, j) == [intake EXCEPT ![j].token = w, ![j].lease = Lease]

\* renew_prompt_intake_claim_if_current: the token matches and has not run out.
Current(w, j) == intake[j].present /\ intake[j].token = w /\ intake[j].lease > 0

\* Mutant of Failable: whoever has the row, the failure is recorded.
FailableByAnyone(w, j) == intake[j].present

\* record_prompt_intake_failure_if_claimed
Failable(w, j) == intake[j].present /\ intake[j].token = w

\* Mutant of Promotable: the hold was looked at when the claim was made.
PromotableThoughHeld(w, j) ==
  /\ intake[j].present
  /\ ~dead
  /\ intake[j].token = w /\ worker[w].inTime

\* Mutant of Promotable: the prompt is taken from the claim, not from the table.
PromotableFromClaim(w, j) == j \notin held /\ ~dead

\* promote_prompt_intake_to_queue, its checks in the order of the code.
Promotable(w, j) ==
  /\ j \notin held
  /\ intake[j].present
  /\ ~dead
  /\ intake[j].token = w /\ worker[w].inTime

\* remove_prompt_intake_if_queued
RemovedIfQueued(row, j) == IF row.present /\ Rowed(j) /\ ~dead THEN NoRow ELSE row

\* prompt_intake_has_durable_owner
DurableOwner(j) == ~intake[j].present /\ Rowed(j)

-----------------------------------------------------------------------------
(* Processing a claim, the same for a live worker and the recovery.        *)

Step(w, pc) == worker' = [worker EXCEPT ![w] = IF pc \in Processing THEN [@ EXCEPT !.pc = pc]
                                                ELSE Begun(pc, @.job)]
Unlock(w) == lock' = IF lock = w THEN None ELSE lock

\* admit_prompt: the row is committed before anything else happens.
Admit(j) ==
  /\ ~boot
  /\ worker[j] = Off /\ ~intake[j].present /\ ~Owned(j)
  /\ j \notin cancelled /\ told[j] = "nothing"
  /\ intake' = [intake EXCEPT ![j] = NewRow]
  /\ worker' = [worker EXCEPT ![j] = Begun("claim", j)]
  /\ told' = [told EXCEPT ![j] = "accepted"]
  /\ UNCHANGED <<turn, held, dead, cancelled, todo, lock, boot, crashes, promoted>>

\* replay_or_pending: the queue row, a hold, the intake row, in this order.
Replay(j) ==
  told' = [told EXCEPT ![j] =
    IF turn[j] \in {"pending", "started"} THEN "queued"
    ELSE IF j \in held THEN "held"
    ELSE IF intake[j].present THEN "pending"
    ELSE "missing"]

\* process_admitted_prompt: claim, or say who has it.
LiveClaim(j) ==
  /\ worker[j].pc = "claim"
  /\ IF Claimable(j)
     THEN /\ intake' = ClaimedRow(j, j)
          /\ Step(j, "claimed")
          /\ UNCHANGED told
     ELSE /\ Step(j, "done")
          /\ Replay(j)
          /\ UNCHANGED intake
  /\ UNCHANGED <<turn, held, dead, cancelled, todo, lock, boot, crashes, promoted>>

\* process_claim_with_renewal: the lease is renewed before the work begins.
FirstRenewal(w) ==
  LET j == worker[w].job
  IN /\ worker[w].pc = "claimed"
     /\ IF Current(w, j)
        THEN /\ intake' = [intake EXCEPT ![j].lease = Lease]
             /\ Step(w, "preparing")
        ELSE /\ Step(w, "lost")
             /\ UNCHANGED intake
     /\ UNCHANGED <<turn, held, dead, cancelled, todo, lock, boot, crashes, told, promoted>>

\* The timer of the renewal.  When the claim is not this worker's any more the
\* processing is dropped, unless the prompt has become a queue row.
Renewal(w) ==
  LET j == worker[w].job
  IN /\ worker[w].pc \in Processing /\ worker[w].watched
     /\ \/ /\ Current(w, j)
           /\ intake' = [intake EXCEPT ![j].lease = Lease]
           /\ UNCHANGED <<worker, lock>>
        \/ /\ ~Current(w, j) /\ DurableOwner(j)
           /\ worker' = [worker EXCEPT ![w].watched = FALSE]
           /\ UNCHANGED <<intake, lock>>
        \/ /\ ~Current(w, j) /\ ~DurableOwner(j)
           /\ Step(w, "lost")
           /\ Unlock(w)
           /\ UNCHANGED intake
     /\ UNCHANGED <<turn, held, dead, cancelled, todo, boot, crashes, told, promoted>>

\* submit_with_mapping: the target lock, the dead-generation check, then the time.
TakeLock(w) ==
  LET j == worker[w].job
  IN /\ worker[w].pc = "preparing"
     /\ lock = None
     /\ IF dead
        THEN Step(w, "failed") /\ UNCHANGED lock
        ELSE /\ worker' = [worker EXCEPT ![w].pc = "locked", ![w].inTime = Current(w, j)]
             /\ lock' = w
     /\ UNCHANGED <<store, todo, boot, crashes, told, promoted>>

\* promote_prompt_intake_to_queue: the queue row and the end of the intake row,
\* or neither.
Promote(w) ==
  LET j == worker[w].job
  IN /\ worker[w].pc = "locked"
     /\ IF Promotable(w, j)
        THEN /\ turn' = [turn EXCEPT ![j] = "pending"]
             /\ intake' = [intake EXCEPT ![j] = NoRow]
             /\ promoted' = [promoted EXCEPT ![j] = @ + 1]
             /\ Step(w, "starting")
             /\ UNCHANGED lock
        ELSE /\ Step(w, "failed")
             /\ Unlock(w)
             /\ UNCHANGED <<turn, intake, promoted>>
     /\ UNCHANGED <<held, dead, cancelled, todo, boot, crashes, told>>

\* start_next_locked and the answer; require_atomic_promotion agrees.
FinishSubmission(w) ==
  LET j == worker[w].job
  IN /\ worker[w].pc = "starting"
     /\ Step(w, "done")
     /\ Unlock(w)
     /\ told' = IF w = Recovery THEN told ELSE [told EXCEPT ![j] = "queued"]
     /\ UNCHANGED <<store, todo, boot, crashes, promoted>>

\* Anything before, between or after these steps may fail, a renewal included:
\* preparing the target, enriching the prompt, the database, the start.
Fail(w) ==
  /\ worker[w].pc \in Processing \cup {"claimed"}
  /\ Step(w, "failed")
  /\ Unlock(w)
  /\ UNCHANGED <<store, todo, boot, crashes, told, promoted>>

-----------------------------------------------------------------------------
(* After the processing.                                                   *)

\* finish_live_claim: a manual hold or a queue row ends it, everything else
\* goes back to the table.
FinishLive(j) ==
  /\ worker[j].pc = "failed"
  /\ \/ /\ j \in held \/ dead
        /\ told' = [told EXCEPT ![j] = "held"]
        /\ Step(j, "done")
        /\ UNCHANGED intake
     \/ /\ j \notin held /\ ~dead
        /\ intake' = [intake EXCEPT ![j] = RemovedIfQueued(@, j)]
        /\ IF intake'[j].present
           THEN Step(j, "backoff") /\ UNCHANGED told
           ELSE Step(j, "done") /\ told' = [told EXCEPT ![j] = "error"]
  /\ UNCHANGED <<turn, held, dead, cancelled, todo, lock, boot, crashes, promoted>>

\* recover_prompt_intakes after an error: no look at the holds.
FinishRecovery ==
  LET j == worker[Recovery].job
  IN /\ worker[Recovery].pc = "failed"
     /\ intake' = [intake EXCEPT ![j] = RemovedIfQueued(@, j)]
     /\ Step(Recovery, IF intake'[j].present THEN "backoff" ELSE "done")
     /\ UNCHANGED <<turn, held, dead, cancelled, todo, lock, boot, crashes, told, promoted>>

\* backoff_claim: only the holder of the claim gives it back.
RecordFailure(w) ==
  LET j == worker[w].job
  IN /\ worker[w].pc = "backoff"
     /\ Step(w, "done")
     /\ IF Failable(w, j)
        THEN intake' = [intake EXCEPT ![j] = [NewRow EXCEPT !.retry = Backoff]]
        ELSE UNCHANGED intake
     /\ told' = IF w = Recovery THEN told
                ELSE [told EXCEPT ![j] = IF Failable(w, j) THEN "saved" ELSE "error"]
     /\ UNCHANGED <<turn, held, dead, cancelled, todo, lock, boot, crashes, promoted>>

\* ClaimProcessingOutcome::Lost
FinishLost(w) ==
  LET j == worker[w].job
  IN /\ worker[w].pc = "lost"
     /\ Step(w, "done")
     /\ IF w = Recovery
        THEN intake' = [intake EXCEPT ![j] = RemovedIfQueued(@, j)] /\ UNCHANGED told
        ELSE Replay(j) /\ UNCHANGED intake
     /\ UNCHANGED <<turn, held, dead, cancelled, todo, lock, boot, crashes, promoted>>

-----------------------------------------------------------------------------
(* The recovery worker.                                                    *)

\* list_ready_prompt_intakes, oldest first.
Ready(rows) == {j \in Jobs: rows[j].present /\ rows[j].retry = 0 /\ rows[j].lease = 0}

\* The startup pass releases every lease first; every pass removes what is queued.
Rows ==
  [j \in Jobs |->
     RemovedIfQueued(IF boot /\ intake[j].present
                     THEN [intake[j] EXCEPT !.token = None, !.lease = 0]
                     ELSE intake[j], j)]

\* recover_prompt_intakes, every 30 seconds and once at startup.
Scan ==
  /\ worker[Recovery].pc = "off"
  /\ intake' = Rows
  /\ todo' = Ready(intake')
  /\ Step(Recovery, "claim")
  /\ UNCHANGED <<turn, held, dead, cancelled, lock, boot, crashes, told, promoted>>

\* The oldest one left, claimed unless somebody was faster.
RecoveryClaim ==
  /\ worker[Recovery].pc = "claim"
  /\ \E j \in todo:
       /\ \A k \in todo: j <= k
       /\ todo' = todo \ {j}
       /\ IF Claimable(j)
          THEN /\ intake' = ClaimedRow(Recovery, j)
               /\ worker' = [worker EXCEPT ![Recovery] = Begun("claimed", j)]
          ELSE UNCHANGED <<intake, worker>>
  /\ UNCHANGED <<turn, held, dead, cancelled, lock, boot, crashes, told, promoted>>

NextReady ==
  /\ worker[Recovery].pc = "done"
  /\ worker' = [worker EXCEPT ![Recovery] = [Off EXCEPT !.pc = "claim"]]
  /\ UNCHANGED <<store, todo, lock, boot, crashes, told, promoted>>

PassOver ==
  /\ worker[Recovery].pc = "claim"
  /\ todo = {}
  /\ worker' = [worker EXCEPT ![Recovery] = Off]
  /\ boot' = FALSE
  /\ UNCHANGED <<store, todo, lock, crashes, told, promoted>>

-----------------------------------------------------------------------------
(* The rest of the system.                                                 *)

\* The queue starts the turn, the turn ends, the answer is delivered.
QueueMoves(j) ==
  /\ \/ turn[j] = "pending" /\ j \notin held /\ ~dead /\ turn' = [turn EXCEPT ![j] = "started"]
     \/ turn[j] = "started" /\ turn' = [turn EXCEPT ![j] = "outbox"]
     \/ turn[j] = "outbox" /\ turn' = [turn EXCEPT ![j] = "delivered"]
  /\ UNCHANGED <<intake, held, dead, cancelled, worker, todo, lock, boot, crashes, told,
                 promoted>>

\* accept_scope of /stop: what waits in the queue or in the table is held.
Stop ==
  /\ Controls /\ ~boot
  /\ held' = held \cup {j \in Jobs: intake[j].present \/ turn[j] = "pending"}
  /\ held' # held
  /\ UNCHANGED <<intake, turn, dead, cancelled, worker, todo, lock, boot, crashes, told,
                 promoted>>

Cancellable == {j \in Jobs: intake[j].present \/ turn[j] = "pending"}

\* cancel_latest_pending: the newest one that has not begun, whoever prepares it.
Cancel ==
  /\ Controls /\ ~boot /\ ~dead
  /\ \E j \in Cancellable:
       /\ \A k \in Cancellable: k <= j
       /\ cancelled' = cancelled \cup {j}
       /\ intake' = [intake EXCEPT ![j] = NoRow]
       /\ turn' = [turn EXCEPT ![j] = "none"]
  /\ UNCHANGED <<held, dead, worker, todo, lock, boot, crashes, told, promoted>>

\* The app-server died with this target affected; the hold is never taken back.
Capture ==
  /\ Controls /\ ~dead
  /\ dead' = TRUE
  /\ UNCHANGED <<intake, turn, held, cancelled, worker, todo, lock, boot, crashes, told,
                 promoted>>

\* Time passes; nobody is promised to run in time.
Tick ==
  /\ \E j \in Jobs: intake[j].lease + intake[j].retry > 0
  /\ intake' = [j \in Jobs |->
                  [intake[j] EXCEPT !.lease = IF @ > 0 THEN @ - 1 ELSE 0,
                                    !.retry = IF @ > 0 THEN @ - 1 ELSE 0]]
  /\ UNCHANGED <<turn, held, dead, cancelled, worker, todo, lock, boot, crashes, told,
                 promoted>>

\* The bot dies: workers and the lock are gone, the table is not.
Crash ==
  /\ crashes < MaxCrashes
  /\ crashes' = crashes + 1
  /\ worker' = [w \in Workers |-> Off]
  /\ todo' = {}
  /\ lock' = None
  /\ boot' = TRUE
  /\ UNCHANGED <<store, told, promoted>>

-----------------------------------------------------------------------------
Init ==
  /\ intake = [j \in Jobs |-> NoRow]
  /\ turn = [j \in Jobs |-> "none"]
  /\ held = {} /\ dead = FALSE /\ cancelled = {}
  /\ worker = [w \in Workers |-> Off]
  /\ todo = {}
  /\ lock = None
  /\ boot = FALSE
  /\ crashes = 0
  /\ told = [j \in Jobs |-> "nothing"]
  /\ promoted = [j \in Jobs |-> 0]

Work(w) ==
  \/ FirstRenewal(w) \/ TakeLock(w) \/ Promote(w) \/ FinishSubmission(w)
  \/ RecordFailure(w) \/ FinishLost(w)

RecoveryPass == Scan \/ RecoveryClaim \/ NextReady \/ PassOver \/ FinishRecovery

Next ==
  \/ \E j \in Jobs: Admit(j) \/ LiveClaim(j) \/ FinishLive(j) \/ QueueMoves(j)
  \/ \E w \in Workers: Work(w) \/ Renewal(w) \/ Fail(w)
  \/ RecoveryPass
  \/ Stop \/ Cancel \/ Capture \/ Tick \/ Crash

Spec == Init /\ [][Next]_vars

\* Every worker goes on, time goes on, and the recovery does not fail, and is
\* not stalled past its lease, for ever.
Fairness ==
  /\ WF_vars(Tick)
  /\ WF_vars(RecoveryPass)
  /\ \A w \in Workers: WF_vars(Work(w))
  /\ \A j \in Jobs: WF_vars(LiveClaim(j)) /\ WF_vars(FinishLive(j))
  /\ SF_vars(FirstRenewal(Recovery) /\ worker'[Recovery].pc = "preparing")
  /\ SF_vars(TakeLock(Recovery) /\ worker'[Recovery].inTime)
  /\ SF_vars(Promote(Recovery) /\ worker'[Recovery].pc = "starting")

FairSpec == Spec /\ Fairness

-----------------------------------------------------------------------------
(* Properties.                                                             *)

\* The variables stay in their sets.
TypeOK ==
  /\ intake \in [Jobs -> [token: Workers \cup {None}, lease: 0..Lease, retry: 0..Backoff,
                          present: BOOLEAN]]
  /\ turn \in [Jobs -> {"none", "pending", "started", "outbox", "delivered"}]
  /\ held \subseteq Jobs /\ cancelled \subseteq Jobs /\ todo \subseteq Jobs
  /\ dead \in BOOLEAN /\ boot \in BOOLEAN
  /\ worker \in [Workers -> [pc: Steps \cup Processing, job: Jobs \cup {None},
                             inTime: BOOLEAN, watched: BOOLEAN]]
  /\ lock \in Workers \cup {None}
  /\ crashes \in 0..MaxCrashes
  /\ told \in [Jobs -> {"nothing", "accepted", "queued", "held", "pending", "missing",
                        "saved", "error"}]
  /\ promoted \in [Jobs -> Nat]

\* An accepted prompt is queued at most once, and at any time it is in exactly
\* one place: the table, the queue (or past it), or cancelled.
OnePlace ==
  /\ TypeOK
  /\ \A j \in Jobs:
       /\ promoted[j] <= 1
       /\ told[j] # "nothing" =>
            Cardinality({p \in 1..3: \/ p = 1 /\ intake[j].present
                                     \/ p = 2 /\ Owned(j)
                                     \/ p = 3 /\ j \in cancelled}) = 1

\* A worker whose lease went to another one never disturbs that one: a claim
\* that has not run out ends only by its holder, by /retract or by a restart.
LeaseIsRespected ==
  [][\A j \in Jobs:
       LET w == intake[j].token
       IN intake[j].lease > 0 /\ intake'[j].token # w =>
            worker'[w] # worker[w] \/ j \in cancelled' \/ boot]_vars

\* What the user is told stays true: a prompt that /stop held while it was being
\* prepared is not queued by the worker that prepares it, nor by a later one;
\* one "saved for automatic recovery" is saved and was not started; and one that
\* "will not be retried automatically" is queued by nobody.
WordIsKept ==
  [][\A j \in Jobs:
       /\ j \in held /\ intake[j].present => turn'[j] = "none"
       /\ told'[j] = "saved" /\ told[j] # "saved" => intake'[j].present /\ turn'[j] = "none"
       /\ told[j] = "held" => promoted'[j] = promoted[j]]_vars

\* Every accepted prompt gets to the queue in the end, unless it is cancelled,
\* held or its target is fenced: expired leases, failures and crashes only delay it.
EveryPromptQueued ==
  \A j \in Jobs:
    told[j] = "accepted" ~> (promoted[j] > 0 \/ j \in cancelled \/ j \in held \/ dead)
=============================================================================
