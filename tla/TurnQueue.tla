----------------------------- MODULE TurnQueue -----------------------------
(***************************************************************************)
(* The durable turn queue: requests accepted from Discord become Codex     *)
(* app-server turns, at most once each, one at a time per Codex thread.    *)
(*                                                                         *)
(* Durable state is the SQLite database (codex_turn_queue and the tables   *)
(* that fence it); it survives a crash.  Volatile state is the running     *)
(* bot: one operation per target at most, because every queue operation    *)
(* holds the async mutex of its target (QueueCoordinator::target_lock).    *)
(* A step is the code between two points where another actor can run: a    *)
(* database transaction or an await on the app-server.  The Codex          *)
(* app-server is external.                                                 *)
(*                                                                         *)
(* Actors that do NOT take the target lock run between any two steps:      *)
(* /stop, cancellation, the dead-generation fence, the app-server          *)
(* supervisor, and the crash of the bot.                                   *)
(***************************************************************************)
EXTENDS Naturals, FiniteSets

CONSTANTS
    Jobs,        \* requests; a job_id names one request for ever
    Targets,     \* Codex threads
    Turns,       \* turn ids the app-server can hand out
    Route,       \* Route[j]: the thread request j was addressed to
    NoJob, NoTurn,
    MaxAttempt,  \* i64::MAX of attempt_count, where the column saturates
    MaxFaults,   \* how many faults (crash, death, error, timeout, /stop) happen
    Foreign      \* whether another client may start turns on the same threads

ASSUME TurnQueueAssumption ==
    /\ Route \in [Jobs -> Targets]
    /\ NoJob \notin Jobs
    /\ NoTurn \notin Turns
    /\ MaxAttempt \in Nat \ {0}
    /\ MaxFaults \in Nat
    /\ Foreign \in BOOLEAN

VARIABLES
    queue,    \* codex_turn_queue: one row per job, state "absent" when there is none
    clock,    \* created_at of the newest row
    recent,   \* jobs whose updated_at is younger than the lease or backoff that applies
    execHeld, \* cdr_execution_holds
    held,     \* codex_dead_generation_holds
    sealed,   \* codex_dead_generation_incidents of the current runtime id
    journal,  \* codex_mutation_attempts: the prepared attempt on each target
    outbox,   \* codex_delivery_outbox: the turn whose reply is staged for each job
    cancelled,\* codex_request_cancellations
    boot,     \* the bot is starting: recovery of old attempts runs, workers do not
    gen,      \* ResidentStateInner.generation, 1 again in every process
    pc, ctx,  \* the operation that holds each target's lock, and its locals
    up,       \* the resident app-server: "up", "sealed" (its connection is closed, the
              \* process may live), "dead" or "captured"
    affected, \* targets with unresolved work in the dead app-server
    epoch,    \* which app-server process this is (external)
    wire,     \* turn/start requests written and not yet answered (external)
    hist,     \* the turns of each thread, what thread/turns/list returns (external)
    owner,    \* the request a turn executes, NoJob for another client's (external)
    born,     \* the app-server process that runs a turn (external)
    live,     \* turns in progress (external)
    faults    \* faults so far, a bound and nothing else

durable  == <<queue, clock, recent, execHeld, held, sealed, journal, outbox, cancelled>>
runtime  == <<boot, gen, pc, ctx, up, affected>>
external == <<epoch, wire, hist, owner, born, live>>
vars     == <<durable, runtime, external, faults>>

-----------------------------------------------------------------------------
(* Data *)

RowStates == {"absent", "pending", "starting", "running"}

\* last_error, by the prefix the code tells apart: "" none; "failed" a definite
\* failure; "ambiguous" acceptance unknown; "candidates" the
\* STARTING_CANDIDATE_HOLD_PREFIX; "held" the execution_hold::PREFIX.
Errors == {"", "failed", "ambiguous", "candidates", "held"}

Row == [state : RowStates, seq : Nat, gen : Nat, attempt : 0..MaxAttempt,
        begun : BOOLEAN, base : SUBSET Turns, turn : Turns \cup {NoTurn}, err : Errors]

NoRow == [state |-> "absent", seq |-> 0, gen |-> 0, attempt |-> 0, begun |-> FALSE,
          base |-> {}, turn |-> NoTurn, err |-> ""]

Lanes   == {"direct", "recover", "observe"}
Replies == {"none", "started", "rejected", "limited"}
Results == {"none", "ok", "definite", "held", "ambiguous"}
Points  == {"free", "next", "preflight", "adopt", "ready", "claimed", "prepared",
            "sent", "answered", "observed"}

Ctx == [lane : Lanes, gen : Nat, job : Jobs \cup {NoJob}, claim : Row,
        base : SUBSET Turns, reply : Replies, result : Results,
        turn : Turns \cup {NoTurn}]

Idle == [lane |-> "direct", gen |-> 0, job |-> NoJob, claim |-> NoRow, base |-> {},
         reply |-> "none", result |-> "none", turn |-> NoTurn]

Init ==
    /\ queue = [j \in Jobs |-> NoRow]
    /\ clock = 0
    /\ recent = {} /\ execHeld = {} /\ held = {} /\ sealed = {} /\ cancelled = {}
    /\ journal = [t \in Targets |-> "none"]
    /\ outbox = [j \in Jobs |-> NoTurn]
    /\ boot = TRUE
    /\ gen = 1
    /\ pc = [t \in Targets |-> "free"]
    /\ ctx = [t \in Targets |-> Idle]
    /\ up = "up" /\ affected = {}
    /\ epoch = 1
    /\ wire = {}
    /\ hist = [t \in Targets |-> {}]
    /\ owner = [u \in Turns |-> NoJob]
    /\ born = [u \in Turns |-> 0]
    /\ live = {}
    /\ faults = 0

-----------------------------------------------------------------------------
(* What the code reads *)

RowsOf(t) == {j \in Jobs : Route[j] = t /\ queue[j].state # "absent"}
Owners(t) == {j \in Jobs : Route[j] = t /\ queue[j].state \in {"starting", "running"}}

\* execution_hold::eligible_jobs keeps a job that is not a held Pending one.
Eligible(j) == queue[j].state # "pending" \/ j \notin execHeld

\* eligible_pending_head: nothing Starting or Running, and the oldest Pending job
\* that no hold excludes.
Startable(j, t) ==
    /\ Route[j] = t
    /\ queue[j].state = "pending"
    /\ Eligible(j)
    /\ queue[j].err # "held"

\* Mutants of IsHead: the owner of the target, or the order of the rows, is not looked at.
IsHeadBesideOwner(j, t) ==
    /\ Startable(j, t)
    /\ \A k \in Jobs : Startable(k, t) => queue[j].seq <= queue[k].seq

IsHeadOutOfOrder(j, t) == Owners(t) = {} /\ Startable(j, t)

IsHead(j, t) ==
    /\ Owners(t) = {}
    /\ Startable(j, t)
    /\ \A k \in Jobs : Startable(k, t) => queue[j].seq <= queue[k].seq

\* pending_retry_is_due: no failure recorded, or its backoff is over.
Due(j) == queue[j].err = "" \/ queue[j].attempt = 0 \/ j \notin recent

\* dead_generation::job_can_mutate
CanMutate(t, g) == t \notin held /\ g \notin sealed

\* active_turn_id: a turn in progress that the current app-server reported.
ActiveTurn(t) == \E u \in hist[t] : u \in live /\ born[u] = epoch

\* Mutant of Bump: attempt_count is not saturated.
BumpPastMax(a) == a + 1

\* attempt_count + 1, saturating
Bump(a) == IF a < MaxAttempt THEN a + 1 ELSE a

Fault == faults < MaxFaults /\ faults' = faults + 1

Working(t) == ~boot /\ pc[t] = "free"

Release(t) == pc' = [pc EXCEPT ![t] = "free"] /\ ctx' = [ctx EXCEPT ![t] = Idle]

EnterNext(t) ==
    /\ pc' = [pc EXCEPT ![t] = "next"]
    /\ ctx' = [ctx EXCEPT ![t] = [Idle EXCEPT !.gen = gen]]

-----------------------------------------------------------------------------
(* Entering the queue *)

\* submit_with_mapping under the target lock.  The row is saved first; when an
\* eligible row of another generation is already there the new one waits for
\* recovery, otherwise start_next_locked runs under the same lock.
Submit(j) ==
    LET t == Route[j]
        needsRecovery == \E k \in RowsOf(t) : Eligible(k) /\ queue[k].gen # gen
    IN  /\ Working(t)
        /\ t \notin held
        /\ queue[j].seq = 0
        /\ clock' = clock + 1
        /\ queue' = [queue EXCEPT ![j] =
                [NoRow EXCEPT !.state = "pending", !.seq = clock + 1, !.gen = gen]]
        /\ IF needsRecovery THEN UNCHANGED <<pc, ctx>> ELSE EnterNext(t)
        /\ UNCHANGED <<recent, execHeld, held, sealed, journal, outbox, cancelled,
                       boot, gen, up, affected, external, faults>>

\* kick_target; with no head to start it has no effect.
KickTarget(t) ==
    /\ Working(t)
    /\ \E j \in Jobs : IsHead(j, t)
    /\ EnterNext(t)
    /\ UNCHANGED <<durable, boot, gen, up, affected, external, faults>>

\* mutate_one_locked up to the resume.  The generation was read before the lock
\* was taken, so it may be older than the current one.
Mutate(t, g) ==
    /\ Working(t)
    /\ t \notin held
    /\ \E j \in Jobs :
        /\ IsHead(j, t) /\ Due(j)
        /\ pc' = [pc EXCEPT ![t] = "preflight"]
        /\ ctx' = [ctx EXCEPT ![t] = [Idle EXCEPT !.lane = "recover", !.gen = g,
                                                  !.job = j, !.claim = queue[j]]]
    /\ UNCHANGED <<durable, boot, gen, up, affected, external, faults>>

-----------------------------------------------------------------------------
(* start_next_with_baseline_locked *)

CanSelect(j, t) ==
    /\ t \notin held
    /\ IsHead(j, t)
    /\ queue[j].gen = ctx[t].gen
    /\ Due(j)
    /\ ~ActiveTurn(t)

\* Choose the head.  A recovery already has the thread's history as baseline.
SelectHead(t) ==
    /\ pc[t] = "next"
    /\ \E j \in Jobs :
        /\ CanSelect(j, t)
        /\ ctx' = [ctx EXCEPT ![t].job = j, ![t].claim = queue[j]]
    /\ pc' = [pc EXCEPT ![t] = IF ctx[t].lane = "recover" THEN "ready" ELSE "preflight"]
    /\ UNCHANGED <<durable, boot, gen, up, affected, external, faults>>

Decline(t) ==
    /\ pc[t] = "next"
    /\ ~\E j \in Jobs : CanSelect(j, t)
    /\ Release(t)
    /\ UNCHANGED <<durable, boot, gen, up, affected, external, faults>>

\* Mutant of Unblocked: an attempt whose outcome is unknown does not block the next one.
UnblockedAlways(t) == TRUE

\* mutation_attempt::unblocked: no prepared attempt on the target.
Unblocked(t) == journal[t] = "none"

\* check_request: an unresolved attempt, a held target or a sealed generation
\* stops every mutation of a target before it is written.
MayMutate(t) == CanMutate(t, gen) /\ Unblocked(t)

\* preflight_baseline: every turn thread/turns/list returns.
Baseline(t) == hist[t]

\* thread/resume answered and the turns read: they are the baseline.
PreflightOk(t) ==
    /\ pc[t] = "preflight"
    /\ up = "up" /\ MayMutate(t)
    /\ ctx' = [ctx EXCEPT ![t].base = Baseline(t)]
    /\ pc' = [pc EXCEPT ![t] = IF ctx[t].lane = "recover" THEN "adopt" ELSE "ready"]
    /\ UNCHANGED <<durable, boot, gen, up, affected, external, faults>>

\* record_preflight_failure, then the operation ends.
RecordPreflight(t, e) ==
    LET j == ctx[t].job IN
    /\ Release(t)
    /\ IF queue[j].state = "pending" /\ queue[j].gen = ctx[t].claim.gen
       THEN /\ queue' = [queue EXCEPT ![j].err = e, ![j].attempt = Bump(@)]
            /\ recent' = recent \cup {j}
       ELSE UNCHANGED <<queue, recent>>
    /\ UNCHANGED <<clock, execHeld, held, sealed, outbox, cancelled,
                   boot, gen, up, affected, external>>

\* The resume or the read failed definitely: refused by the server, no server, or
\* the dead-generation fence.
PreflightFail(t) ==
    /\ pc[t] = "preflight"
    /\ IF up = "up" /\ CanMutate(t, gen) THEN Fault ELSE UNCHANGED faults
    /\ RecordPreflight(t, "failed")
    /\ UNCHANGED journal

\* The resume was refused because of an unresolved attempt (MutationHeld).
PreflightHeld(t) ==
    /\ pc[t] = "preflight"
    /\ ~Unblocked(t)
    /\ RecordPreflight(t, "held")
    /\ UNCHANGED <<journal, faults>>

\* The resume was written and never answered (MutationOutcomeUnknown).
PreflightUnknown(t) ==
    /\ pc[t] = "preflight"
    /\ MayMutate(t)
    /\ Fault
    /\ journal' = [journal EXCEPT ![t] = "resume"]
    /\ RecordPreflight(t, "held")

\* Mutant of Adopts: pending rows keep the generation of the replaced app-server.
AdoptsNothing(j, t) == FALSE

\* adopt_target_generation on the rows of a target.
Adopts(j, t) == Route[j] = t /\ queue[j].state = "pending" /\ t \notin held

Adopt(t) ==
    /\ pc[t] = "adopt"
    /\ queue' = [j \in Jobs |-> IF Adopts(j, t)
                                THEN [queue[j] EXCEPT !.gen = ctx[t].gen] ELSE queue[j]]
    /\ IF ctx[t].lane = "recover"
       THEN /\ pc' = [pc EXCEPT ![t] = "next"]
            /\ ctx' = [ctx EXCEPT ![t].job = NoJob, ![t].claim = NoRow]
       ELSE Release(t)
    /\ UNCHANGED <<clock, recent, execHeld, held, sealed, journal, outbox, cancelled,
                   boot, gen, up, affected, external, faults>>

\* try_begin_attempt: Pending becomes Starting before anything is dispatched.
CanClaim(j, t) ==
    /\ queue[j].state = "pending"
    /\ queue[j].gen = ctx[t].gen
    /\ CanMutate(t, queue[j].gen)
    /\ j \notin execHeld

Claim(t) ==
    LET j   == ctx[t].job
        row == [queue[j] EXCEPT !.state = "starting", !.begun = TRUE, !.turn = NoTurn,
                                !.attempt = Bump(@), !.base = ctx[t].base, !.err = ""]
    IN  /\ pc[t] = "ready"
        /\ CanClaim(j, t)
        /\ queue' = [queue EXCEPT ![j] = row]
        /\ recent' = recent \cup {j}
        /\ pc' = [pc EXCEPT ![t] = "claimed"]
        /\ ctx' = [ctx EXCEPT ![t].claim = row]
        /\ UNCHANGED <<clock, execHeld, held, sealed, journal, outbox, cancelled,
                       boot, gen, up, affected, external, faults>>

ClaimRefused(t) ==
    /\ pc[t] = "ready"
    /\ ~CanClaim(ctx[t].job, t)
    /\ Release(t)
    /\ UNCHANGED <<durable, boot, gen, up, affected, external, faults>>

-----------------------------------------------------------------------------
(* start_claimed_turn: the journal, the wire and the answer *)

\* Mutant of Authorised: a /stop after the claim is not noticed.
AuthorisedDespiteStop(t) ==
    /\ queue[ctx[t].job] = ctx[t].claim
    /\ CanMutate(t, gen)
    /\ Unblocked(t)

\* start_authority::validate_in inside mutation_attempt::begin_checked: the row is
\* still exactly the claim, and nothing has fenced it since.
Authorised(t) ==
    LET j == ctx[t].job IN
    /\ queue[j] = ctx[t].claim
    /\ CanMutate(t, gen)
    /\ j \notin execHeld
    /\ j \notin cancelled
    /\ Unblocked(t)

Answered(t, r) ==
    /\ pc' = [pc EXCEPT ![t] = "answered"]
    /\ ctx' = [ctx EXCEPT ![t].result = r, ![t].reply = "none",
                          ![t].turn = IF r = "ok" THEN @ ELSE NoTurn]

\* The writer of the app-server's stdin is held from the commit to the end of the write.
StdinFree == \A s \in Targets : pc[s] # "prepared"

\* The attempt is committed as prepared.  A /stop or a cancellation that commits after
\* this no longer prevents the write (begin_checked).
Prepare(t) ==
    /\ pc[t] = "claimed"
    /\ up = "up" /\ ctx[t].claim.gen = gen
    /\ StdinFree
    /\ Authorised(t)
    /\ journal' = [journal EXCEPT ![t] = "start"]
    /\ pc' = [pc EXCEPT ![t] = "prepared"]
    /\ UNCHANGED <<queue, clock, recent, execHeld, held, sealed, outbox, cancelled,
                   boot, gen, ctx, up, affected, external, faults>>

\* The request is on the wire.
Write(t) ==
    /\ pc[t] = "prepared" /\ up = "up"
    /\ wire' = wire \cup {[job |-> ctx[t].job, attempt |-> ctx[t].claim.attempt,
                            epoch |-> epoch]}
    /\ pc' = [pc EXCEPT ![t] = "sent"]
    /\ UNCHANGED <<durable, boot, gen, ctx, up, affected, epoch, hist, owner, born, live,
                   faults>>

\* The commit used up the deadline, or the writer is gone: not_sent is recorded, when
\* that commit succeeds.  The error, Timeout or Closed, is not a definite one.
NotWritten(t) ==
    /\ pc[t] = "prepared"
    /\ Fault
    /\ journal' \in {journal, [journal EXCEPT ![t] = "none"]}
    /\ Answered(t, "ambiguous")
    /\ UNCHANGED <<queue, clock, recent, execHeld, held, sealed, outbox, cancelled,
                   boot, gen, up, affected, external>>

\* Nothing was written.  A generation that changed, a quarantine and the
\* dead-generation fence are definite; a failed authority check (MutationHeld) and a
\* closed client are not.
DispatchRefused(t, r) ==
    /\ pc[t] = "claimed"
    /\ \/ r = "definite" /\ (ctx[t].claim.gen # gen \/ ~CanMutate(t, gen)) /\ UNCHANGED faults
       \/ /\ r = "ambiguous" /\ ctx[t].claim.gen = gen
          /\ (up # "up" \/ ~Authorised(t))
          /\ UNCHANGED faults
       \/ r \in {"definite", "ambiguous"} /\ ctx[t].claim.gen = gen /\ Fault
    /\ Answered(t, r)
    /\ UNCHANGED <<durable, boot, gen, up, affected, external>>

\* The reply decides the attempt: finish() settles it in the journal.  A usage limit
\* is a definite rejection that also holds the request.
Answer(t) ==
    /\ pc[t] = "sent"
    /\ ctx[t].reply # "none"
    /\ journal' = [journal EXCEPT ![t] = "none"]
    /\ \/ /\ Answered(t, CASE ctx[t].reply = "started"  -> "ok"
                           [] ctx[t].reply = "rejected" -> "definite"
                           [] ctx[t].reply = "limited"  -> "held")
          /\ UNCHANGED faults
       \* a reply without a turn id
       \/ ctx[t].reply = "started" /\ Answered(t, "ambiguous") /\ Fault
    /\ UNCHANGED <<queue, clock, recent, execHeld, held, sealed, outbox, cancelled,
                   boot, gen, up, affected, external>>

\* Timeout, a write or an answer cut off by a closed transport, or a reply whose
\* evidence could not be committed: the outcome is unknown and the attempt stays prepared.
AnswerUnknown(t) ==
    /\ pc[t] = "sent" \/ (pc[t] = "prepared" /\ up # "up")
    /\ IF up = "up" THEN Fault ELSE UNCHANGED faults
    /\ Answered(t, "ambiguous")
    /\ UNCHANGED <<durable, boot, gen, up, affected, external>>

\* Mutant of StateAfter: an unknown outcome is retried.
StateAfterRetried(r) == "pending"

\* record_start_failure_if_claimed: a definite failure makes the row Pending again,
\* an unknown one leaves it Starting.
StateAfter(r) == IF r = "ambiguous" THEN "starting" ELSE "pending"

ErrorAfter(r) ==
    CASE r = "ambiguous" -> "ambiguous" [] r = "definite" -> "failed" [] OTHER -> "held"

\* The compare-and-set of the claim-scoped updates.
ClaimKept(t) ==
    /\ queue[ctx[t].job] = ctx[t].claim
    /\ queue[ctx[t].job].state = "starting"
    /\ CanMutate(t, ctx[t].claim.gen)

\* mark_running_with_resident_if_claimed
RecordRunning(t) ==
    /\ pc[t] = "answered" /\ ctx[t].result = "ok" /\ ClaimKept(t)
    /\ queue' = [queue EXCEPT ![ctx[t].job].state = "running",
                              ![ctx[t].job].turn = ctx[t].turn]
    /\ Release(t)
    /\ UNCHANGED <<clock, recent, execHeld, held, sealed, journal, outbox, cancelled,
                   boot, gen, up, affected, external, faults>>

RecordFailure(t) ==
    LET j == ctx[t].job  r == ctx[t].result IN
    /\ pc[t] = "answered" /\ r # "ok" /\ ClaimKept(t)
    /\ queue' = [queue EXCEPT ![j].state = StateAfter(r), ![j].err = ErrorAfter(r)]
    /\ recent' = IF r = "definite" THEN recent \cup {j} ELSE recent \ {j}
    /\ execHeld' = IF r = "held" THEN execHeld \cup {j} ELSE execHeld
    /\ Release(t)
    /\ UNCHANGED <<clock, held, sealed, journal, outbox, cancelled,
                   boot, gen, up, affected, external, faults>>

\* AttemptClaimLost: the row is no longer this claim, nothing is written.
ClaimLost(t) ==
    /\ pc[t] = "answered" /\ ~ClaimKept(t)
    /\ Release(t)
    /\ UNCHANGED <<durable, boot, gen, up, affected, external, faults>>

-----------------------------------------------------------------------------
(* Recovery of Starting and Running rows *)

\* observe_one_locked: the owner's row and the thread's history are read; the rows
\* may change before they are reconciled.
Observe(t, g) ==
    /\ Working(t)
    /\ t \notin held
    /\ up = "up"
    /\ \E j \in Owners(t) :
        ctx' = [ctx EXCEPT ![t] = [Idle EXCEPT !.lane = "observe", !.gen = g, !.job = j,
                                               !.claim = queue[j], !.base = hist[t]]]
    /\ pc' = [pc EXCEPT ![t] = "observed"]
    /\ UNCHANGED <<durable, boot, gen, up, affected, external, faults>>

\* Turns the history shows beyond the baseline saved with the claim.
Candidates(t) == ctx[t].base \ ctx[t].claim.base

\* The young claim may still be in flight: leave it alone.
LeaseActive(t) == ctx[t].claim.err = "" /\ ctx[t].job \in recent

Reconcilable(t) ==
    /\ pc[t] = "observed"
    /\ ctx[t].claim.state = "starting"
    /\ ctx[t].claim.err # "candidates"
    /\ ~LeaseActive(t)

EnterAdopt(t) == pc' = [pc EXCEPT ![t] = "adopt"] /\ UNCHANGED ctx

\* recover_running changes nothing; the pending rows behind it are adopted.
ReconcileRunning(t) ==
    /\ pc[t] = "observed"
    /\ ctx[t].claim.state = "running"
    /\ EnterAdopt(t)
    /\ UNCHANGED <<durable, boot, gen, up, affected, external, faults>>

\* recover_starting with exactly one new turn: it is this request's.
ReconcileBind(t) ==
    /\ Reconcilable(t)
    /\ \E u \in Turns :
        /\ Candidates(t) = {u}
        /\ IF ClaimKept(t)
           THEN /\ queue' = [queue EXCEPT ![ctx[t].job].state = "running",
                                          ![ctx[t].job].turn = u]
                /\ EnterAdopt(t)
           ELSE UNCHANGED queue /\ Release(t)
    /\ UNCHANGED <<clock, recent, execHeld, held, sealed, journal, outbox, cancelled,
                   boot, gen, up, affected, external, faults>>

\* recover_starting with no new turn: an empty history authorises no retry.
ReconcileEmpty(t) ==
    /\ Reconcilable(t)
    /\ Candidates(t) = {}
    /\ IF ctx[t].claim.err = "" /\ ClaimKept(t)
       THEN queue' = [queue EXCEPT ![ctx[t].job].err = "ambiguous"]
       ELSE UNCHANGED queue
    /\ Release(t)
    /\ UNCHANGED <<clock, recent, execHeld, held, sealed, journal, outbox, cancelled,
                   boot, gen, up, affected, external, faults>>

\* recover_starting with several: the request is held for a person to resolve.
ReconcileMany(t) ==
    /\ Reconcilable(t)
    /\ \E u, v \in Candidates(t) : u # v
    /\ IF queue[ctx[t].job] = ctx[t].claim
       THEN queue' = [queue EXCEPT ![ctx[t].job].err = "candidates"]
       ELSE UNCHANGED queue
    /\ Release(t)
    /\ UNCHANGED <<clock, recent, execHeld, held, sealed, journal, outbox, cancelled,
                   boot, gen, up, affected, external, faults>>

\* Held candidates, an active lease, and an empty history in a warm target of the
\* same generation leave the row as it is.
ReconcileNothing(t) ==
    /\ pc[t] = "observed"
    /\ ctx[t].claim.state = "starting"
    /\ \/ ctx[t].claim.err = "candidates"
       \/ LeaseActive(t)
       \/ Candidates(t) = {} /\ ctx[t].claim.gen = ctx[t].gen
    /\ Release(t)
    /\ UNCHANGED <<durable, boot, gen, up, affected, external, faults>>

-----------------------------------------------------------------------------
(* Completion *)

\* stage_owned_queue_completion_with_release: the reply enters the outbox and the
\* row leaves the queue in one transaction.
StageReply(j) ==
    /\ outbox' = [outbox EXCEPT ![j] = queue[j].turn]
    /\ queue' = [queue EXCEPT ![j] = [NoRow EXCEPT !.seq = queue[j].seq]]

\* Mutant of Stageable: the hold of the thread is not looked at.
StageableWhenHeld(j) == queue[j].state = "running" /\ queue[j].turn \notin live

\* The completed turn belongs to exactly one Running row of a thread that is not held.
Stageable(j) ==
    /\ Route[j] \notin held
    /\ queue[j].state = "running"
    /\ queue[j].turn \notin live
    /\ ~\E k \in RowsOf(Route[j]) \ {j} :
            queue[k].state = "running" /\ queue[k].turn = queue[j].turn

\* stage_turn_completion_locked, then start_next_locked under the same lock.
StageCompletion(j) ==
    /\ Working(Route[j])
    /\ Stageable(j)
    /\ StageReply(j)
    /\ EnterNext(Route[j])
    /\ UNCHANGED <<clock, recent, execHeld, held, sealed, journal, cancelled,
                   boot, gen, up, affected, external, faults>>

-----------------------------------------------------------------------------
(* Controls that do not take the target lock *)

\* stop::accept_scope: every request of the target loses replay authority.
Stop(t) ==
    /\ ~boot
    /\ RowsOf(t) # {}
    /\ execHeld' = execHeld \cup RowsOf(t)
    /\ Fault
    /\ UNCHANGED <<queue, clock, recent, held, sealed, journal, outbox, cancelled,
                   runtime, external>>

Forget(S) ==
    /\ queue' = [j \in Jobs |-> IF j \in S THEN [NoRow EXCEPT !.seq = queue[j].seq] ELSE queue[j]]
    /\ cancelled' = cancelled \cup S

\* cancel_latest_pending_on_route: only work that provably never started.
Unstarted(j) ==
    /\ queue[j].state = "pending" /\ queue[j].turn = NoTurn
    /\ \/ queue[j].attempt = 0
       \/ ~queue[j].begun /\ queue[j].base = {} /\ queue[j].err = "failed"

CancelLatestPending(t) ==
    /\ ~boot
    /\ t \notin held
    /\ \E j \in RowsOf(t) :
        /\ Unstarted(j)
        /\ \A k \in RowsOf(t) : Unstarted(k) => queue[k].seq <= queue[j].seq
        /\ Forget({j})
    /\ UNCHANGED <<clock, recent, execHeld, held, sealed, journal, outbox,
                   runtime, external, faults>>

\* cancel_for_recovery_checked: every request of the target, started or not.
CancelForRecovery(t) ==
    /\ ~boot
    /\ RowsOf(t) # {}
    /\ execHeld' = execHeld \cup RowsOf(t)
    /\ Forget(RowsOf(t))
    /\ UNCHANGED <<clock, recent, held, sealed, journal, outbox, runtime, external, faults>>

-----------------------------------------------------------------------------
(* The Codex app-server, external: modelled from how the bot uses it *)

Unused(u) == \A t \in Targets : u \notin hist[t]

\* The operation that is still waiting for the answer to a request.
Awaited(w) ==
    LET t == Route[w.job] IN
    /\ pc[t] = "sent" /\ ctx[t].job = w.job /\ ctx[t].reply = "none"
    /\ up = "up" /\ w.epoch = epoch

Reply(w, r, u) ==
    ctx' = IF Awaited(w) THEN [ctx EXCEPT ![Route[w.job]].reply = r, ![Route[w.job]].turn = u]
                         ELSE ctx

\* The server accepts a turn/start.  Its process may belong to a bot that crashed.
ServerAccept(w, u) ==
    /\ w \in wire /\ Unused(u)
    /\ wire' = wire \ {w}
    /\ hist' = [hist EXCEPT ![Route[w.job]] = @ \cup {u}]
    /\ owner' = [owner EXCEPT ![u] = w.job]
    /\ born' = [born EXCEPT ![u] = w.epoch]
    /\ live' = live \cup {u}
    /\ Reply(w, "started", u)
    /\ UNCHANGED <<durable, boot, gen, pc, up, affected, epoch, faults>>

ServerReject(w, r) ==
    /\ w \in wire /\ r \in {"rejected", "limited"}
    /\ Fault
    /\ wire' = wire \ {w}
    /\ Reply(w, r, NoTurn)
    /\ UNCHANGED <<durable, boot, gen, pc, up, affected, epoch, hist, owner, born, live>>

ServerCompletes(u) ==
    /\ u \in live
    /\ live' = live \ {u}
    /\ UNCHANGED <<durable, runtime, epoch, wire, hist, owner, born, faults>>

\* Another client (the desktop app) starts a turn on the same thread.
ForeignTurn(t, u) ==
    /\ Foreign /\ Unused(u) /\ up = "up"
    /\ hist' = [hist EXCEPT ![t] = @ \cup {u}]
    /\ born' = [born EXCEPT ![u] = epoch]
    /\ live' = live \cup {u}
    /\ UNCHANGED <<durable, runtime, epoch, wire, owner, faults>>

-----------------------------------------------------------------------------
(* The resident app-server's life, the crash of the bot, and time *)

CurrentWire == {w \in wire : w.epoch = epoch}
CurrentLive == {u \in live : born[u] = epoch}

\* A write of any call was cut off (WriteAttemptGuard), or stdout could not be read:
\* mark_closed ends every pending answer.  The process lives on with what was written
\* to it, and is not replaced while it does.
SealConnection ==
    /\ up = "up" /\ Fault
    /\ up' = "sealed"
    /\ UNCHANGED <<durable, boot, gen, pc, ctx, affected, external>>

\* The process ends: what was written and not accepted is lost.
ServerDies ==
    /\ up \in {"up", "sealed"} /\ Fault
    /\ up' = "dead"
    /\ affected' = {t \in Targets : ActiveTurn(t)}
    /\ wire' = wire \ CurrentWire
    /\ live' = live \ CurrentLive
    /\ UNCHANGED <<durable, boot, gen, pc, ctx, epoch, hist, owner, born>>

NoRequestInFlight == \A t \in Targets : pc[t] \notin {"prepared", "sent"}

\* capture_dead_generation, once no admitted request is left: the affected targets
\* and every target with a started row of that generation are held.
Capture ==
    /\ up = "dead" /\ NoRequestInFlight
    /\ held' = held \cup affected \cup
               {Route[j] : j \in {k \in Jobs : /\ queue[k].state \in {"starting", "running"}
                                               /\ queue[k].gen = gen}}
    /\ sealed' = sealed \cup {gen}
    /\ up' = "captured"
    /\ UNCHANGED <<queue, clock, recent, execHeld, journal, outbox, cancelled,
                   boot, gen, pc, ctx, affected, external, faults>>

\* restart_if_quiescent: a dead server only once it is fenced, a live one only when
\* it has nothing in flight and no active turn.
ReplaceServer ==
    /\ NoRequestInFlight
    /\ \/ up = "captured" /\ UNCHANGED faults
       \/ up = "up" /\ CurrentLive = {} /\ Fault
    /\ up' = "up" /\ affected' = {}
    /\ gen' = gen + 1
    /\ epoch' = epoch + 1
    /\ wire' = wire \ CurrentWire
    /\ UNCHANGED <<durable, boot, pc, ctx, hist, owner, born, live>>

\* The bot dies.  Its locks and locals are gone, the next process has a new runtime
\* id (so no seal of the old one applies) and a first generation of its own.  A
\* request already written may still be accepted.
Crash ==
    /\ Fault
    /\ boot' = TRUE
    /\ gen' = 1
    /\ epoch' = epoch + 1
    /\ up' = "up" /\ affected' = {}
    /\ pc' = [t \in Targets |-> "free"]
    /\ ctx' = [t \in Targets |-> Idle]
    /\ sealed' = {}
    /\ UNCHANGED <<queue, clock, recent, execHeld, held, journal, outbox, cancelled,
                   wire, hist, owner, born, live>>

\* resume_recovery::recover, before the workers start: a thread/resume of the
\* previous runtime is retired when its target is idle, and the requests that only
\* waited for it are released.
RetireResume(t) ==
    /\ boot
    /\ journal[t] = "resume"
    /\ Owners(t) = {}
    /\ hist[t] \cap live = {}
    /\ journal' = [journal EXCEPT ![t] = "none"]
    /\ queue' = [j \in Jobs |->
            IF /\ Route[j] = t /\ queue[j].state = "pending" /\ queue[j].err = "held"
               /\ ~queue[j].begun /\ queue[j].base = {} /\ j \notin execHeld
            THEN [queue[j] EXCEPT !.err = ""] ELSE queue[j]]
    /\ UNCHANGED <<clock, recent, execHeld, held, sealed, outbox, cancelled,
                   runtime, external, faults>>

StartWorkers ==
    /\ boot /\ boot' = FALSE
    /\ UNCHANGED <<durable, gen, pc, ctx, up, affected, external, faults>>

\* The future that runs the operation is dropped: the lock is free, the attempt in
\* the journal stays.  A write it leaves half done closes the connection.
DropOperation(t) ==
    /\ pc[t] # "free" /\ Fault
    /\ Release(t)
    /\ up' = IF pc[t] = "prepared" /\ up = "up" THEN "sealed" ELSE up
    /\ \/ UNCHANGED journal
       \/ pc[t] = "preflight" /\ MayMutate(t) /\ journal' = [journal EXCEPT ![t] = "resume"]
    /\ UNCHANGED <<queue, clock, recent, execHeld, held, sealed, outbox, cancelled,
                   boot, gen, affected, external>>

\* STARTING_ATTEMPT_LEASE_SECONDS or the retry backoff of a row runs out.
TimePasses(j) ==
    /\ j \in recent
    /\ recent' = recent \ {j}
    /\ UNCHANGED <<queue, clock, execHeld, held, sealed, journal, outbox, cancelled,
                   runtime, external, faults>>

-----------------------------------------------------------------------------
Requests ==
    \E j \in Jobs : Submit(j) \/ StageCompletion(j) \/ TimePasses(j)

StartTurn ==
    \E t \in Targets :
        \/ KickTarget(t) \/ SelectHead(t) \/ Decline(t)
        \/ PreflightOk(t) \/ PreflightFail(t) \/ PreflightHeld(t) \/ PreflightUnknown(t)
        \/ Claim(t) \/ ClaimRefused(t)
        \/ Prepare(t) \/ Write(t) \/ NotWritten(t)
        \/ (\E r \in Results : DispatchRefused(t, r))
        \/ Answer(t) \/ AnswerUnknown(t)
        \/ RecordRunning(t) \/ RecordFailure(t) \/ ClaimLost(t)
        \/ DropOperation(t)

Recover ==
    \E t \in Targets :
        \/ (\E g \in 1..gen : Mutate(t, g) \/ Observe(t, g))
        \/ Adopt(t)
        \/ ReconcileRunning(t) \/ ReconcileBind(t) \/ ReconcileEmpty(t)
        \/ ReconcileMany(t) \/ ReconcileNothing(t)

Control ==
    \E t \in Targets : Stop(t) \/ CancelLatestPending(t) \/ CancelForRecovery(t)

Server ==
    \/ \E w \in wire : (\E u \in Turns : ServerAccept(w, u)) \/ (\E r \in Replies : ServerReject(w, r))
    \/ \E u \in Turns : ServerCompletes(u) \/ (\E t \in Targets : ForeignTurn(t, u))

Life ==
    \/ SealConnection \/ ServerDies \/ Capture \/ ReplaceServer \/ Crash \/ StartWorkers
    \/ \E t \in Targets : RetireResume(t)

Next == Requests \/ StartTurn \/ Recover \/ Control \/ Server \/ Life

Spec == Init /\ [][Next]_vars

\* The holder of a target's lock runs on: every await of it ends in an answer, an
\* error or a timeout.
Step(t) ==
    \/ SelectHead(t) \/ Decline(t)
    \/ PreflightOk(t) \/ PreflightFail(t) \/ PreflightHeld(t)
    \/ Adopt(t) \/ Claim(t) \/ ClaimRefused(t)
    \/ Prepare(t) \/ Write(t) \/ (\E r \in Results : DispatchRefused(t, r))
    \/ Answer(t) \/ AnswerUnknown(t)
    \/ RecordRunning(t) \/ RecordFailure(t) \/ ClaimLost(t)
    \/ ReconcileRunning(t) \/ ReconcileBind(t) \/ ReconcileMany(t) \/ ReconcileNothing(t)

ReplaceDead == up = "captured" /\ ReplaceServer

\* The recovery lanes and the completion worker visit every target again and again
\* and wait in its fair lock (strong fairness); the incremental lane treats its
\* target as cold.  Leases and backoffs end, the app-server answers and its turns
\* end, a dead one is fenced and replaced.
Fairness ==
    /\ \A t \in Targets :
        /\ WF_vars(Step(t))
        /\ SF_vars(Mutate(t, gen)) /\ SF_vars(Observe(t, gen)) /\ SF_vars(ReconcileEmpty(t))
    /\ \A j \in Jobs : WF_vars(TimePasses(j)) /\ SF_vars(StageCompletion(j))
    /\ \A u \in Turns : WF_vars(ServerCompletes(u))
    /\ WF_vars(\E w \in wire, u \in Turns : ServerAccept(w, u))
    /\ WF_vars(Capture) /\ WF_vars(ReplaceDead) /\ WF_vars(StartWorkers)

FairSpec == Spec /\ Fairness

-----------------------------------------------------------------------------
(* Properties *)

Wire == [job : Jobs, attempt : Nat, epoch : Nat]

\* Every table and local has the shape the code gives it; attempt_count stays within
\* its width because both updates saturate (attempt.rs, failure.rs).
TypeOK ==
    /\ queue \in [Jobs -> Row]
    /\ clock \in Nat
    /\ recent \subseteq Jobs /\ execHeld \subseteq Jobs /\ cancelled \subseteq Jobs
    /\ held \subseteq Targets /\ affected \subseteq Targets /\ sealed \subseteq Nat
    /\ journal \in [Targets -> {"none", "resume", "start"}]
    /\ outbox \in [Jobs -> Turns \cup {NoTurn}]
    /\ boot \in BOOLEAN
    /\ gen \in Nat /\ epoch \in Nat /\ faults \in Nat
    /\ pc \in [Targets -> Points]
    /\ ctx \in [Targets -> Ctx]
    /\ up \in {"up", "sealed", "dead", "captured"}
    /\ wire \subseteq Wire
    /\ hist \in [Targets -> SUBSET Turns]
    /\ owner \in [Turns -> Jobs \cup {NoJob}]
    /\ born \in [Turns -> Nat]
    /\ live \subseteq Turns

\* Nothing the app-server could execute exists for the request.
Unsent(j) == (\A w \in wire : w.job # j) /\ (\A u \in Turns : owner[u] # j)

\* No request is executed twice: over all crashes, restarts, timeouts and retries at
\* most one turn/start of a request is accepted or can still be.
AtMostOnce ==
    /\ \A w, x \in wire : w.job = x.job => w = x
    /\ \A u, v \in Turns : owner[u] = owner[v] /\ owner[u] # NoJob => u = v
    /\ \A w \in wire, u \in Turns : owner[u] # w.job

\* A row that is Pending, so that recovery may start it, was never accepted: only a
\* definite rejection leads from Starting back to Pending
\* (record_start_failure_if_claimed).
PendingIsUnsent == \A j \in Jobs : queue[j].state = "pending" => Unsent(j)

\* One request at a time owns a thread, although try_begin_attempt itself does not
\* look at the other rows of the target.
OneOwnerPerTarget ==
    \A j, k \in Jobs :
        /\ Route[j] = Route[k]
        /\ queue[j].state \in {"starting", "running"}
        /\ queue[k].state \in {"starting", "running"}
        => j = k

\* The reply of one request is never delivered as the reply of another: a turn bound
\* by its ACK, or found in the history by recover_starting, does not execute another
\* request of the queue.
NoCrossedReply ==
    \A j \in Jobs :
        /\ queue[j].state = "running" => owner[queue[j].turn] \in {j, NoJob}
        /\ outbox[j] # NoTurn => owner[outbox[j]] \in {j, NoJob}

\* The request has no replay authority and no attempt of it is under way.
Withdrawn(j) ==
    /\ j \in execHeld \cup cancelled
    /\ Unsent(j)
    /\ ~\E t \in Targets : pc[t] = "prepared" /\ ctx[t].job = j

\* A /stop or a cancellation that finds no committed attempt and nothing sent is final:
\* no operation chosen, prepared or claimed before it, no recovery and no restart ever
\* sends the request (start_authority::validate_in inside begin_checked).  One that
\* commits between the attempt and its write is too late, as begin_checked says.
StopIsFinal == [][\A j \in Jobs : Withdrawn(j) => Withdrawn(j)']_vars

\* A thread held after the death of its app-server sends, binds and delivers nothing
\* until a person cancels its requests.
DeadTargetIsFrozen ==
    [][\A j \in Jobs : Route[j] \in held =>
         /\ \A w \in wire' \ wire : w.job # j
         /\ queue'[j].state \in {queue[j].state, "absent"}
         /\ outbox'[j] = outbox[j]]_vars

\* Requests of a thread start in the order they were saved; only a held one is passed.
StartsInOrder ==
    [][\A j, k \in Jobs :
         /\ Route[j] = Route[k] /\ queue[k].state = "pending" /\ queue[k].seq < queue[j].seq
         /\ queue[j].state = "pending" /\ queue'[j].state = "starting"
         => k \in execHeld \/ queue[k].err = "held"]_vars

\* The thread waits for a person, and one of the notices or lists the bot shows says
\* so: a hold, an unresolved attempt, or a request whose outcome is not known.
Parked(t) ==
    \/ t \in held
    \/ journal[t] # "none"
    \/ \E j \in RowsOf(t) : j \in execHeld \/ queue[j].err \in {"held", "ambiguous", "candidates"}

\* No accepted request is forgotten: once the faults end, each is answered or
\* cancelled, unless its own thread is parked, or the connection to a live app-server
\* process is sealed, which only the end of that process or of the bot repairs.
EveryRequestSettles ==
    \A j \in Jobs : queue[j].seq > 0 ~>
        (queue[j].state = "absent" \/ Parked(Route[j]) \/ up = "sealed")

-----------------------------------------------------------------------------
(* Refinement: the queue implements the promise about requests *)

PhaseOf(j) ==
    CASE queue[j].seq = 0          -> "new"
      [] queue[j].state # "absent" -> "accepted"
      [] j \in cancelled           -> "cancelled"
      [] OTHER                     -> "replied"

Promise == INSTANCE TurnRequests WITH
    phase <- [j \in Jobs |-> PhaseOf(j)],
    runs  <- [j \in Jobs |-> {u \in Turns : owner[u] = j}],
    reply <- outbox

\* Every behaviour of the queue, with its crashes, timeouts and recoveries, is one
\* in which each request is executed at most once and closed once, with a reply that
\* is not another request's.
KeepsPromise == Promise!Spec
============================================================================
