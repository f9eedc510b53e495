---------------------------- MODULE ResidentServer ----------------------------
(***************************************************************************)
(* The resident app-server of cdr-app-server: one child process that every *)
(* thread shares, the gate that admits operations to it, and its           *)
(* replacement by a process of the next generation when it dies, when a    *)
(* written request stays without an answer, or when /restart asks for it.  *)
(*                                                                         *)
(* A client is one spawned process with its transport.  The supervisor,    *)
(* the forced restart and the close take one lock (restart_lock) and go    *)
(* through their awaits as separate steps, while operations, the reader of *)
(* the transport, the death monitor and the process itself go on.          *)
(***************************************************************************)
EXTENDS Integers, FiniteSets

CONSTANTS
    Ops,         \* operations that may be under way at once
    MaxClients,  \* processes that may be spawned
    MaxFaults,   \* faults and forced restarts together
    None

ASSUME ResidentAssumption ==
    /\ MaxClients \in Nat \ {0}
    /\ MaxFaults \in Nat
    /\ None \notin Nat \cup Ops

VARIABLES
    resident,    \* ResidentStateInner, and the forwarders of the resident server
    clients,     \* the spawned processes and their transports
    ops,         \* the operations under way
    lock,        \* who holds restart_lock, and where its holder stands
    supervisor,  \* run_restart_supervisor
    force,       \* the generation a forced restart observed, or None
    fenced,      \* what the fence has persisted, and of which generation
    faults       \* how many faults have happened

vars == <<resident, clients, ops, lock, supervisor, force, fenced, faults>>

Clients == 1..MaxClients

\* proc: the OS process; handle: the child slot is not yet reaped;
\* sealed and closed: its ClientLifecycle; turn and ask: what its RuntimeState
\* records, a turn and a server request with the response to it; unread: the
\* message of the process that the reader has still to take; abandoned: a
\* written request lost its caller and may still start a turn; monitor: the
\* death monitor of the client's forwarders.
\* suspect, cut and lost record history: a request of the client stayed without
\* an answer, a replacement killed it at work, and the work the process left
\* that its transport had taken or still will.
Unborn == [proc |-> "unborn", gen |-> 0, handle |-> FALSE, sealed |-> FALSE,
           closed |-> FALSE, turn |-> FALSE, ask |-> "none", unread |-> "none",
           abandoned |-> FALSE, monitor |-> FALSE, suspect |-> FALSE,
           cut |-> FALSE, lost |-> {}]

Spawned(g) == [Unborn EXCEPT !.proc = "alive", !.handle = TRUE, !.gen = g]

Idle == [step |-> "idle", client |-> None, kind |-> "request"]
Free == [holder |-> None, pc |-> "free"]

Init ==
    /\ resident = [client |-> 1, debt |-> None, generation |-> 1,
                   quarantined |-> FALSE, pending |-> FALSE, accepting |-> TRUE,
                   open |-> TRUE, authorized |-> FALSE,
                   forwarding |-> 1, forwarders |-> TRUE, forced |-> FALSE]
    /\ clients = [c \in Clients |->
                    IF c = 1 THEN [Spawned(1) EXCEPT !.monitor = TRUE] ELSE Unborn]
    /\ ops = [o \in Ops |-> Idle]
    /\ lock = Free
    /\ supervisor = [pc |-> "look", generation |-> 0, settled |-> 0, unseen |-> FALSE]
    /\ force = None
    /\ fenced = {}
    /\ faults = 0

Fault == faults < MaxFaults /\ faults' = faults + 1

Set(c, r) == clients' = [clients EXCEPT ![c] = r]

InFlight(c) == \E o \in Ops : ops[o].client = c

\* The work in the row r of a client, as a fence of its generation captures it.
Known(r) == (IF r.turn THEN {"turn"} ELSE {})
            \cup (IF r.ask # "none" THEN {"request"} ELSE {})

\* ClientLifecycle::seal: what the reader has not taken by now is dropped.
Sealed(r) == [r EXCEPT !.sealed = TRUE,
                       !.lost = IF r.sealed THEN @ ELSE @ \cap Known(r)]

\* mark_closed
Closed(r) == [Sealed(r) EXCEPT !.closed = TRUE, !.abandoned = FALSE]

\* set_restart_pending_locked: every call wakes the receiver of the signal.
Notify == supervisor' = [supervisor EXCEPT !.unseen = TRUE]

-----------------------------------------------------------------------------
(* Operations: ResidentState::admit and the guard of a written request.     *)

\* AdmissionPermit of the current client; a request is refused in quarantine,
\* a reply to a server request is not.
CanAdmit(kind) ==
    /\ resident.accepting
    /\ resident.client # None
    /\ kind = "request" => ~resident.quarantined
    /\ resident.client # None => ~clients[resident.client].sealed

\* A reply claims the server request it answers (ServerResponseClaim::begin).
Admit(o, kind) ==
    LET c == resident.client IN
    /\ ops[o] = Idle
    /\ CanAdmit(kind)
    /\ IF kind = "request" THEN UNCHANGED clients
       ELSE clients[c].ask = "open" /\ Set(c, [clients[c] EXCEPT !.ask = "claimed"])
    /\ ops' = [ops EXCEPT ![o] = [step |-> "admitted", client |-> c, kind |-> kind]]
    /\ UNCHANGED <<resident, lock, supervisor, force, fenced, faults>>

\* The row of the client of o when o ends without its reply written: a claim
\* dropped leaves its server request indeterminate, and nothing settles it.
Unclaimed(o) ==
    [clients[ops[o].client] EXCEPT !.ask = IF ops[o].kind = "reply" THEN "stuck" ELSE @]

\* The operation is refused or given up before its first byte is written, a
\* reply before or after its claim.
Withdraw(o) ==
    LET c == ops[o].client IN
    /\ ops[o].step = "admitted"
    /\ \/ Set(c, Unclaimed(o))
       \/ ops[o].kind = "reply" /\ Set(c, [clients[c] EXCEPT !.ask = "open"])
    /\ ops' = [ops EXCEPT ![o] = Idle]
    /\ UNCHANGED <<resident, lock, supervisor, force, fenced, faults>>

\* The stdin lock is taken and the first byte may be out.
BeginWrite(o) ==
    /\ ops[o].step = "admitted"
    /\ ~clients[ops[o].client].closed
    /\ \A p \in Ops : ops[p].client = ops[o].client => ops[p].step # "writing"
    /\ ops' = [ops EXCEPT ![o].step = "writing"]
    /\ UNCHANGED <<resident, clients, lock, supervisor, force, fenced, faults>>

\* The bytes are flushed: a request waits for its answer, a reply has settled its
\* server request, on a transport that closed in between as well.
EndWrite(o) ==
    LET c == ops[o].client IN
    /\ ops[o].step = "writing"
    /\ IF ops[o].kind = "request"
       THEN ops' = [ops EXCEPT ![o].step = "written"] /\ UNCHANGED clients
       ELSE /\ ops' = [ops EXCEPT ![o] = Idle]
            /\ Set(c, [clients[c] EXCEPT !.ask = "none", !.lost = @ \ {"request"}])
    /\ UNCHANGED <<resident, lock, supervisor, force, fenced, faults>>

\* A request answered may have started a turn.
Answer(o, started) ==
    LET c == ops[o].client IN
    /\ ops[o].step = "written"
    /\ ~clients[c].sealed
    /\ clients[c].unread = "none"
    /\ Set(c, [clients[c] EXCEPT !.turn = @ \/ started,
         !.lost = @ \cup {w \in {"turn"} : started /\ clients[c].proc = "exited"}])
    /\ ops' = [ops EXCEPT ![o] = Idle]
    /\ UNCHANGED <<resident, lock, supervisor, force, fenced, faults>>

\* mark_timeout and mark_cancelled
MarkAmbiguous(c) ==
    IF clients[c].gen = resident.generation /\ resident.accepting
       /\ resident.client # None
    THEN /\ resident' = [resident EXCEPT !.quarantined = TRUE, !.pending = TRUE]
         /\ Notify
    ELSE UNCHANGED <<resident, supervisor>>

\* A written request times out or its caller is dropped.  Only a flushed
\* observation, archive or isolated mutation leaves the generation alone.
LoseAnswer(o, isolated) ==
    LET c == ops[o].client IN
    /\ ops[o].step = "written"
    /\ Fault
    /\ Set(c, [clients[c] EXCEPT !.abandoned = ~clients[c].closed,
                                 !.suspect = @ \/ ~isolated])
    /\ ops' = [ops EXCEPT ![o] = Idle]
    /\ IF isolated THEN UNCHANGED <<resident, supervisor>> ELSE MarkAmbiguous(c)
    /\ UNCHANGED <<lock, force, fenced>>

\* The transport closed under a written request.
FailClosed(o) ==
    LET c == ops[o].client IN
    /\ ops[o].step = "written"
    /\ clients[c].closed
    /\ ops' = [ops EXCEPT ![o] = Idle]
    /\ MarkAmbiguous(c)
    /\ UNCHANGED <<clients, lock, force, fenced, faults>>

\* A write fails or its caller is dropped in the middle: WriteAttemptGuard closes
\* the transport, but no pipe, and the process lives on.
AbortWrite(o) ==
    LET c == ops[o].client IN
    /\ ops[o].step = "writing"
    /\ IF clients[c].proc = "alive" /\ ~clients[c].closed THEN Fault ELSE UNCHANGED faults
    /\ Set(c, Closed(Unclaimed(o)))
    /\ ops' = [ops EXCEPT ![o] = Idle]
    /\ MarkAmbiguous(c)
    /\ UNCHANGED <<lock, force, fenced>>

-----------------------------------------------------------------------------
(* The process, the reader of its output and the death monitor.             *)

\* The process writes a message; what it says of an earlier one was read, and
\* what it writes after the seal would be dropped.
Says(c, message) ==
    /\ clients[c].proc = "alive"
    /\ clients[c].unread = "none"
    /\ ~clients[c].sealed
    /\ Set(c, [clients[c] EXCEPT !.unread = message,
                                 !.abandoned = @ /\ message # "started"])
    /\ UNCHANGED <<resident, ops, lock, supervisor, force, fenced, faults>>

\* An abandoned request started a turn after all.
TurnStarts(c) == clients[c].abandoned /\ Says(c, "started")

TurnStops(c) == clients[c].turn /\ Says(c, "ended")

ServerAsks(c) == clients[c].turn /\ clients[c].ask = "none" /\ Says(c, "asked")

\* record_notification and record_server_request of the unread message.
Recorded(r) ==
    [r EXCEPT !.unread = "none",
              !.turn = (@ \/ r.unread = "started") /\ r.unread # "ended",
              !.ask = IF r.unread = "asked" THEN "open" ELSE @]

\* The reader records nothing any more once the lifecycle is sealed.
Read(c) ==
    /\ clients[c].unread # "none"
    /\ Set(c, IF clients[c].sealed THEN [clients[c] EXCEPT !.unread = "none"]
              ELSE Recorded(clients[c]))
    /\ UNCHANGED <<resident, ops, lock, supervisor, force, fenced, faults>>

ProcessDies(c) ==
    /\ clients[c].proc = "alive"
    /\ Fault
    /\ Set(c, [clients[c] EXCEPT !.proc = "exited",
         !.lost = Known(IF clients[c].sealed THEN clients[c] ELSE Recorded(clients[c]))])
    /\ UNCHANGED <<resident, ops, lock, supervisor, force, fenced>>

\* The output of the process ends, or cannot be read any further.
ReaderCloses(c) ==
    /\ clients[c].proc # "unborn"
    /\ ~clients[c].closed
    /\ IF clients[c].proc = "alive" THEN Fault
       ELSE clients[c].unread = "none" /\ UNCHANGED faults
    /\ Set(c, [Closed(clients[c]) EXCEPT !.unread = "none"])
    /\ UNCHANGED <<resident, ops, lock, supervisor, force, fenced>>

\* mark_current_closed takes the state only of its own, still current client.
CurrentIs(c) ==
    /\ resident.open
    /\ resident.generation = clients[c].gen
    /\ resident.client = c

\* The monitor may notice the closure even after it was told to stop.
MonitorReports(c) ==
    /\ clients[c].monitor
    /\ clients[c].closed
    /\ Set(c, [clients[c] EXCEPT !.monitor = FALSE])
    /\ IF CurrentIs(c)
       THEN /\ resident' = [resident EXCEPT !.accepting = FALSE, !.pending = TRUE]
            /\ Notify
       ELSE UNCHANGED <<resident, supervisor>>
    /\ UNCHANGED <<ops, lock, force, fenced, faults>>

\* forwarder_generation no longer names its generation.
MonitorStops(c) ==
    /\ clients[c].monitor
    /\ resident.forwarding # clients[c].gen
    /\ Set(c, [clients[c] EXCEPT !.monitor = FALSE])
    /\ UNCHANGED <<resident, ops, lock, supervisor, force, fenced, faults>>

-----------------------------------------------------------------------------
(* The replacement, under restart_lock: restart_if_quiescent_using.         *)

At(pc) == lock.pc = pc
GoTo(pc) == lock' = [lock EXCEPT !.pc = pc]

\* Mutant of Return: a deferred restart counts as settled.
ReturnSettled ==
    /\ lock' = Free
    /\ IF lock.holder = "supervisor"
       THEN /\ supervisor' = [supervisor EXCEPT !.pc = "look",
                                                !.settled = supervisor.generation]
            /\ UNCHANGED force
       ELSE force' = None /\ UNCHANGED supervisor

\* The restart is deferred or failed: the supervisor waits for the retry delay.
Return ==
    /\ lock' = Free
    /\ IF lock.holder = "supervisor"
       THEN supervisor' = [supervisor EXCEPT !.pc = "retry"] /\ UNCHANGED force
       ELSE force' = None /\ UNCHANGED supervisor

PendingFor(g) == resident.open /\ resident.generation = g /\ resident.pending

AfterCheck == IF resident.debt # None THEN "debt" ELSE "fence"

\* unneeded_restart for the supervisor
SupervisorLocks ==
    /\ lock = Free
    /\ supervisor.pc = "attempt"
    /\ IF PendingFor(supervisor.generation)
       THEN /\ lock' = [holder |-> "supervisor", pc |-> AfterCheck]
            /\ UNCHANGED supervisor
       ELSE /\ supervisor' = [supervisor EXCEPT !.pc = "look",
                                               !.settled = supervisor.generation]
            /\ UNCHANGED lock
    /\ UNCHANGED <<resident, clients, ops, force, fenced, faults>>

\* force_restart_if_quiescent observes the generation before it waits.
ForceRestart ==
    /\ force = None
    /\ Fault
    /\ force' = resident.generation
    /\ UNCHANGED <<resident, clients, ops, lock, supervisor, fenced>>

\* unneeded_restart for the forced restart
ForceLocks ==
    /\ lock = Free
    /\ force # None
    /\ IF resident.generation = force /\ resident.open
       THEN /\ resident' = [resident EXCEPT !.pending = TRUE, !.forced = TRUE]
            /\ lock' = [holder |-> "force", pc |-> AfterCheck]
            /\ Notify
            /\ UNCHANGED force
       ELSE force' = None /\ UNCHANGED <<resident, lock, supervisor>>
    /\ UNCHANGED <<clients, ops, fenced, faults>>

\* AppServerClient::close: sealed, pipes shut, the process reaped or, after the
\* forced kill, still there; the closure is published either way.
Unreaped(c) == [Closed(clients[c]) EXCEPT !.unread = "none"]

Reaped(c) == [Unreaped(c) EXCEPT
    !.proc = "exited", !.handle = FALSE,
    !.cut = clients[c].proc = "alive" /\ resident.open
            /\ (Known(clients[c]) # {} \/ InFlight(c))]

\* prepare_replacement_using: the debt of an earlier attempt comes first.
CleanDebt ==
    /\ At("debt")
    /\ Set(resident.debt, Reaped(resident.debt))
    /\ resident' = [resident EXCEPT !.debt = None]
    /\ GoTo("fence")
    /\ UNCHANGED <<ops, supervisor, force, fenced, faults>>

\* Mutant of CleanupFails: the error of the close is ignored.
CleanupIgnored ==
    /\ At("kill")
    /\ Fault
    /\ Set(resident.client, Unreaped(resident.client))
    /\ GoTo("spawn")
    /\ UNCHANGED <<resident, ops, supervisor, force, fenced>>

\* The close of a debt or of the old client reports an error, the child reaped
\* or not: the next attempt retries.
CleanupFails ==
    /\ At("debt") \/ At("kill")
    /\ Fault
    /\ LET c == IF At("debt") THEN resident.debt ELSE resident.client
       IN  Set(c, Unreaped(c)) \/ Set(c, Reaped(c))
    /\ Return
    /\ UNCHANGED <<resident, ops, fenced>>

\* fence_dead_generation_before_restart: go on, or come back later.
FenceNeedless ==
    LET r == clients[resident.client] IN
    resident.authorized \/ (r.handle /\ r.proc = "alive" /\ ~r.closed)

\* Mutant of FenceReady: the exit of the process is enough.
FenceReadyEarly ==
    LET r == clients[resident.client] IN
    /\ ~resident.authorized
    /\ r.handle /\ r.proc = "exited"
    /\ ~InFlight(resident.client)

FenceReady ==
    LET r == clients[resident.client] IN
    /\ ~resident.authorized
    /\ r.handle /\ r.proc = "exited" /\ r.closed
    /\ ~InFlight(resident.client)

PassFence ==
    /\ At("fence")
    /\ FenceNeedless
    /\ GoTo("candidate")
    /\ UNCHANGED <<resident, clients, ops, supervisor, force, fenced, faults>>

PersistFence ==
    LET c == resident.client IN
    /\ At("fence")
    /\ FenceReady
    /\ fenced' = fenced \cup {[gen |-> resident.generation, work |-> Known(clients[c])]}
    /\ Set(c, [clients[c] EXCEPT !.sealed = TRUE, !.turn = FALSE, !.ask = "none"])
    /\ resident' = [resident EXCEPT !.accepting = FALSE]
    /\ GoTo("candidate")
    /\ UNCHANGED <<ops, supervisor, force, faults>>

\* The store refuses the snapshot: nothing is settled.
PersistFails ==
    /\ At("fence")
    /\ FenceReady
    /\ Fault
    /\ Set(resident.client, [clients[resident.client] EXCEPT !.sealed = TRUE])
    /\ resident' = [resident EXCEPT !.accepting = FALSE]
    /\ Return
    /\ UNCHANGED <<ops, fenced>>

DeferFence ==
    /\ At("fence")
    /\ ~FenceNeedless /\ ~FenceReady
    /\ Return
    /\ UNCHANGED <<resident, clients, ops, fenced, faults>>

\* Mutant of Quiescent: admitted operations and server requests do not count.
QuiescentTurnsOnly(c) == ~clients[c].turn

\* seal_if_quiescent of the current client
Quiescent(c) == ~InFlight(c) /\ Known(clients[c]) = {}

SealCandidate ==
    /\ At("candidate")
    /\ Quiescent(resident.client)
    /\ Set(resident.client, Sealed(clients[resident.client]))
    /\ resident' = [resident EXCEPT !.accepting = FALSE, !.authorized = TRUE,
                        !.forwarding = 0, !.forwarders = FALSE]
    /\ GoTo(IF resident.forwarders THEN "join" ELSE "kill")
    /\ UNCHANGED <<ops, supervisor, force, fenced, faults>>

Busy ==
    /\ At("candidate")
    /\ ~Quiescent(resident.client)
    /\ Return
    /\ UNCHANGED <<resident, clients, ops, fenced, faults>>

\* stop_forwarders waits for the tasks of the old generation.
JoinForwarders ==
    /\ At("join") \/ At("close_join")
    /\ ~clients[resident.client].monitor
    /\ GoTo(IF At("join") THEN "kill" ELSE
               IF resident.debt # None THEN "close_debt" ELSE "close_current")
    /\ UNCHANGED <<resident, clients, ops, supervisor, force, fenced, faults>>

KillOld ==
    /\ At("kill")
    /\ Set(resident.client, Reaped(resident.client))
    /\ GoTo("spawn")
    /\ UNCHANGED <<resident, ops, supervisor, force, fenced, faults>>

\* spawn_client and, in the same step, record_replacement
Spawn ==
    /\ At("spawn")
    /\ resident.debt = None
    /\ \E c \in Clients :
         /\ clients[c].proc = "unborn"
         /\ \A d \in 1..(c - 1) : clients[d].proc # "unborn"
         /\ Set(c, Spawned(resident.generation + 1))
         /\ resident' = [resident EXCEPT !.debt = c]
    /\ GoTo("initialize")
    /\ UNCHANGED <<ops, supervisor, force, fenced, faults>>

SpawnFails ==
    /\ At("spawn")
    /\ Fault
    /\ Return
    /\ UNCHANGED <<resident, clients, ops, fenced>>

Initialize ==
    /\ At("initialize")
    /\ ~clients[resident.debt].sealed
    /\ GoTo("install")
    /\ UNCHANGED <<resident, clients, ops, supervisor, force, fenced, faults>>

\* The replacement died, or its startup timed out: it is closed again.  When
\* that close fails as well the debt stays recorded.
ReplacementFails ==
    /\ At("initialize") \/ At("install")
    /\ IF clients[resident.debt].sealed THEN UNCHANGED faults
       ELSE At("initialize") /\ Fault
    /\ \/ /\ Set(resident.debt, Reaped(resident.debt))
          /\ resident' = [resident EXCEPT !.debt = None]
       \/ /\ Set(resident.debt, Unreaped(resident.debt))
          /\ UNCHANGED resident
    /\ Return
    /\ UNCHANGED <<ops, fenced>>

\* install_replacement_with
Install ==
    /\ At("install")
    /\ ~clients[resident.debt].sealed
    /\ resident' = [client |-> resident.debt, debt |-> None,
                    generation |-> clients[resident.debt].gen,
                    quarantined |-> FALSE, pending |-> FALSE, accepting |-> TRUE,
                    open |-> TRUE, authorized |-> FALSE,
                    forwarding |-> clients[resident.debt].gen, forwarders |-> TRUE,
                    forced |-> FALSE]
    /\ Set(resident.debt, [clients[resident.debt] EXCEPT !.monitor = TRUE])
    /\ lock' = Free
    /\ IF lock.holder = "supervisor"
       THEN supervisor' = [supervisor EXCEPT !.pc = "look", !.unseen = TRUE,
                             !.settled = supervisor.generation]
       ELSE Notify
    /\ force' = IF lock.holder = "force" THEN None ELSE force
    /\ UNCHANGED <<ops, fenced, faults>>

\* The task of StartupCleanup closes a replacement whose start was dropped.
StartupCleanup ==
    /\ resident.debt # None
    /\ lock.pc \notin {"initialize", "install"}
    /\ resident.debt # None => clients[resident.debt].handle
    /\ Set(resident.debt, Reaped(resident.debt))
    /\ UNCHANGED <<resident, ops, lock, supervisor, force, fenced, faults>>

-----------------------------------------------------------------------------
(* close, its cancellation and that of a forced restart                     *)

\* prepare_close
Close ==
    /\ lock = Free
    /\ resident.client # None \/ resident.debt # None
    /\ resident' = [resident EXCEPT !.accepting = FALSE, !.open = FALSE,
                       !.pending = FALSE, !.forwarding = 0, !.forwarders = FALSE]
    /\ clients' = [c \in Clients |->
          IF c \in {resident.client, resident.debt}
          THEN Sealed(clients[c]) ELSE clients[c]]
    /\ lock' = [holder |-> "close",
                pc |-> IF resident.forwarders THEN "close_join" ELSE
                         IF resident.debt # None THEN "close_debt" ELSE "close_current"]
    /\ Notify
    /\ UNCHANGED <<ops, force, fenced, faults>>

CloseDebt(ok) ==
    /\ At("close_debt")
    /\ IF ok THEN /\ Set(resident.debt, Reaped(resident.debt))
                  /\ resident' = [resident EXCEPT !.debt = None]
                  /\ UNCHANGED faults
       ELSE Fault /\ Set(resident.debt, Unreaped(resident.debt)) /\ UNCHANGED resident
    /\ GoTo("close_current")
    /\ UNCHANGED <<ops, supervisor, force, fenced>>

\* finish_current_close, only when the child was reaped
CloseCurrent(ok) ==
    /\ At("close_current")
    /\ IF resident.client = None THEN ok /\ UNCHANGED <<clients, resident, faults>>
       ELSE IF ok THEN
                  /\ Set(resident.client, Reaped(resident.client))
                  /\ resident' = [resident EXCEPT !.client = None]
                  /\ UNCHANGED faults
       ELSE Fault /\ Set(resident.client, Unreaped(resident.client)) /\ UNCHANGED resident
    /\ lock' = Free
    /\ UNCHANGED <<ops, supervisor, force, fenced>>

\* The future of a forced restart or of the close is dropped at an await.
Cancel ==
    /\ lock.holder \in {"force", "close"}
    /\ lock.pc \notin {"candidate", "install"}
    /\ Fault
    /\ lock' = Free
    /\ force' = IF lock.holder = "force" THEN None ELSE force
    /\ UNCHANGED <<resident, clients, ops, supervisor, fenced>>

-----------------------------------------------------------------------------
(* run_restart_supervisor_using *)

Look ==
    /\ supervisor.pc = "look"
    /\ supervisor' = IF resident.pending /\ resident.generation > supervisor.settled
         THEN [supervisor EXCEPT !.pc = "attempt", !.unseen = FALSE,
                                 !.generation = resident.generation]
         ELSE [supervisor EXCEPT !.pc = "wait", !.unseen = FALSE]
    /\ UNCHANGED <<resident, clients, ops, lock, force, fenced, faults>>

Wake ==
    /\ \/ supervisor.pc = "wait" /\ supervisor.unseen
       \/ supervisor.pc = "retry"
    /\ supervisor' = [supervisor EXCEPT !.pc = "look"]
    /\ UNCHANGED <<resident, clients, ops, lock, force, fenced, faults>>

-----------------------------------------------------------------------------
Operate ==
    \E o \in Ops :
        \/ \E kind \in {"request", "reply"} : Admit(o, kind)
        \/ Withdraw(o) \/ BeginWrite(o) \/ EndWrite(o) \/ AbortWrite(o) \/ FailClosed(o)
        \/ \E started \in BOOLEAN : Answer(o, started)
        \/ \E isolated \in BOOLEAN : LoseAnswer(o, isolated)

Live ==
    \E c \in Clients :
        \/ TurnStarts(c) \/ TurnStops(c) \/ ServerAsks(c) \/ ProcessDies(c)
        \/ Read(c) \/ ReaderCloses(c) \/ MonitorReports(c) \/ MonitorStops(c)

Replace ==
    \/ CleanDebt \/ CleanupFails \/ PassFence \/ PersistFence \/ PersistFails
    \/ DeferFence \/ SealCandidate \/ Busy \/ JoinForwarders \/ KillOld
    \/ Spawn \/ SpawnFails \/ Initialize \/ ReplacementFails \/ Install
    \/ StartupCleanup

Shut ==
    \/ Close \/ Cancel
    \/ \E ok \in BOOLEAN : CloseDebt(ok) \/ CloseCurrent(ok)

Next ==
    \/ Operate \/ Live \/ Replace \/ Shut
    \/ SupervisorLocks \/ ForceRestart \/ ForceLocks \/ Look \/ Wake

Spec == Init /\ [][Next]_vars

\* The runtime schedules every task; the process takes what is written to it and
\* a call ends at its timeout, a turn that asks nothing ends or is interrupted in
\* the end, and the kernel reports the end of the output of a process that is gone.
\* No reply has to come, and nothing makes a process exit.
FairSpec ==
    /\ Spec
    /\ WF_vars(Replace)
    /\ WF_vars(SupervisorLocks) /\ WF_vars(ForceLocks) /\ WF_vars(Look) /\ WF_vars(Wake)
    /\ WF_vars(\E ok \in BOOLEAN : CloseDebt(ok) \/ CloseCurrent(ok))
    /\ \A o \in Ops : WF_vars(\/ Withdraw(o) \/ EndWrite(o) \/ FailClosed(o)
                             \/ \E started \in BOOLEAN : Answer(o, started))
    /\ \A c \in Clients :
         /\ SF_vars(clients[c].ask = "none" /\ TurnStops(c))
         /\ WF_vars(Read(c))
         /\ WF_vars(clients[c].proc = "exited" /\ ReaderCloses(c))
         /\ WF_vars(MonitorReports(c) \/ MonitorStops(c))

-----------------------------------------------------------------------------
(* Properties *)

TypeOK ==
    /\ resident \in [client : Clients \cup {None}, debt : Clients \cup {None},
                      generation : Clients, quarantined : BOOLEAN, pending : BOOLEAN,
                      accepting : BOOLEAN, open : BOOLEAN, authorized : BOOLEAN,
                      forwarding : 0..MaxClients, forwarders : BOOLEAN, forced : BOOLEAN]
    /\ clients \in [Clients ->
            [proc : {"unborn", "alive", "exited"}, gen : 0..MaxClients, handle : BOOLEAN,
             sealed : BOOLEAN, closed : BOOLEAN, turn : BOOLEAN,
             ask : {"none", "open", "claimed", "stuck"},
             unread : {"none", "started", "ended", "asked"}, abandoned : BOOLEAN,
             monitor : BOOLEAN, suspect : BOOLEAN, cut : BOOLEAN,
             lost : SUBSET {"turn", "request"}]]
    /\ ops \in [Ops -> [step : {"idle", "admitted", "writing", "written"},
                        client : Clients \cup {None}, kind : {"request", "reply"}]]
    /\ lock \in [holder : {None, "supervisor", "force", "close"},
                  pc : {"free", "debt", "fence", "candidate", "join", "kill", "spawn",
                        "initialize", "install", "close_join", "close_debt", "close_current"}]
    /\ supervisor \in [pc : {"look", "attempt", "wait", "retry"},
                        generation : 0..MaxClients, settled : 0..MaxClients, unseen : BOOLEAN]
    /\ force \in Clients \cup {None}
    /\ fenced \subseteq [gen : Clients, work : SUBSET {"turn", "request"}]
    /\ faults \in 0..MaxFaults

\* Two app-servers never run side by side, whatever start, close or restart
\* was dropped or failed, and every process that runs is the current one or
\* the recorded debt (record_replacement, finish_replacement_cleanup).
OneServer ==
    LET running == {c \in Clients : clients[c].proc = "alive"} IN
    /\ TypeOK
    /\ Cardinality(running) <= 1
    /\ running \subseteq {resident.client, resident.debt}

\* A generation that died with a turn or a server request is replaced only after
\* the fence has persisted all of that work, the last messages included that the
\* process left in its pipe; a reply written in time takes its request out of it
\* (fence_dead_generation_before_restart).
LostWorkIsFenced ==
    \A c \in Clients : resident.open /\ resident.client # c /\ clients[c].lost # {} =>
        \E f \in fenced : f.gen = clients[c].gen /\ clients[c].lost \subseteq f.work

\* A replacement never kills a process that has a known turn, an unsettled
\* server request or an admitted operation (restart_candidate), and a restart is
\* pending only against a generation that deserves it: it died, it left a
\* request unanswered, or it was asked for.  Late reports of an earlier
\* generation, its monitor detached or not, leave the current one alone.
RestartIsJust ==
    /\ \A c \in Clients : ~clients[c].cut
    /\ resident.pending =>
          \/ resident.forced
          \/ clients[resident.client].suspect
          \/ clients[resident.client].closed

\* What may hold a quarantined server back for ever: a server request that nobody
\* answers, or whose answer was cut off, and a process that lives on although its
\* transport is closed.
Held ==
    LET c == resident.client IN
    /\ resident.open /\ c # None
    /\ clients[c].ask # "none" \/ (clients[c].closed /\ clients[c].proc = "alive")

\* A server that died is replaced in the end, whatever was left open at it.  One in
\* quarantine, where only replies are let in, is replaced as well, or it is for ever
\* held back by an unsettled server request or by a process that outlives its
\* transport.  The supervisor misses no signal and settles no generation too early.
BadServerIsReplaced ==
    /\ \A c \in Clients :
          (resident.client = c /\ clients[c].proc = "exited")
              ~> (resident.client # c \/ ~resident.open)
    /\ []<>(resident.quarantined => ~resident.open) \/ <>[]Held

=============================================================================
