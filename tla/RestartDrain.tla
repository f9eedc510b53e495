---------------------------- MODULE RestartDrain ----------------------------
(* The restart of the bot without losing work: the admission gate inside the  *)
(* runtime (restart_readiness/drain.rs), the drain loop of the gateway task,  *)
(* the handshake over marker files (drain_controller.rs, drain_marker.rs) and *)
(* the watchdog script that prepares, authorises and carries out the restart  *)
(* (codex-discord-rust-watchdog.ps1 and the scripts it loads).                *)
(*                                                                            *)
(* The runtime, its tasks and the script share nothing but files and the      *)
(* queue table.  The runtime may crash, the script may die or time out        *)
(* between any two file operations, and is run again by the scheduler.        *)
EXTENDS Integers, FiniteSets

CONSTANTS
    Jobs,        \* rows of codex_turn_queue
    MaxRuns,     \* processes of the runtime that may be started
    MaxNonces,   \* restarts asked for; a new fence takes the next number
    MaxEntries,  \* long-lived permits taken
    MaxFaults    \* crashes, deaths of the script, timeouts, unreadable markers

ASSUME BoundsAssumption ==
    MaxRuns \in Nat /\ MaxNonces \in Nat /\ MaxEntries \in Nat /\ MaxFaults \in Nat

VARIABLES
    rt,        \* the live runtime process, 0 if none (RuntimeInstanceGuard)
    phase,     \* where its gateway task is
    stage,     \* the first or the final inspection
    seen,      \* durable snapshot the inspection started from
    gate,      \* GateState: sealed key, controls_open, active permits by kind
    server,    \* the resident app-server is open
    turn,      \* what the app-server does for each row
    rows,      \* codex_turn_queue
    files,     \* the marker files
    journal,   \* .codex_discord_rust.restart.launch
    comp,      \* launch journal of the component "bot", which only a person removes
    wpc,       \* where the watchdog script is
    wkey,      \* its fence
    wchild,    \* the process it started
    runs, nonces, entries, faults,
    drained    \* keys acknowledged with nothing in progress (history)

inside  == <<phase, stage, seen, gate, server>>
work    == <<turn, rows>>
script  == <<comp, wpc, wkey, wchild>>
counts  == <<runs, nonces, entries, faults>>
vars == <<rt, inside, work, files, journal, script, counts, drained>>

Key == [run : Nat, nonce : Nat]
NoKey == [run |-> 0, nonce |-> 0]
\* The key of quarantine_untrusted_prepare; a real nonce is positive.
Untrusted(r) == [run |-> r, nonce |-> 0]

Open == [sealed |-> NoKey, controls |-> FALSE, work |-> 0, ctl |-> 0]
NoFiles == [identity |-> 0, prepare |-> NoKey, ack |-> NoKey, restart |-> NoKey,
            claim |-> NoKey, stop |-> FALSE]
NoJournal == [phase |-> "none", key |-> NoKey, child |-> 0]
NeverLaunched == [phase |-> "none", child |-> 0]

Phases == {"down", "open", "wait", "durable", "live", "durable2", "live2",
           "cleanup", "ack", "confirm", "acked"}
Places == {"off", "prepare", "publish", "await", "quiet", "marker", "complete", "stopping",
           "exit", "claim", "clear", "clear2", "launch", "mark", "spawn", "bind", "child",
           "ready", "done"}

Init ==
    /\ rt = 1 /\ runs = 1
    /\ phase = "open" /\ stage = "first" /\ seen = [j \in Jobs |-> "none"]
    /\ gate = Open /\ server = TRUE
    /\ turn = [j \in Jobs |-> "idle"] /\ rows = [j \in Jobs |-> "none"]
    /\ files = [NoFiles EXCEPT !.identity = 1]
    /\ journal = NoJournal /\ comp = NeverLaunched
    /\ wpc = "off" /\ wkey = NoKey /\ wchild = 0
    /\ nonces = 0 /\ entries = 0 /\ faults = 0
    /\ drained = {}

Fault == faults < MaxFaults /\ faults' = faults + 1

-----------------------------------------------------------------------------
(* Admission.  Every handler that creates or starts work holds an ordinary    *)
(* permit; answers to approvals, /stop and background recovery hold a control *)
(* permit.                                                                    *)

\* GateState.active counts every permit; the one of a request in flight is held by
\* its row until the answer.
InFlight == {j \in Jobs : rows[j] = "starting"}
NoPermits == gate.work = 0 /\ gate.ctl = 0 /\ InFlight = {}
Sealed == gate.sealed # NoKey
ControlOpen == ~Sealed \/ gate.controls

\* Mutant of WorkOpen: an ordinary handler is let in like a control.
WorkOpenLikeControl == ControlOpen

WorkOpen == ~Sealed

\* try_enter_kind
EnterWork ==
    /\ rt # 0 /\ server /\ WorkOpen /\ entries < MaxEntries
    /\ gate' = [gate EXCEPT !.work = @ + 1]
    /\ entries' = entries + 1
    /\ UNCHANGED <<rt, phase, stage, seen, server, work, files, journal, script,
                   runs, nonces, faults, drained>>

EnterControl ==
    /\ rt # 0 /\ server /\ ControlOpen /\ entries < MaxEntries
    /\ gate' = [gate EXCEPT !.ctl = @ + 1]
    /\ entries' = entries + 1
    /\ UNCHANGED <<rt, phase, stage, seen, server, work, files, journal, script,
                   runs, nonces, faults, drained>>

\* Clone of a permit: counted even when the gate is sealed.
ClonePermit ==
    /\ entries < MaxEntries
    /\ \/ gate.work > 0 /\ gate' = [gate EXCEPT !.work = @ + 1]
       \/ gate.ctl > 0 /\ gate' = [gate EXCEPT !.ctl = @ + 1]
    /\ entries' = entries + 1
    /\ UNCHANGED <<rt, phase, stage, seen, server, work, files, journal, script,
                   runs, nonces, faults, drained>>

\* Drop of a permit gives back what entering or cloning took.
Returned(n) == n - 1

LeavePermit ==
    /\ \/ gate.work > 0 /\ gate' = [gate EXCEPT !.work = Returned(@)]
       \/ gate.ctl > 0 /\ gate' = [gate EXCEPT !.ctl = Returned(@)]
    /\ UNCHANGED <<rt, phase, stage, seen, server, work, files, journal, script,
                   counts, drained>>

OnlyRows == UNCHANGED <<rt, phase, stage, seen, server, files, journal, script, runs,
                        nonces, entries, drained>>

\* A handler with an ordinary permit stores a request.  j stands for a new row, so
\* no turn of an earlier one goes under its name.
Accept(j) ==
    /\ gate.work > 0 /\ rows[j] = "none" /\ turn[j] = "idle"
    /\ rows' = [rows EXCEPT ![j] = "pending"]
    /\ OnlyRows /\ UNCHANGED <<gate, turn, faults>>

\* start_next claims the row under an ordinary permit of its own, taken before the
\* preflight and held until the answer.
Start(j) ==
    /\ gate.work > 0 /\ server /\ rows[j] = "pending"
    /\ rows' = [rows EXCEPT ![j] = "starting"]
    /\ gate' = [gate EXCEPT !.work = @ - 1]
    /\ OnlyRows /\ UNCHANGED <<turn, faults>>

\* The end of start_next: the row goes to r and its permit is dropped.
Answered(j, r) ==
    /\ rows[j] = "starting"
    /\ rows' = [rows EXCEPT ![j] = r]
    /\ OnlyRows /\ UNCHANGED gate

\* The turn was accepted.
Acknowledged(j) ==
    /\ Answered(j, "running")
    /\ turn' = [turn EXCEPT ![j] = "active"] /\ UNCHANGED faults

\* It was refused, and waits for another attempt.
Rejected(j) == Answered(j, "pending") /\ Fault /\ UNCHANGED turn

\* The answer is lost: the row stays Starting with an unknown outcome.  The
\* app-server has taken the request or never will.
AnswerLost(j) ==
    /\ Answered(j, "unknown") /\ Fault
    /\ turn' \in {turn, [turn EXCEPT ![j] = "active"]}

\* The turn asks for an approval or an input; a control carries the answer.
Ask(j) ==
    /\ turn[j] = "active"
    /\ turn' = [turn EXCEPT ![j] = "asking"]
    /\ OnlyRows /\ UNCHANGED <<gate, rows, faults>>

\* A control permit can be had, or was taken before the controls were closed.
ControlRuns == ControlOpen \/ gate.ctl > 0

Answer(j) ==
    /\ turn[j] = "asking" /\ ControlRuns
    /\ turn' = [turn EXCEPT ![j] = "answered"]
    /\ OnlyRows /\ UNCHANGED <<gate, rows, faults>>

TurnEnds(j) ==
    /\ turn[j] \in {"active", "answered"}
    /\ turn' = [turn EXCEPT ![j] = "idle"]
    /\ OnlyRows /\ UNCHANGED <<gate, rows, faults>>

\* turn/completed, or recover_lane under a control permit: a Running row whose turn is
\* over has its reply staged and is deleted.
FinishRow(j) ==
    /\ rt # 0 /\ server /\ rows[j] = "running" /\ turn[j] = "idle" /\ ControlRuns
    /\ rows' = [rows EXCEPT ![j] = "none"]
    /\ OnlyRows /\ UNCHANGED <<gate, turn, faults>>

\* recover_incremental, which a drain passes over: the history shows the turn of an
\* unknown request, or several it might be, and the row is held for a person; a
\* Running row may be quarantined.
Recover(j) ==
    /\ rt # 0 /\ server /\ (~Sealed \/ gate.ctl > 0)
    /\ \/ rows[j] = "unknown" /\ rows' = [rows EXCEPT ![j] = "running"]
       \/ rows[j] \in {"unknown", "running"} /\ rows' = [rows EXCEPT ![j] = "held"]
    /\ OnlyRows /\ UNCHANGED <<gate, turn, faults>>

\* A person gives up a row whose outcome is unknown; the command is ordinary work.
Resolve(j) ==
    /\ rt # 0 /\ server /\ (~Sealed \/ gate.work > 0)
    /\ rows[j] \in {"unknown", "held"}
    /\ rows' = [rows EXCEPT ![j] = "none"]
    /\ OnlyRows /\ UNCHANGED <<gate, turn, faults>>

-----------------------------------------------------------------------------
(* The gateway task: run_gateway_loop, then drain_until_quiescent.            *)

Here == UNCHANGED <<rt, seen, server, work, files, journal, script, counts, drained>>

\* Mutant of SealedBy: the controls are shut with the intake.
SealedByShut(k) == [gate EXCEPT !.sealed = k]

\* seal: controls stay open so that work in progress can be answered or stopped.
SealedBy(k) == [gate EXCEPT !.sealed = k, !.controls = TRUE]

\* claim_prepare and seal; an already sealed gate refuses another key.
ClaimPrepare ==
    /\ phase = "open" /\ ~files.stop /\ files.prepare # NoKey
    /\ files.prepare.run = rt /\ ~Sealed
    /\ gate' = SealedBy(files.prepare)
    /\ phase' = "wait" /\ stage' = "first"
    /\ Here

\* The marker cannot be read, or names another process: quarantine_untrusted_prepare
\* seals with a key nobody can acknowledge.
Quarantine ==
    /\ phase = "open" /\ ~files.stop /\ files.prepare # NoKey
    /\ ~Sealed
    /\ IF files.prepare.run = rt THEN Fault ELSE UNCHANGED faults
    /\ gate' = SealedBy(Untrusted(rt))
    /\ UNCHANGED <<rt, phase, stage, seen, server, work, files, journal, script,
                   runs, nonces, entries, drained>>

\* wait_for_admission
WaitDrained ==
    /\ phase = "wait" /\ NoPermits
    /\ phase' = "durable"
    /\ UNCHANGED <<stage, gate>> /\ Here

\* snapshot: Starting and Running rows, but not a Starting row held over several
\* candidates nor a quarantined Running one.
BusyIn(r) == {j \in Jobs : r[j] \in {"starting", "unknown", "running"}}
Busy == BusyIn(rows)
Quiet == \A j \in Jobs : turn[j] = "idle"

\* Mutant of Blocked: only the app-server is asked.
BlockedNever == FALSE

\* A busy row blocks the restart; Pending and held rows wait for the next process.
Blocked == Busy # {}

\* reopen_controls if they had been closed, and wait again.
Retry ==
    /\ phase' = "wait" /\ stage' = "first"
    /\ gate' = IF stage = "final" THEN [gate EXCEPT !.controls = TRUE] ELSE gate

\* The final wait has a time limit; the first one is simply repeated.
FinalTimeout ==
    /\ phase = "wait" /\ stage = "final" /\ ~NoPermits
    /\ Retry /\ Here

\* check_runtime_quiescence: rows, app-server, rows again, app-server again.
ReadRows ==
    /\ phase = "durable"
    /\ seen' = rows
    /\ IF Blocked THEN Retry ELSE phase' = "live" /\ UNCHANGED <<stage, gate>>
    /\ UNCHANGED <<rt, server, work, files, journal, script, counts, drained>>

ObserveServer ==
    /\ phase = "live"
    /\ IF Quiet THEN phase' = "durable2" /\ UNCHANGED <<stage, gate>> ELSE Retry
    /\ Here

ReadRowsAgain ==
    /\ phase = "durable2"
    /\ IF rows = seen THEN phase' = "live2" /\ UNCHANGED <<stage, gate>> ELSE Retry
    /\ Here

\* Ready: close the controls and inspect once more, or leave the loop.
AfterInspection ==
    \/ /\ stage = "first"
       /\ gate' = [gate EXCEPT !.controls = FALSE]
       /\ phase' = "wait" /\ stage' = "final"
    \/ /\ stage = "final"
       /\ phase' = "cleanup" /\ UNCHANGED <<stage, gate>>

ObserveServerAgain ==
    /\ phase = "live2"
    /\ IF Quiet THEN AfterInspection ELSE Retry
    /\ Here

\* A store or app-server error while inspecting.
InspectionFails ==
    /\ phase \in {"durable", "live", "durable2", "live2"}
    /\ Fault /\ Retry
    /\ UNCHANGED <<rt, seen, server, work, files, journal, script, runs, nonces,
                   entries, drained>>

-----------------------------------------------------------------------------
(* The end of a process.                                                      *)

\* The process is gone: gate, permits and app-server go with it, rows and files stay.
\* What became of a request in flight is unknown.
Gone ==
    /\ rt' = 0 /\ phase' = "down" /\ stage' = "first" /\ gate' = Open /\ server' = FALSE
    /\ turn' = [j \in Jobs |-> "idle"]
    /\ rows' = [j \in Jobs |-> IF j \in InFlight THEN "unknown" ELSE rows[j]]
    /\ UNCHANGED seen

\* An orderly end also removes the identity file (Drop of the controller).
Leave ==
    /\ Gone
    /\ files' = [files EXCEPT !.identity = IF @ = rt THEN 0 ELSE @]

\* Workers and gateway are stopped, then the app-server is closed; if one of them
\* fails the process ends without acknowledging.
Cleanup ==
    /\ phase = "cleanup"
    /\ \/ /\ phase' = "ack" /\ server' = FALSE
          /\ UNCHANGED <<rt, stage, seen, gate, work, files, journal, script, counts,
                         drained>>
       \/ /\ Fault /\ Leave
          /\ UNCHANGED <<journal, script, runs, nonces, entries, drained>>

\* is_drained_for, and prepare still names this fence.
MayAcknowledge == NoPermits /\ files.prepare = gate.sealed

\* acknowledge: publish, then read prepare again.
Acknowledge ==
    /\ phase = "ack" /\ ~files.stop /\ MayAcknowledge
    /\ files' = [files EXCEPT !.ack = gate.sealed]
    /\ phase' = "confirm"
    /\ drained' = IF Busy = {} THEN drained \cup {gate.sealed} ELSE drained
    /\ UNCHANGED <<rt, stage, seen, gate, server, work, journal, script, counts>>

ConfirmAck ==
    /\ phase = "confirm"
    /\ IF files.prepare = gate.sealed
       THEN phase' = "acked" /\ UNCHANGED files
       ELSE phase' = "ack" /\ files' = [files EXCEPT !.ack = NoKey]
    /\ UNCHANGED <<rt, stage, seen, gate, server, work, journal, script, counts, drained>>

\* wait_for_transition_inner: the restart marker carries this fence.
RestartExit ==
    /\ phase = "acked" /\ ~files.stop /\ files.restart = gate.sealed
    /\ Leave
    /\ UNCHANGED <<journal, script, counts, drained>>

\* The stop marker, polled in every wait, or Ctrl+C.
StopExit ==
    /\ rt # 0 /\ phase \notin {"cleanup", "confirm"} /\ files.stop
    /\ Leave
    /\ UNCHANGED <<journal, script, counts, drained>>

Crash ==
    /\ rt # 0 /\ Fault /\ Gone
    /\ UNCHANGED <<files, journal, script, runs, nonces, entries, drained>>

RequestStop ==
    /\ ~files.stop /\ Fault
    /\ files' = [files EXCEPT !.stop = TRUE]
    /\ UNCHANGED <<rt, inside, work, journal, script, runs, nonces, entries, drained>>

-----------------------------------------------------------------------------
(* The watchdog script.  It holds the control lock, so one copy runs.  A step *)
(* is one file operation with the reads that lead to it; a step whose test    *)
(* fails throws, and the script ends.                                         *)

Apart == UNCHANGED <<rt, inside, work, drained>>
Outside == Apart /\ UNCHANGED comp
Tally == UNCHANGED <<runs, nonces, entries, faults>>

\* Assert-CdrRestartTransactionMarkers: whatever marker exists carries the fence.
MarkersMatch(k) ==
    /\ ~files.stop
    /\ {files.restart, files.prepare, files.ack, files.claim} \subseteq {NoKey, k}

\* Get-RuntimeDrainIdentity: the identity file belongs to the live process.
Identified(k) == rt # 0 /\ rt = k.run /\ files.identity = rt

NoOperation ==
    journal.phase = "none" /\ files.claim = NoKey /\ files.restart = NoKey /\ ~files.stop

\* The fence to use: the one already published, or a new nonce.
NewFence == IF files.prepare = NoKey THEN [run |-> rt, nonce |-> nonces + 1]
            ELSE files.prepare

\* New-CdrRestartPreparation, for a request or because a prepare marker was left
\* behind: the journal is written before the intake is sealed.
WatchPrepare ==
    /\ wpc = "off" /\ NoOperation /\ rt # 0 /\ Identified(NewFence)
    /\ IF files.prepare = NoKey THEN nonces < MaxNonces /\ nonces' = nonces + 1
       ELSE UNCHANGED nonces
    /\ journal' = [phase |-> "preparing", key |-> NewFence, child |-> 0]
    /\ wpc' = "prepare" /\ wkey' = NewFence
    /\ Outside /\ UNCHANGED <<files, wchild, runs, entries, faults>>

\* -CheckRestartReady: the same drain without a journal.
WatchCheck ==
    /\ wpc = "off" /\ NoOperation /\ rt # 0 /\ Identified(NewFence)
    /\ nonces < MaxNonces /\ nonces' = nonces + 1
    /\ wpc' = "prepare" /\ wkey' = NewFence
    /\ Outside /\ UNCHANGED <<files, journal, wchild, runs, entries, faults>>

\* A preparing journal is resumed against the process it names.
WatchResume ==
    /\ wpc = "off" /\ journal.phase = "preparing" /\ ~files.stop
    /\ files.restart = NoKey /\ Identified(journal.key)
    /\ wpc' = "prepare" /\ wkey' = journal.key
    /\ Outside /\ UNCHANGED <<files, journal, wchild>> /\ Tally

\* Complete-CdrRestartPreparation: exact acknowledgement and restart marker.
Authorised(k) == files.ack = k /\ files.restart = k

\* A preparing journal whose restart marker was already published.
WatchComplete ==
    /\ wpc = "off" /\ journal.phase = "preparing" /\ files.restart # NoKey
    /\ MarkersMatch(journal.key) /\ Authorised(journal.key)
    /\ journal' = [journal EXCEPT !.phase = "prepared"]
    /\ Outside /\ UNCHANGED <<files, script>> /\ Tally

\* Mutant of Launchable: an incomplete preparation is carried on as if authorised.
LaunchableWhilePreparing == journal.phase \in {"preparing", "prepared", "child"}

\* No launch for a preparation that is incomplete, nor after a launch whose outcome
\* is unknown.
Launchable == journal.phase \in {"prepared", "child"}

\* Invoke-CdrRestartTransaction, after the old process has gone if it still lives.
WatchTransaction ==
    /\ wpc = "off" /\ Launchable /\ MarkersMatch(journal.key)
    /\ \/ /\ rt = 0 /\ wpc' = "claim"
       \/ /\ journal.phase = "prepared" /\ rt = journal.key.run /\ Authorised(journal.key)
          /\ wpc' = "exit"
       \/ /\ journal.phase = "child" /\ rt # 0 /\ rt = journal.child
          /\ wpc' = "ready"
    /\ wkey' = journal.key
    /\ Outside /\ UNCHANGED <<files, journal, wchild>> /\ Tally

\* The stop marker: wait for the process to end, clear what it left, consume it.
WatchStop ==
    /\ wpc = "off" /\ journal.phase = "none" /\ files.claim = NoKey /\ files.stop
    /\ \/ /\ rt = 0 /\ UNCHANGED wpc
          /\ files' = [files EXCEPT !.prepare = NoKey, !.ack = NoKey, !.identity = 0,
                                    !.stop = FALSE]
       \/ rt # 0 /\ wpc' = "stopping" /\ UNCHANGED files
    /\ Outside /\ UNCHANGED <<journal, wkey, wchild>> /\ Tally

StopDone ==
    /\ wpc = "stopping" /\ rt = 0
    /\ files' = [files EXCEPT !.stop = FALSE]
    /\ wpc' = "off"
    /\ Outside /\ UNCHANGED <<journal, wkey, wchild>> /\ Tally

\* Clear-OrphanedRestartDrainArtifacts
ClearDead == [files EXCEPT !.prepare = NoKey, !.ack = NoKey, !.identity = 0]

\* Nothing is running and nothing is pending: start the runtime.
WatchStart ==
    /\ wpc = "off" /\ NoOperation /\ rt = 0 /\ runs < MaxRuns
    /\ files' = ClearDead
    /\ wpc' = "launch" /\ wkey' = NoKey
    /\ Outside /\ UNCHANGED <<journal, wchild>> /\ Tally

\* A stale heartbeat: kill the process and start another.
WatchUnhealthy ==
    /\ wpc = "off" /\ NoOperation /\ rt # 0 /\ files.prepare = NoKey /\ runs < MaxRuns
    /\ Fault /\ Gone
    /\ wpc' = "launch" /\ wkey' = NoKey
    /\ UNCHANGED <<files, journal, comp, wchild, runs, nonces, entries, drained>>

\* Enter-RestartDrain identifies the process, then publishes the fence unless it
\* finds its own.
Identify ==
    /\ wpc = "prepare" /\ Identified(wkey) /\ files.prepare \in {NoKey, wkey}
    /\ wpc' = "publish"
    /\ Outside /\ UNCHANGED <<files, journal, wkey, wchild>> /\ Tally

PublishPrepare ==
    /\ wpc = "publish"
    /\ files' = [files EXCEPT !.prepare = wkey]
    /\ wpc' = "await"
    /\ Outside /\ UNCHANGED <<journal, wkey, wchild>> /\ Tally

AwaitAck ==
    /\ wpc = "await" /\ Identified(wkey) /\ files.ack = wkey
    /\ wpc' = "quiet"
    /\ Outside /\ UNCHANGED <<files, journal, wkey, wchild>> /\ Tally

\* Assert-RestartDrainBound
Bound == rt = wkey.run /\ files.prepare = wkey /\ files.ack = wkey

\* Wait-RustThreadsQuietForRestart between two Assert-RestartDrainBound.
CheckQuiet ==
    /\ wpc = "quiet" /\ Bound /\ Busy = {}
    /\ wpc' = "marker"
    /\ Outside /\ UNCHANGED <<files, journal, wkey, wchild>> /\ Tally

\* Write-BoundRestartMarker; a check ends here.
PublishRestart ==
    /\ wpc = "marker" /\ Bound
    /\ IF journal.phase = "none"
       THEN wpc' = "off" /\ UNCHANGED files
       ELSE /\ files.restart = NoKey
            /\ files' = [files EXCEPT !.restart = wkey]
            /\ wpc' = "complete"
    /\ Outside /\ UNCHANGED <<journal, wkey, wchild>> /\ Tally

CompletePreparation ==
    /\ wpc = "complete" /\ MarkersMatch(wkey) /\ Authorised(wkey)
    /\ journal' = [journal EXCEPT !.phase = "prepared"]
    /\ wpc' = "off"
    /\ Outside /\ UNCHANGED <<files, wkey, wchild>> /\ Tally

\* Wait-RustRuntimeExit
AwaitExit ==
    /\ wpc = "exit" /\ rt # wkey.run
    /\ wpc' = "claim"
    /\ Outside /\ UNCHANGED <<files, journal, wkey, wchild>> /\ Tally

\* Mutant of Claimable: a transaction cut short after the claim is not taken up.
ClaimableOnce == files.restart # NoKey

\* One of the restart marker and its claim; a claim left by a dead script is kept.
Claimable == files.restart = NoKey \/ files.claim = NoKey

\* The restart marker becomes the claim.
ClaimRestart ==
    /\ wpc = "claim" /\ rt = 0 /\ MarkersMatch(wkey) /\ Claimable
    /\ files' = [files EXCEPT !.claim = IF files.restart = NoKey THEN @ ELSE wkey,
                              !.restart = NoKey]
    /\ wpc' = "clear"
    /\ Outside /\ UNCHANGED <<journal, wkey, wchild>> /\ Tally

ClearPrepare ==
    /\ wpc = "clear" /\ MarkersMatch(wkey)
    /\ files' = [files EXCEPT !.prepare = NoKey]
    /\ wpc' = "clear2"
    /\ Outside /\ UNCHANGED <<journal, wkey, wchild>> /\ Tally

\* The acknowledgement, Clear-DeadRuntimeArtifacts, which wants no live process, and
\* the journal goes back to prepared if a child it recorded has died.
ClearAck ==
    /\ wpc = "clear2" /\ rt = 0
    /\ files' = ClearDead
    /\ journal' = [journal EXCEPT !.phase = "prepared", !.child = 0]
    /\ wpc' = "launch"
    /\ Outside /\ UNCHANGED <<wkey, wchild>> /\ Tally

\* The process the launch journal names is alive.
ChildLives == comp.child # 0 /\ comp.child = rt

\* No launch while the outcome of an earlier one is unknown, nor beside its process.
MayLaunch == comp.phase = "none" \/ (comp.phase = "launched" /\ ~ChildLives)

\* Set-CdrLaunchStarting: the launch journal says launching before the process is
\* created; in a restart its own journal says so next.
LaunchStarting ==
    /\ wpc = "launch" /\ runs < MaxRuns
    /\ journal.phase \in {"none", "prepared"} /\ MayLaunch
    /\ comp' = [phase |-> "launching", child |-> 0]
    /\ wpc' = IF journal.phase = "none" THEN "spawn" ELSE "mark"
    /\ Apart /\ UNCHANGED <<files, journal, wkey, wchild>> /\ Tally

MarkLaunching ==
    /\ wpc = "mark"
    /\ journal' = [journal EXCEPT !.phase = "launching"]
    /\ wpc' = "spawn"
    /\ Outside /\ UNCHANGED <<files, wkey, wchild>> /\ Tally

\* "duplicate launch refused": a launch that did not end is unknown from now on.
LaunchRefused ==
    /\ wpc = "launch" /\ ~MayLaunch
    /\ comp' = IF comp.phase = "launching" THEN [phase |-> "unknown", child |-> 0] ELSE comp
    /\ wpc' = "off"
    /\ Apart /\ UNCHANGED <<files, journal, wkey, wchild>> /\ Tally

\* initialize refuses to run over the markers of an earlier process.
MayInitialize == files.prepare = NoKey /\ files.ack = NoKey

\* RuntimeInstanceGuard::acquire and initialize; a process refused by either ends.
Started ==
    /\ runs < MaxRuns
    /\ IF rt = 0 /\ MayInitialize
       THEN /\ rt' = runs + 1 /\ runs' = runs + 1
            /\ phase' = "open" /\ stage' = "first" /\ gate' = Open
            /\ server' = TRUE /\ UNCHANGED <<seen, work>>
            /\ files' = [files EXCEPT !.identity = runs + 1]
       ELSE UNCHANGED <<rt, runs, inside, work, files>>

Spawn ==
    /\ wpc = "spawn" /\ Started
    /\ wchild' = IF rt = 0 THEN rt' ELSE 0
    /\ wpc' = "bind"
    /\ UNCHANGED <<journal, comp, wkey, nonces, entries, faults, drained>>

\* Set-CdrLaunchChild: the launch journal names the process, then the restart's own.
Bind ==
    /\ wpc = "bind"
    /\ comp' = [phase |-> "launched", child |-> wchild]
    /\ wpc' = IF journal.phase = "launching" THEN "child" ELSE "off"
    /\ Apart /\ UNCHANGED <<files, journal, wkey, wchild>> /\ Tally

\* The process cannot be created, or not be bound: its outcome is unknown.
LaunchFails ==
    /\ wpc \in {"spawn", "bind", "child"} /\ Fault
    /\ comp' = [phase |-> "unknown", child |-> 0]
    /\ wpc' = "off"
    /\ Apart /\ UNCHANGED <<files, journal, wkey, wchild, runs, nonces, entries>>

\* A person starts the program outside the script.
ManualStart ==
    /\ rt = 0 /\ Fault /\ Started
    /\ UNCHANGED <<journal, script, nonces, entries, drained>>

RecordChild ==
    /\ wpc = "child"
    /\ journal' = [journal EXCEPT !.phase = "child", !.child = wchild]
    /\ wpc' = "ready"
    /\ Outside /\ UNCHANGED <<files, wkey, wchild>> /\ Tally

\* Wait-CdrReplacementReady, Write-CdrRestartCompletion, then the markers go.
Complete ==
    /\ wpc = "ready" /\ rt # 0 /\ rt = journal.child /\ MarkersMatch(wkey)
    /\ files' = [files EXCEPT !.restart = NoKey, !.prepare = NoKey, !.ack = NoKey,
                              !.claim = NoKey]
    /\ wpc' = "done"
    /\ Outside /\ UNCHANGED <<journal, wkey, wchild>> /\ Tally

ForgetJournal ==
    /\ wpc = "done"
    /\ journal' = NoJournal
    /\ wpc' = "off"
    /\ Outside /\ UNCHANGED <<files, wkey, wchild>> /\ Tally

\* The test of the present step fails: throw.
Refused ==
    \/ wpc = "prepare" /\ ~(Identified(wkey) /\ files.prepare \in {NoKey, wkey})
    \/ wpc = "await" /\ ~(Identified(wkey) /\ files.ack \in {NoKey, wkey})
    \/ wpc = "quiet" /\ ~Bound
    \/ wpc = "marker" /\ ~(Bound /\ files.restart = NoKey)
    \/ wpc = "complete" /\ ~(MarkersMatch(wkey) /\ Authorised(wkey))
    \/ wpc = "claim" /\ ~(rt = 0 /\ MarkersMatch(wkey) /\ Claimable)
    \/ wpc = "clear" /\ ~MarkersMatch(wkey)
    \/ wpc = "clear2" /\ rt # 0
    \/ wpc = "ready" /\ ~(rt # 0 /\ rt = journal.child /\ MarkersMatch(wkey))

Throw ==
    /\ Refused
    /\ wpc' = "off"
    /\ Outside /\ UNCHANGED <<files, journal, wkey, wchild>> /\ Tally

\* A time limit of the script runs out, or the script dies.
ScriptDies ==
    /\ wpc # "off" /\ Fault
    /\ wpc' = "off"
    /\ Outside /\ UNCHANGED <<files, journal, wkey, wchild, runs, nonces, entries>>
-----------------------------------------------------------------------------
Request(j) == Accept(j) \/ Start(j) \/ Acknowledged(j) \/ Rejected(j) \/ AnswerLost(j)

Row == \E j \in Jobs :
    \/ Request(j) \/ Ask(j) \/ Answer(j) \/ TurnEnds(j) \/ FinishRow(j)
    \/ Recover(j) \/ Resolve(j)

Admission == EnterWork \/ EnterControl \/ ClonePermit \/ LeavePermit

Gateway ==
    \/ ClaimPrepare \/ WaitDrained \/ ReadRows \/ ObserveServer \/ ReadRowsAgain
    \/ ObserveServerAgain \/ Cleanup \/ Acknowledge \/ ConfirmAck \/ RestartExit \/ StopExit

Preparing ==
    \/ WatchPrepare \/ WatchResume \/ WatchComplete \/ Identify \/ PublishPrepare
    \/ AwaitAck \/ CheckQuiet \/ PublishRestart \/ CompletePreparation

Restarting ==
    \/ WatchTransaction \/ AwaitExit \/ ClaimRestart \/ ClearPrepare \/ ClearAck
    \/ MarkLaunching \/ RecordChild \/ Complete \/ ForgetJournal

Launching == LaunchStarting \/ LaunchRefused \/ Spawn \/ Bind

Watching == WatchStop \/ StopDone \/ WatchStart \/ Throw

Script == Preparing \/ Restarting \/ Launching \/ Watching

\* What a person or a failure may do and nothing obliges to happen.
Disturbance ==
    \/ Quarantine \/ FinalTimeout \/ InspectionFails \/ Crash \/ RequestStop
    \/ WatchCheck \/ WatchUnhealthy \/ ManualStart \/ LaunchFails \/ ScriptDies

Next == Row \/ Admission \/ Gateway \/ Script \/ Disturbance

\* The gateway task polls for ever, handlers and turns end, approvals are answered,
\* a request has a time limit, Running rows are reconciled, and the scheduler runs
\* the watchdog every minute.  Nobody is bound to resolve an unknown outcome.
Fairness ==
    /\ WF_vars(Gateway) /\ WF_vars(LeavePermit) /\ WF_vars(Script)
    /\ \A j \in Jobs :
          /\ WF_vars(Acknowledged(j) \/ Rejected(j) \/ AnswerLost(j))
          /\ WF_vars(Answer(j)) /\ WF_vars(TurnEnds(j)) /\ WF_vars(FinishRow(j))

Spec == Init /\ [][Next]_vars /\ Fairness

-----------------------------------------------------------------------------
(* Properties.                                                                *)

GateState == [sealed : Key, controls : BOOLEAN, work : Nat, ctl : Nat]
Markers == [identity : Nat, prepare : Key, ack : Key, restart : Key, claim : Key,
            stop : BOOLEAN]
Journals == [phase : {"none", "preparing", "prepared", "launching", "child"},
             key : Key, child : Nat]
Launches == [phase : {"none", "launching", "launched", "unknown"}, child : Nat]
RowStates == {"none", "pending", "starting", "unknown", "running", "held"}

\* Type invariant: the gate counts permits and never goes below zero, and every
\* marker is a fence.
TypeOK ==
    /\ rt \in Nat /\ runs \in Nat /\ nonces \in Nat /\ entries \in Nat /\ faults \in Nat
    /\ phase \in Phases /\ stage \in {"first", "final"} /\ server \in BOOLEAN
    /\ gate \in GateState
    /\ seen \in [Jobs -> RowStates] /\ rows \in [Jobs -> RowStates]
    /\ turn \in [Jobs -> {"idle", "active", "asking", "answered"}]
    /\ files \in Markers /\ journal \in Journals /\ comp \in Launches
    /\ wpc \in Places /\ wkey \in Key /\ wchild \in Nat
    /\ drained \subseteq Key

\* While a runtime lives, an acknowledgement on disk is its own, for the fence the
\* script published, and nothing is in progress: no permit, no Starting or Running
\* row, no turn, and the app-server is closed.
AckIsExact ==
    rt # 0 /\ files.ack # NoKey =>
        /\ files.ack.run = rt /\ files.ack = gate.sealed /\ files.ack = files.prepare
        /\ NoPermits /\ Busy = {} /\ Quiet /\ ~server

\* A launch is authorised only for a fence that was acknowledged with nothing in
\* progress, whatever crashed since.
LaunchWasAuthorised ==
    journal.phase \in {"prepared", "launching", "child"} => journal.key \in drained

\* Once the drain has seen every permit returned, no row is started by this process.
NothingStartsOnceDrained ==
    [][rt' = rt /\ phase \notin {"down", "open", "wait"} =>
         BusyIn(rows') \subseteq Busy]_vars

\* A claimed drain ends in an acknowledgement or with the process, unless a request
\* whose outcome nobody knows waits for a person: the controls stay open for it.
DrainCompletes ==
    phase = "wait" ~> phase \in {"acked", "down"} \/ \E j \in Jobs : rows[j] = "unknown"

\* A launch begun and not recorded, which no later run of the script repeats.
LaunchUnknown == wpc = "off" /\ comp.phase \in {"launching", "unknown"}

\* The watchdog leaves nobody without a bot: a dead runtime with no restart under way
\* is started again, whatever markers it left, and an authorised restart is carried
\* out, or stopped by a person, or held because the outcome of a launch is unknown or
\* a process the script did not start is running.
RestartFinishes ==
    /\ rt = 0 /\ journal.phase = "none"
          ~> rt # 0 \/ journal.phase # "none" \/ runs = MaxRuns \/ LaunchUnknown
    /\ journal.phase = "prepared"
          ~> \/ journal.phase \in {"none", "launching"}
             \/ files.stop \/ runs = MaxRuns \/ LaunchUnknown
             \/ rt \notin {0, journal.key.run, journal.child}

\* docs/runtime-build-and-retry.md: "A crash in that phase resumes preparation".  A
\* run of the watchdog takes up every journal left in the phase preparing, unless a
\* person has asked for a stop.
PreparationResumes ==
    journal.phase = "preparing" /\ wpc = "off"
        ~> wpc # "off" \/ journal.phase # "preparing" \/ files.stop

=============================================================================
