# Verification of codex-discord-remote-rust

The repository is a Discord bot, written in Rust, that turns Discord messages into
turns of a Codex app-server and delivers the answers back. Its central promise is
about requests: one that was accepted is executed at most once and answered once,
although the bot, the app-server it owns, the Discord gateway and the machine may fail
at any point. All of that is durable state in SQLite plus volatile state in async
tasks, and the bugs live where the two meet. The modules here model that core.

## 1. Inventory

| Part | State it keeps | Operations | Hard behaviour |
|---|---|---|---|
| Turn queue (`cdr-store/src/queue`, `cdr-runtime/src/queue_runner`) | `codex_turn_queue`: one row per request (Pending, Starting, Running), attempt count, baseline of turn ids, generation, last error; one async mutex per target | submit, kick, preflight, claim, dispatch, record, observe, reconcile, adopt, stage completion | crash between claim and answer, lost answers, recovery racing the start lane |
| Mutation journal (`cdr-store/src/mutation_attempt`) | `codex_mutation_attempts`: one prepared attempt per target | begin_checked, finish, resume recovery at startup | an attempt whose answer never came blocks the target for ever |
| Dead-generation fence (`cdr-store/src/dead_generation`, `cdr-app-server/src/manager/dead_generation.rs`) | incidents (sealed generations) and holds (targets) | capture, check_request, settle | death between the claim and the answer |
| Execution holds and /stop (`cdr-store/src/execution_hold.rs`, `cdr-store/src/ingress/stop`) | held request ids, accepted stop scopes, generations, ends, receipts | accept scope, hold, settle | /stop does not take the queue lock |
| Resident app-server manager (`cdr-app-server/src/manager`) | generation, lifecycle phase, in-flight requests, quarantine, replacement debt | admit, finish, mark timeout or death, restart if quiescent, install replacement, close | restart racing admission, death callbacks of an old generation |
| Restart drain (`cdr-runtime/src/restart_readiness`, `discord_runtime/gateway_drain.rs`, `codex-discord-rust-drain.ps1`) | admission gate (sealed, active permits by kind), handshake files | enter, seal, drain, close controls, release, acknowledge | admission racing the seal, the deploy script dying in the middle |
| Delivery outbox (`cdr-store/src/delivery.rs`, `commentary_outbox.rs`, `delivery_receipt.rs`, `cdr-runtime/src/completion_worker`) | staged commentary and replies, chunk receipts, failure counts | stage, send chunk, record receipt, confirm by echo, complete | crash between sending to Discord and recording it, order of commentary and final |
| Completion work (`cdr-store/src/completion_work.rs`, `observed_completion.rs`, `cdr-runtime/src/completion_worker`) | observed completions, per-turn work items, leases | observe, schedule, stage, retire | notification and history poll see the same turn |
| Ingress journal (`cdr-store/src/ingress`, `processed.rs`, `cdr-runtime/src/message_worker`) | claimed message ids, one journal row per message with its execution state, owner and notice | claim, admit, execute, hand over, confirm, hold, recover | a message delivered by the gateway and by the history, a crash between admission and confirmation |
| Prompt intake (`cdr-store/src/prompt_intake`, `cdr-runtime/src/action_executor/prompt_intake`) | one row per accepted prompt with claim token, lease and retry time | admit, claim, renew, promote, back off, recover | a lease that runs out under a slow worker, /stop and /retract in the middle |
| Fork handoff (`cdr-store/src/queue/fork_handoff`) | one handoff per source thread | retire | none left: the bot no longer forks |
| Async questions and orphan resolution (`cdr-store/src/async_question`, `async_resolution`) | parked questions, resolution plans and their steps | open, answer, resolve, finish | a step of a multi-step resolution failing |
| Mappings and rooms (`cdr-store/src/mapping`, `mirror`, `room_cleanup`, `archived_cleanup`, `cdr-runtime/src/mirror_sync`) | Discord channel to Codex thread | map, move, archive, clean | cleanup racing new work |
| Session mirror and history poll (`cdr-runtime/src/session_mirror`, `history_poll`, `discord_runtime/typed_ingress/history`) | a cursor per channel | poll, prime, discard, advance, recover a gap | a discard racing a dropped message |
| Server requests (`cdr-runtime/src/server_request_worker`, `server_prompt*`) | open approvals and inputs | show, answer, expire | an answer racing the end of the turn |
| Reserve policy, idle release, new-reply binding, first reply | policy rows | various | limits, staleness |
| Discord client and gateway (`cdr-discord`, `cdr-runtime/src/discord_dispatch`) | session, rate limits, bounded event lanes, the gap of messages dropped by a full lane | send, edit, publish, record and acknowledge a gap | a gap that grows while it is recovered |
| Remote MCP broker (`cdr-mcp-server/src/broker`) | attached devices, registered projects, routes of chat sessions, dormant routes, pending requests | attach, register, select, resume, dispatch, answer, detach | a call racing a reconnect, late answers and detaches of an old socket |
| Remote agent (`cdr-remote-agent`, `cdr-remote-protocol`) | one connection, bindings of threads, active sessions, mutation lock and result cache | connect, submit, bind, activate, read, mutate, retire | commands carried out in another order than sent, workers of a dead connection |
| OAuth server (`cdr-mcp-server/src/oauth`) | grants, tokens | authorise, exchange | - |
| Rust-pro bridge (`cdr-pro`), Codex state reader (`cdr-codex-state`), core helpers (`cdr-core`) | none or read-only | parse, format | - |
| Windows native helpers (`cdr-windows-native`), tray and PowerShell scripts | OS handles | start, stop, watch | - |

How they interact. A Discord message reaches the bot through the gateway's
bounded lane or through the history lane; both claim it durably and admit it into the
ingress journal. A prompt among them becomes an intake row and, once prepared, a queue
row. The queue starts the head row of a thread through
the resident manager, which writes the attempt to the mutation journal before it writes
the request to the app-server's pipe. The app-server's notifications and the history
poll both report completed turns; the completion worker stages the reply in the outbox
and deletes the row in one transaction, and the delivery loop sends it. /stop, the
cancellations, the supervisor and the dead-generation fence do not take the queue's
target lock: they act through tables that each later transaction checks again. Beside all
this, the MCP server lets a chat session work on a remote device: the broker routes its
commands to the agent that is connected for the device, and the answers back.

What makes each part correct is stated as the properties of the modules (sections 3 to 10)
for the modelled parts; section 14 says why the others are left out.

## 2. Plan

1. `TurnQueue` with `TurnRequests` (the promise): done, with proofs of its safety
   properties and of the refinement.
2. `RestartDrain`: the admission gate, the drain and the handshake with the watchdog:
   done, with proofs of its safety properties.
3. `DeliveryOutbox`: chunks, receipts and retries. No chunk is shown twice, none is shown
   before an earlier one, a staged reply is forgotten only when all of it was delivered:
   done for commentary and finals, with proofs of its safety properties.
4. `ResidentServer`: admission, quarantine, replacement and close of the app-server
   manager, whose abstraction (`ServerDies`, `Capture`, `ReplaceServer`) TurnQueue uses:
   done, with proofs of its safety properties.
5. `MessageIngress` and `PromptIntake`, the way from a Discord message to a queue row, with
   the history poll, the leases and the controls: done, with proofs of their safety
   properties.
6. `McpBroker` and `RemoteAgent`, the two ends of the remote link: done, with proofs of
   their safety properties, two of the agent's under stated conditions.

What is left, in this order: the completion worker's state lane with goal turns, and the
settlement of dead-generation holds.

The components are composed by their promises rather than in one module: PromptIntake
assumes what MessageIngress shows (a message is executed at most once), TurnQueue begins
with the row PromptIntake promotes and takes from ResidentServer that a dead generation is
captured before it is replaced, DeliveryOutbox begins with the reply TurnQueue stages, and
RestartDrain sees all of their work as permits and busy rows.

## 3. TurnQueue

One step is the code between two points where another actor can run: a transaction, or
an await on the app-server. Every queue operation holds the async mutex of its target,
so a target has at most one operation, `pc[t]` and `ctx[t]`:

| `pc` | where the operation is |
|---|---|
| `next` | inside `start_next_with_baseline_locked`, head not chosen |
| `preflight` | waiting for thread/resume and thread/turns/list |
| `adopt` | about to adopt the pending rows of the target |
| `ready` | baseline read, row not claimed |
| `claimed` | row Starting, attempt not committed |
| `prepared` | attempt committed in the mutation journal, request not written |
| `sent` | request written, no answer |
| `answered` | answer classified, row not updated |
| `observed` | recovery has read row and history, row not reconciled |

Durable variables survive `Crash`; `pc`, `ctx`, `gen`, `up` do not. `gen` starts at 1 in
every process, as `ResidentStateInner` does, and the seals belong to one runtime id.
`recent` abstracts `updated_at`: a row in it is younger than the lease or backoff that
applies; `TimePasses` ends it. `err` keeps the prefix of `last_error` the code tells
apart, and stands for `updated_at` in the compare-and-set of a claim. `Bump` keeps the
saturation of `attempt_count` at its width, `MaxAttempt`.

Between `Prepare`, the commit of `begin_checked`, and `Write` lies an await: the writer of
the app-server's stdin is held over both (`StdinFree`), but /stop and the cancellations take
no lock of it and may commit in between, and then the request is sent all the same, as a
comment in `mutation_attempt.rs` says. `StopIsFinal` therefore speaks of a stop that finds
the request unsent and no attempt committed: from then on nothing that was chosen, preflighted
or claimed before it, no recovery and no restart sends the request. `NotWritten` is a
commit that used up the deadline; an operation dropped in `prepared` leaves a write half done,
which closes the connection (`up = "sealed"`) while the process may live on and may still
accept what was written to it before. A sealed connection is not repaired while its process
lives (section 8), so `EveryRequestSettles` names it as a case of its own.

Two facts of the code that the model keeps because properties depend on them: a refusal
by the dead-generation fence is definite (the row may become Pending again) while a
refusal by the journal or the claim's authority is ambiguous (it stays Starting); and a
prepared turn/start of an older runtime is never retired, so its thread stays closed
until a person resolves it.

The app-server is external. It may accept a written request at any later time, even when
the bot that wrote it has crashed, unless its process is known to be dead; it may reject
it, for a usage limit or otherwise; the answer may be lost. `ForeignTurn` is another
client on the same thread.

Not in this module: fork handoff, reserve policy, archive fences, goal turns, async
questions, the drain gate, promotion from the intake, the fresh-thread shortcut.

`TurnRequests` is the promise: accepted once, executed at most once, closed once by a
reply or a cancellation, never with another request's turn. `KeepsPromise` maps the
queue to it (`PhaseOf`, the turns by `owner`, the outbox).

## 4. RestartDrain

Three programs meet in a restart and share only files and the queue table: the runtime's
handlers, its gateway task, and the watchdog script. One step is one critical section of
the gate, one read of the table or of the app-server, or one file operation.

| variables | code |
|---|---|
| `gate` | `GateState`: the sealing key, `controls_open`, active permits by kind |
| `phase`, `stage`, `seen` | the gateway task in `drain_until_quiescent`, in its first or final inspection, with the durable snapshot it started from |
| `rows` | `codex_turn_queue`: no row, Pending, Starting with a request in flight, Starting with an unknown outcome, Running, or held over several candidates or quarantined |
| `turn`, `server` | what the app-server does for a row, whether it is open |
| `files` | instance identity and the prepare, ack, restart, claim and stop markers |
| `journal` | the journal of the restart (`preparing`, `prepared`, `launching`, `child`) |
| `comp` | the launch journal of the component: launching, launched with its process, outcome unknown |
| `wpc`, `wkey`, `wchild` | the script, its fence and the process it created |
| `drained` | history: the fences acknowledged with nothing in progress |

The handshake. The script writes a journal in phase `preparing` and publishes a prepare
marker with a fence, the pair of runtime and nonce. The gateway seals the gate with it,
waits for the permits, inspects table, app-server and table again with controls still
open, shuts the controls, waits and inspects once more, stops the app-server and writes
the acknowledgement. The script checks it, publishes the restart marker and moves the
journal to `prepared`; the runtime exits; the transaction claims the marker, clears the
others and launches. A prepare marker that cannot be read quarantines the runtime: it is
sealed under a key no fence has. `Crash`, `ScriptDies`, `Refused` and `Throw` may end
either program at any of these steps; the scheduler then runs the script again.

Every start of a row takes an ordinary permit of its own (`retry.rs`, `try_enter`) and keeps
it until the answer: a row in `starting` is that permit. A lost answer, or a crash with a
request in flight, leaves the row Starting with an unknown outcome. Such a row blocks every
drain (`snapshot`), nothing in a drain resolves it, and outside of one it is bound to its
turn, held, or given up by a person; held and quarantined rows block no drain. That is why
`DrainCompletes` excepts an unknown row: the runtime waits for a person, and says so.

Every launch, of a restart and of a plain start, first writes `launching` into the launch
journal of its component and `launched` with the process after it. A script that finds
`launching` calls the outcome unknown and refuses ("duplicate launch refused"), now and in
every later run, until a person removes the journal; that hold is described in
`docs/bot-mcp-independent-lifecycle-implementation.md:28`. So a script that
dies, or a start that fails, between the two ends the restart for good, and
`RestartFinishes` has the case `LaunchUnknown`.

A request whose answer is lost is taken by the app-server at that moment or never. Not in this
module: the forced restart, manual stop intents, the cutover that publishes markers without a
journal, the disabled marker, hashes of the artifacts. Prompt intake claims count as rows that
are busy. `release` of the gate is called only by tests.

## 5. DeliveryOutbox

A turn produces commentary while it runs and a final reply when it ends. Both are rows of
an outbox, cut into chunks, and each chunk is one POST to Discord. The runtime may never
learn what became of a POST, so `codex_delivery_receipts` keeps for every chunk what is
known, and a chunk is sent only from a receipt that excludes an earlier message.

| variables | code |
|---|---|
| `rank`, `clock` | `codex_commentary_outbox` and `codex_delivery_outbox`: an item's `sequence` or `created_at`, 0 without a row |
| `born` | history: the rank of the item's first row |
| `closed`, `first` | queue rows deleted by the final's staging; `confirmation_delivered` of the request |
| `receipt` | a chunk's receipt: no row, intent (`unknown`), `retryable`, `blocked_reason`, `message_id` |
| `lane` | the HTTP work of a channel, one item at a time |
| `wire`, `shown`, `echo` | Discord: POSTs without an answer, abandoned ones included, visible messages, own MESSAGE_CREATE events on their way |

One step is one transaction or one event of the POST: `Begin` commits the intent, `Send`
writes the request, and then the answer, a lost connection, the 25 s deadline and the
gateway's echo race. The lane's places are those of `deliver_one`, `deliver_commentary`
and `send_chunk_guarded`. What may be sent next is the query of `completion_work.rs`: the
eligible head of each of a channel's two queues, unless its own receipts hold it. `Load`
takes the entry and checks it again in one step, since nothing is done between the scan
and that check. `ConfirmFirst` is an input: how the first reply is sent is not modelled.

A text that a turn repeats after its delivery is staged as a new row under the receipts of
the old one (the key is a hash of thread, turn and text); nothing is sent and the row
goes. For that reason the order of the output is stated by `born`, not by `rank`.

The branch of `begin_guarded` that finds an intent without outcome is never taken in the
model: the election passes over such an item, and no second lane works for its channel.

What a reader may not expect: a final with an unknown chunk holds the later finals of its
channel until the echo or a person resolves it; `RepliesArrive` says so. Commentary is
different: a held text gives way to the other requests of the channel.

Not in this module: goal progress, start-failure notices, question messages, the
saved-final grant, a changed content under an old key, archived rooms, dead-generation
holds at staging, database errors. A job has one turn, and staging of a text is bounded by
`MaxStages`.

## 6. MessageIngress

One channel of Discord. The gateway publishes each message into a bounded lane, and when the
lane is full it drops the message and records it in the gap of the channel. The live lane
takes messages from the gateway's; the history lane recovers gaps and polls the newest page.
Both claim a message in `discord_processed_messages` and admit it in
`discord_ingress_journal` in one transaction.

| variables | code |
|---|---|
| `posted`, `published`, `lane` | the channel on Discord's side, and the gateway's message channel |
| `gap`, `hint` | `MessageGapTracker`'s entry (revision, earliest dropped) and its notification |
| `cursor`, `walk`, `due` | `HistoryPollState`, the history lane between two awaits, its two timers |
| `task` | the message a lane is processing: admitted, executing, recorded |
| `processed`, `journal` | the two tables |
| `runtime`, `sealed` | the runtime id, the admission gate of the drain |
| `executed`, `dropped`, `unheld` | history: how often a message was begun, what this process dropped, which holds failed |

`DroppedIsCovered` is what makes the full lane harmless: until a dropped message has a row,
the gap reaches back to it, although the gap grows while it is recovered (the revision of
`acknowledge`) and the poll discards pages it takes for old (the fence of
`with_current_fence`). `ExecutedAtMostOnce`, `DecisionsStand` and `AdmittedIsAccounted` are
the journal's promise over both lanes and all restarts; the one exception of the last, a row
whose hold could not be written, lasts until the next start. `DroppedIsRecovered` is the
promise of the gap recovery while the process runs, of each message for itself: although a
gap that has become longer than a page is never acknowledged, what a page shows of it is
recovered again and again, and only a message with a page of later ones behind it is lost to
the recovery (the code keeps the gap and reports it as degraded).

Only messages that classify as work are counted. A drain refuses new work, but a pending
reply, a stop and a forced restart (`Controls`) are still admitted; `sealed` stands for both
gates, so a control is refused, too, when the drain has closed the gate of the controls. A
forced restart, which the code admits even then, is not told apart from the other controls,
and the lane of its own that it shares with recover and repair commands (`emergency_messages`)
is merged with the one lane of the model. One lane is serial, so the revision of the channel
state that guards against a second poll is left out, and the phase of the cursor that no
production path enters (Reprime) as well.

Two facts a reader may not expect, none of which a document of the repository denies: the
first poll of a process may claim and discard a message that still waits in the gateway's
lane, since only gaps are fenced; and a message refused while a drain holds the gate ("Please
retry after restart") may be executed by a later poll.

Not in this module: interactions, attachments, busy and refused outcomes of a command,
archived rooms.

## 7. PromptIntake

The prompts of one target between their admission and the queue. A prompt is first saved,
then prepared under a lease (attachments are downloaded, the mapping is read), and promoted
to a queue row by the worker that still holds the claim; the handler that admitted it works
on it at once, and the recovery worker takes over what nobody holds.

| variables | code |
|---|---|
| `intake` | `codex_prompt_intakes`: claim token, lease, retry time |
| `turn` | `codex_turn_queue` and `codex_delivery_outbox`, what became of the promoted row |
| `held`, `dead`, `cancelled` | `cdr_execution_holds`, `codex_dead_generation_holds`, `codex_request_cancellations` |
| `worker`, `todo`, `lock` | the live workers and the recovery worker, the rest of its pass, the target lock of the `QueueCoordinator` |
| `boot`, `crashes` | whether the startup pass, which releases all claims, is still to come |
| `told`, `promoted` | history: what the user was told, how often a prompt was promoted |

A claim token is the name of its worker, because a worker holds one claim at a time. Times
count down: `lease` and `retry` are what is left of the stored instants, and the wall clock
only goes forward. A worker's future is watched by its renewal, which drops it at an await
when the claim is lost; what it has committed by then stays. `created_at` is taken when the
lock is taken, and the promotion checks the claim with it: `inTime` keeps whether the lease
was alive then.

`OnePlace` says that a prompt is in one table and queued once, `LeaseIsRespected` that a
worker whose lease went on disturbs nobody, `WordIsKept` that what the user was told stays
true, `EveryPromptQueued` that expired leases, failures and crashes only delay a prompt.

Not in this module: a second admission of the same prompt (MessageIngress shows there is
none), the drain gate of the recovery worker, the release of holds.

## 8. ResidentServer

The app-server process all threads share, and its replacement. A client is one spawned
process with its transport; `restart_lock` orders the supervisor, a forced restart and the
close, and each of their awaits is a step of its own (`lock.pc`), at which the future may
also be dropped (`Cancel`).

| variables | code |
|---|---|
| `resident` | `ResidentStateInner`: the current client and generation, the recorded replacement (`debt`), quarantine, pending restart, accepting and open, the cleanup authorised when the candidate was sealed; and the forwarders |
| `clients` | a process, its child handle, its lifecycle (sealed, closed), a turn and a server request it has, the message its reader has not taken, the work lost with it, its death monitor |
| `ops` | operations: admitted, being written, written |
| `lock`, `supervisor`, `force` | the holder of `restart_lock` and where it stands, `run_restart_supervisor`, the generation a forced restart saw |
| `fenced` | the generations the dead-generation fence has persisted, each with the work it named |

`OneServer` is the point of the recorded debt: whatever start, close or restart failed or was
dropped, two processes never run side by side and none runs unrecorded. `LostWorkIsFenced`
is what TurnQueue relies on: the fence of a generation names all that was lost with it,
the last messages of the process included, since it waits for the reader to end.
`RestartIsJust` says that a restart kills no work and is not blamed on the wrong generation.
`BadServerIsReplaced` says that a dead generation is replaced in the end, and a quarantined
one too unless it is `Held` for ever. There are two ways to be held, and both are the code's
choice not to kill what may be at work. A reply to a server request that was claimed and then
cut off leaves that request indeterminate, and no end of a turn settles it (`ask = "stuck"`).
A write that was cut off seals the transport (`AbortWrite`, `WriteAttemptGuard`) but closes no
pipe: the process may live on, and the fence defers as long as it does, as the test
`sealed_transport_does_not_prove_child_death_or_authorize_settling_live_work` asserts.

The reader records nothing once the lifecycle is sealed (`with_open`): what is unread when an
intended seal or a cut off write seals it is dropped, and is not counted as lost work. A
client has at most one turn, one server request and one unread message; the claim of a server
request is one step with the admission of its reply; a process takes what was written to it.
Errors that the close could only meet without `restart_lock` are unreachable and left out, and
so are idle maintenance, the shutdown flag of the supervisor and the contents of events, of
which only the death report is kept. A caller whose expected generation is not the current one
is an operation that is not admitted.

Liveness is stated for dead and quarantined generations. A forced restart of a healthy one
waits for quiescence and nothing stops new work, so under continuous traffic it may wait for
ever: each attempt is deferred.

## 9. McpBroker

One action is a critical section of the broker's state mutex or a step of a socket's task.

| variables | code |
|---|---|
| `devices`, `socket` | attached connection of a device, the serve tasks |
| `queue`, `atDevice` | the bounded commands channel of a connection, commands the device has |
| `projects`, `sessions`, `dormant` | registrations, routes of chat sessions, routes that wait for their device to come back |
| `generations` | the counter that orders the activations of a thread |
| `pending`, `selection`, `call` | requests without an answer, the selection mutex, the calls and resume tasks |

A device that attaches again replaces its connection: the requests that wait on the old one
are dropped, its routes become dormant for a grace period, and each is resumed by a task when
its project is registered again. `NoLostWaiter` and `RoutesAreLive` say that all tables
follow the connection that is attached now, however late the old socket detaches or answers;
`ScopesAreExclusive` that a dormant project is kept for its device; `GenerationsFresh` is what
the agent relies on to refuse old activations; `EveryCallEnds` includes that the selection
mutex is given back.

Observed: an activation of a device that the device refuses leaves its route, while one of a
project or a resumption removes it; and a resumption overwrites whatever route the chat
session has selected meanwhile. No document says otherwise. The Rust agent never sends
`ProjectUpsert`; only tests of the server do, so registrations come from the socket as an
input. Project names and tool contents are abstracted; a call refused before it does anything
is a call that does not start.

## 10. RemoteAgent

The other end. A connection's commands run on at most `MaxWorkers` workers with at most
`MaxPending` accepted; a binding is an object of its own, so a worker keeps the one it
fetched after its thread is bound anew.

| variables | code |
|---|---|
| `link`, `conn`, `live` | the bridge, its generation counter, `DispatchState.connection_generation` |
| `bound`, `opened`, `session` | `DispatchState.projects`, the bindings ever opened and the active session of each |
| `cache`, `holder` | a binding's `MutationCache` and who holds its mutation lock |
| `worker` | each command's worker |
| `late`, `expired` | commands past their deadline, bindings past their expiry |
| `executed`, `newest` | history: mutations that ended in a result, newest generation acknowledged |

A mutation ends in a result, which is remembered, or in an error, which `MutationCache` is
told to forget. An error does not mean that nothing was done: a command that was cancelled or
timed out has run, and git may have changed the repository before it failed. A repetition
after an error runs again, so what the cache promises is `SuccessIsNotRepeated`: once a
request had a result, no repetition of it on its session runs or comes to run. It is proved
for fresh session ids and a cache that holds the results of a thread's requests: the model
evicts the oldest result as the code does, and a request whose result was evicted runs again.
The instance sends one request twice and evicts nothing.

`NothingOutlivesItsConnection` is why a connection is retired only after its workers were
joined, and `LinkGoesDown` that joining them ends. `NewestSession` of a thread is proved when
no device session rebinds that thread, whatever the other threads do, and checked for a
thread with one that does. Two device sessions of one thread, carried out in the wrong order,
would break it, since a rebinding leaves no active session to compare with. The code does not
send them so: the broker's selection mutex is held from an activation to its answer or its
timeout of at least 3630 s (`cdr-mcp-server/src/config.rs:76`), while the activation itself
expires after 60 s (`cdr-core/src/deadline.rs`), so that a second one is sent when the first
was answered or is expired. What an expired one still does is section 13.

Observed: the session of a mutation is checked before it waits for the mutation lock and not
again after; the deadline is. Not in this module: the restart handoff of bindings, and what
reads and mutations do.

## 11. Runs

| run | instance | shows |
|---|---|---|
| `queue_safety` | 2 requests, 1 thread, 2 turns, 2 faults, another client | TypeOK, AtMostOnce, OneOwnerPerTarget, NoCrossedReply, StopIsFinal, DeadTargetIsFrozen, StartsInOrder |
| `queue_liveness` | the same without the other client, 1 fault, fairness | EveryRequestSettles, KeepsPromise |
| `restart_drain` | 1 row, 3 processes, 2 restarts, 2 long-lived permits, 2 faults, fairness | AckIsExact, LaunchWasAuthorised, NothingStartsOnceDrained, DrainCompletes, RestartFinishes |
| `restart_resume` | the same with 1 restart and 1 fault | the violation of PreparationResumes (section 13) |
| `outbox_delivery` | 2 requests of a channel, one with 2 texts and a final of 2 chunks, 1 fault, fairness | ShownOnce, ReadInOrder, NothingDropped, RepliesArrive |
| `ingress_safety` | 3 messages, or 2 with 2 restarts, a drain, a control and failing holds; a lane of 1, pages of 2 | DroppedIsCovered, ExecutedAtMostOnce, AdmittedIsAccounted, DecisionsStand |
| `ingress_liveness` | 4 messages, a lane of 1, pages of 2, a drain, fairness | DroppedIsRecovered |
| `intake_recovery` | 1 prompt, its worker and the recovery, 2 crashes, the controls, fairness | OnePlace, WordIsKept, LeaseIsRespected, EveryPromptQueued |
| `resident_server` | 1 operation, 2 faults, 3 processes, fairness | OneServer, LostWorkIsFenced, RestartIsJust, BadServerIsReplaced |
| `broker_calls` | 2 devices, 2 sockets, 2 calls, 2 scopes, a channel of 1, fairness | NoLostWaiter, RoutesAreLive, ScopesAreExclusive, GenerationsFresh, EveryCallEnds |
| `agent_link` | 5 commands on 2 workers over 2 connections, fairness | SuccessIsNotRepeated, NewestSessionStays, NothingOutlivesItsConnection, LinkGoesDown |
| `agent_expired_device_session` | a project session and a device session past its deadline | the violation of ExpiredRunsNothing (section 13) |

Where `TypeOK` is not listed it is the first conjunct of one of the invariants, or an
invariant that only the proofs use; it is proved for every module.

Bounds of the queue. A fault is a crash, a death, a closed connection, an error, a lost
answer, a timeout or a /stop; `MaxFaults` bounds only how many happen. Two requests are the
least that can be crossed, reordered or own a thread together, and a third adds no new
relation between two rows; two turns let each run once (a double execution of one leaves the
other without a turn and is found all the same); attempts saturate at `MaxAttempt`, which a
retry exceeds. The constraint `FewForeignTurns` of `queue_safety` keeps
the other client from taking both turns once two faults have happened, since
no turn of the instance is then left for a request. Job and turn ids are symmetric there. Deadlock is not checked: when
the requests are settled, or parked for a person, the system rightly stops.

Bounds of the restart. A fault is a crash, a dead script, a failed launch, a timeout, a
refused request or a lost answer; two of them are a lost answer, or a launch that was not
recorded, and a death while it is dealt with. A second restart meets the remains of the first,
and three processes let a launch of each be interrupted. One row is enough: the drain looks at
all rows in the same way and its properties ask whether there is any. Two permits let one be
held while another is taken, cloned or returned. Deadlock is not checked: when the processes
are used up the bot stays stopped.

Bounds of the outbox. A fault is a crash or a rate limit; late, lost, refused and timed out
answers and lost echoes are free. Two texts and a final are the least that can be read in
a wrong order, two chunks the least that can be reordered or half delivered, two requests
the least that can block each other; `MaxStages` lets a text be staged again after its
delivery. Channels share nothing, so one is enough. Deadlock is not checked: with all
replies delivered or held the outbox rests.

Bounds of the ingress. Two messages are the least that overflow a lane of one, and a third
lets a gap grow while it is recovered; the constraint `FaultsOrMessages` lets the third come
only where no restart, drain or hold has happened, since each of these concerns one message.
Two restarts let a message be met by a recovery that itself was cut short. Pages of two hold a
message and its follower. `ingress_liveness` has a fourth message, which makes a gap longer
than a page: dropped messages join a gap that is being recovered, a recovery fails between two
messages of a page, a page does not reach the floor, and the last clause of the property is
met by the second message and not by the others. Its constraint `GrowingGap` keeps that within
reach: how the work of a message ends is left to `ingress_safety` (no lane reads it), the
third and fourth message come while the lane is full, the fourth joins the gap of the second,
and the drain comes before it. Bounds of the intake. One prompt meets every actor: its worker,
the recovery, both crashes and each control. A lease of two ticks can be renewed in time or
too late; a retry delay of one delays. Two prompts share only the lock, and they exceed what
the liveness check can hold. Bounds of the resident server. Every fault costs at most one process
(a close is no fault, and nothing is spawned after it), so `MaxClients` is `MaxFaults` plus one and no spawn is ever refused by the bound;
two faults are a write that is cut off, or a lost answer, and a failed replacement, and the
theorems of its safety properties hold for any number. Bounds of the broker. Two sockets are a
reconnect or two devices; two calls are a selection and a resumption, or two selections that
race; one instant of the clock lets every time to live end. `FirstComesFirst` fixes which
device is first, since devices are interchangeable. Bounds of the agent. A project session, a
newer device session, a mutation sent twice and a read are the kinds of command, and two
connections let the second meet what the first left; `ReadOrMutate` sends the read instead of
the mutations, because it changes nothing that another worker sees but its permit. Deadlock is
not checked in these runs: when the messages, calls, faults and processes of the instance are
used up it rightly stops.

Fairness of the queue. The holder of a target's lock runs on, since each of its awaits ends in
an answer, an error or a timeout (weak). The recovery loop and the completion worker visit
each target for ever and wait in the fair tokio mutex of the target, so a lane that is again
and again able to run does (strong). Leases end, the app-server answers while the connection
is open and its turns end, a dead server is fenced and replaced. Nothing is assumed about
faults, /stop, cancellations or the other client.

Fairness of the restart. The gateway task polls for ever, a handler returns its permit, a
request ends with an answer or its timeout, turns end and Running rows whose turn is over are
completed, and the scheduler runs the watchdog every minute.
That somebody answers an approval is an assumption on the environment: the runtime itself
only waits, and tells the operator what it waits for. Nobody is assumed to resolve an unknown
outcome or to remove a launch journal.

Fairness of the outbox. Every await of a lane ends, by its deadline at the latest (weak).
Each source is scanned every second and its entries are taken in turn, so an item that is
a candidate again and again is loaded (strong). Nothing is assumed of Discord: no POST
need be accepted and no echo arrive.

Fairness of the ingress. The gateway publishes, the history lane
and the poll timer run on and a message being processed ends (weak); the fetch of a gap, the
claim of each message and the end succeed if they are tried for ever (strong, for each message
by itself): errors of Discord or of the database, and failures between two messages of a page,
are not permanent. The live lane need not run. Fairness of the intake. Workers and the clock
go on (weak); the recovery is not stalled past its lease, or failed, for ever (strong on its
first renewal, on taking the lock in time and on the promotion). Nothing is assumed of the
live worker's success. Fairness of the resident server. Tasks run on, a call ends at its
timeout, the reader takes what the process said and sees the end of its output (weak), and a
turn that waits for no request ends if its process lives (strong). Nothing makes a process
exit, and nobody need answer a server request. Fairness of the broker. Only that a started
call goes on, which its timers guarantee; devices, sockets and the clock owe nothing. Fairness
of the agent. A worker takes its next step and the bridge joins what has ended; a mutation
that runs ends.

`EveryRequestSettles` allows a thread to be parked: held after a death, blocked by an
unresolved attempt, stopped, or with a request whose outcome is unknown. Each is shown to
a person by a notice or a list; the property says that nothing else
stops a request but a sealed connection to a live app-server (section 3). `DrainCompletes`
allows a row whose outcome is unknown (section 4).
`RestartFinishes` allows the bound on processes and a launch whose outcome is unknown, which
the launch journal leaves to a person rather than start two bots.

## 12. Proofs

Every invariant, action property and refinement of the passing runs has a theorem: for all
jobs, threads, turns, devices and commands, and for all values of the bounds. Each proof
module gives one inductive invariant, in named parts, that TLC checked first.

`TurnQueueProofs`. `TypeCorrect` needs `JobOfOperation`: an operation that works for a
request works for one of its own thread. The other theorems rest on five invariants:

- `OnceInv`, for `ExecutedAtMostOnce` and `PendingWasNeverSent`. AtMostOnce is not
  inductive: the step that could break it is `Write`, and that the written request was
  never sent before follows from what its row was when it was claimed. So the invariant says
  for every row that Pending (and never saved) means unsent, and for every operation that a
  claimed or prepared request, and one with a definite rejection in hand, is unsent.
- `OwnerInv`, for `ThreadHasOneOwner`: from the choice of the head to the claim the thread
  has no owner.
- `BaseInv`, for `RepliesAreNotCrossed`. A recovery binds a turn it finds in the history
  beyond the row's baseline. That this turn is the request's own, or another client's, needs
  that a baseline is read only with nothing on the wire and misses no turn of the queue
  (`OpBase`), that a thread has one request on the wire, with its attempt in the journal
  (`WireIsJournaled`), and that turns beyond the baseline of a Starting row belong to that
  row or to nobody (`RowBase`).
- `OrderInv`, for `RequestsStartInOrder`: the claim does not look at older rows; from the
  choice of the head to its claim none of them becomes startable.
- `ClosedInv`, for the refinement: a cancelled request is out of the queue for ever.

`WithdrawnStaysUnsent` and `HeldThreadIsFrozen` are action properties. The first needs that
holds and cancellations only grow (`FencesGrow`), that only the write of a prepared operation
sends (`OnlyWriteSends`) and that only a commit that validates the authority prepares one
(`OnlyPrepareCommits`); the second a lemma on how a step may rewrite a row: saved, closed,
claimed, or settled by the operation that claimed it on a thread that is not held.
`QueueKeepsPromise` is the refinement of `TurnRequests` without fairness: the cases of
`PhaseOf` exclude each other only because of `OnceInv` and `ClosedInv`; a step of the queue
is an accept, an execution, a reply or a cancellation of the promise, or a stutter.

`RestartDrainProofs` proves `TypeCorrect`, `AcknowledgementIsExact`, `LaunchIsAuthorised` and
`DrainedStartsNothing` from `DrainInv`. AckIsExact speaks of the moment the marker is on disk;
why it holds was decided steps before, so the invariant follows the gateway task: whose files
and whose seal they are (`ProcessInv`), in which phases controls are shut (`ControlInv`) and
no ordinary permit or request in flight is left (`PermitInv`), what the snapshots taken so far
still say about the rows (`RowInv`), which markers can lie beside a live process
(`MarkerInv`), and that a journal past `preparing` names a fence in `drained` (`JournalInv`).

`DeliveryOutboxProofs` proves `TypeCorrect`, `ShownAtMostOnce`, `OutputIsReadInOrder` and
`NothingIsDropped` from `OutboxInv`. ShownOnce needs the POSTs that are still on their way:
`PostInv` counts them with the visible messages and says that a receipt which allows
another attempt excludes both, and `HandInv` carries that through the lane's hands from
`Begin` to the record of the outcome. ReadInOrder is a fact about checks made before many
awaits: `TurnInv` keeps what the check of the order established while the lane sends, and
`TriedInv` what it established for every chunk ever tried. The argument turns on `RowInv`:
a row that is not the item's first one belongs to an item that is visible already, so
commentary that is pending behind the item is either new or was shown before, and
(`PlaceKept`) nothing staged later comes to stand before it.

`MessageIngressProofs` proves `ExecutedOnce`, `DroppedStaysCovered`, `AdmittedStaysAccounted`
and `DecisionsAreKept` from `IngressInv`. `RowInv` says of a journal row that it leaves
`staged` once, and that it has ended when no lane works on it. DroppedIsCovered is broken, if
at all, by the acknowledgement of a gap, long after the page was fetched: `WalkInv` says that
while the gap's revision is the one the recovery began with, what it has left to claim
contains every dropped message without a row; `CoverInv` that such a message is above the
gap's floor and was not discarded by the poll.

`PromptIntakeProofs` proves `PromptHasOnePlace`, `WordsAreKept` and `LeasesAreRespected` from
`IntakeInv`. `PlaceInv` says where a prompt can be: nowhere before it is accepted, afterwards
in exactly one of the table, the queue and the cancellations, and what is in the table was
never queued, which is why a takeover after an expired lease queues nothing twice. `WorkInv`
ties a worker to its prompt.

`ResidentServerProofs` proves `OneServerRuns`, `DeadWorkIsFenced` and `RestartsAreJust`. The
server invariant separates the current client, the recorded debt of a start that failed
halfway, and all other processes, which have exited and are sealed (`CurrentInv`, `DebtInv`,
`GoneInv`); `RowInv` says that what was lost with a process is still known of it or with the
fence, and that no process was cut at work; `LockInv` what the holder of the restart lock
relies on between its awaits, above all that nothing begins at a client whose replacement is
authorized.

`McpBrokerProofs` proves `NobodyWaitsInVain`, `RoutesStayLive`, `ScopesStayExclusive` and
`GenerationsStayFresh` from `BrokerInv`. A waiter is lost, if at all, when a late detach of an
old socket meets a new connection: `PendingOnAttached` and `CallInv` say that a call is
pending exactly while it has no answer, on the connection attached now. `SessInv` ties a
session's route to the call that made it, so that a failed selection finds it again.
`GenInv` speaks of the routes that calls hold, not only of those in the tables, since a
resumption carries a generation over an await. `ExclInv` relates dormant routes that can
still be resumed to the registrations that have not expired.

`RemoteAgentProofs` proves `ConnectionsEndClean` from `AgentInv`: the workers are those of the
connection (`ConnInv`), a binding that is replaced is bound no more and serves one thread only
(`BindInv`, `OwnInv`), a mutation lock is held by the worker that runs on it (`LockInv`). Two
theorems have hypotheses about the commands that are sent. `SuccessesAreNotRepeated` assumes
that every activation has a session id of its own (the broker makes each a new UUID) and that
the results of a thread's requests fit into the cache; then a session id is seen at one
binding only (`HomeInv`), whose lock orders the repetitions, and what had a result is
remembered (`ExecInv`). The commands of `agent_link` satisfy both.
`NewestStaysWhereNotRebound` is about one thread and assumes that no device session binds this
thread again; those of other threads are free.

The assumptions on the constants are those of `TurnQueueAssumption` (Route maps requests to
threads, the null ids are not ids, MaxAttempt is positive), `OutboxAssumption` (every text
belongs to a request, every request to a channel, every item has a chunk),
`IngressConstants` (a lane and a page hold at least one message), `IntakeConstants` (finitely
many prompts, which are numbers; a lease lasts), `AgentAssumption` (finitely many commands
and threads; as many bindings as threads, as many pending as running commands at least), and
of `BoundsAssumption`, `ResidentAssumption` and `BrokerAssumption`: bounds are natural
numbers, whose values do not matter, and the null value is not a value.

Only model-checked: the nine liveness properties (EveryRequestSettles, DrainCompletes,
RestartFinishes, RepliesArrive, DroppedIsRecovered, EveryPromptQueued, BadServerIsReplaced,
EveryCallEnds, LinkGoesDown), because fairness and ENABLED are out of the prover's reach, and
NewestSessionStays with one rebinding.

## 13. Findings

`docs/runtime-build-and-retry.md` says of the journal's preparing phase: "A crash in that
phase resumes preparation". That is so when the script dies. When the runtime itself dies
in that phase, before a restart marker exists, each later run of the watchdog reads the
journal, goes to prepare the restart and throws at `codex-discord-rust-watchdog.ps1:561`,
"Rust runtime is not running.": it neither resumes the preparation nor starts the bot.
`restart_resume` shows it; a forced restart gets out of it.

A command whose deadline has passed when a worker takes it up is answered "The remote project
request expired before it could run." (`cdr-remote-agent/src/dispatcher/error.rs:106`). A
DeviceSession, however, binds its thread to the new project first (`dispatcher.rs:109`), which
takes and closes the session that is active there, and only then is its deadline compared
(`dispatcher.rs:137`). One that waited for a worker beyond its 60 s, which four long commands
are enough for, has ended the session of the thread and is reported as not having run.
`agent_expired_device_session` shows it.

## 14. Not modelled

- The state lane of the completion worker: observed completions, goal turns and their
  progress, observation gaps. Its queue items end in TurnQueue's `StageCompletion`. Read
  while planning it: a `turn/completed` that is observed again after its progress was staged
  can leave a row that is retried and held by every scan.
- Async questions and orphan resolution: a person's plan of edits over many tables.
- The settlement of dead-generation holds and execution holds by a person: held stays held.
- Fork handoff: `AppServerTurnBackend::requires_app_server_fork` is always false, and
  recovery retires the handoffs that are left.
- Reserve policy, idle release, new-reply binding, first reply: policies the queue and the
  outbox read; a confirmed first reply is an input of DeliveryOutbox.
- Mappings, mirror and room cleanup: constants of the other models; the cleanup is I/O.
- Interactions (slash commands, buttons), server prompts beyond their effect on a drain.
- OAuth, the pro bridge, the Codex state reader, core helpers: encoding, parsing, HTTP.
- Windows helpers, tray, installers: operating system calls and user interface.
- Tests and test fixtures, a large part of the repository's lines: they are read for what
  they say of the code.
