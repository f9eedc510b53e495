--------------------------- MODULE MessageIngress ---------------------------
(***************************************************************************)
(* How a Discord message of one channel reaches the bot: the bounded lane  *)
(* the gateway publishes into and the gap it records when the lane is full *)
(* (cdr-discord gateway/ingress), the live lane that takes messages from   *)
(* it, the history lane that recovers gaps and polls the channel's newest  *)
(* page (cdr-runtime typed_ingress/history, history_poll), and the durable *)
(* claim and journal both lanes admit into (cdr-store ingress, processed). *)
(*                                                                         *)
(* A message is its place in the channel: 1, 2, 3, ... in the order of     *)
(* Discord's timestamps.  Only messages that classify as work are counted. *)
(***************************************************************************)
EXTENDS Integers, Sequences, FiniteSets

CONSTANTS
  MaxMessages,   \* bound: messages posted in the channel
  MaxRestarts,   \* bound: crashes and restarts of the bot
  LaneCapacity,  \* message_capacity of the gateway's channel
  PageLimit,     \* HISTORY_POLL_PAGE_LIMIT
  ClockSkew,     \* how far the bot's clock may be off Discord's, in messages
  Controls,      \* messages that are a pending reply, a stop or a forced restart
  Drains,        \* TRUE when a restart drain may seal the admission gate
  Faults         \* TRUE when a hold of a failed message may itself fail

ASSUME IngressConstants ==
  /\ MaxMessages \in Nat \ {0}
  /\ MaxRestarts \in Nat
  /\ LaneCapacity \in Nat \ {0}
  /\ PageLimit \in Nat \ {0}
  /\ ClockSkew \in Nat
  /\ Controls \subseteq 1..MaxMessages
  /\ Drains \in BOOLEAN
  /\ Faults \in BOOLEAN

VARIABLES
  posted,     \* number of messages in the channel
  published,  \* number of them the gateway has published (or will never)
  lane,       \* the gateway's message channel
  gap,        \* MessageGapTracker's entry: revision and earliest dropped (0: clear)
  hint,       \* a gap notification is waiting for the history lane
  cursor,     \* HistoryPollState of the channel
  walk,       \* what the history lane is doing
  due,        \* gap_due and poll_due of the history lane
  task,       \* the message each lane is processing
  processed,  \* discord_processed_messages
  journal,    \* discord_ingress_journal
  runtime,    \* identity of the running process
  sealed,     \* the admission gate is sealed by a restart drain
  executed,   \* how often each message was begun (history)
  dropped,    \* messages this process dropped before anyone claimed them (history)
  unheld      \* rows whose hold could not be written by this process (history)

gateway == <<posted, published, lane, gap, hint>>
poller == <<cursor, walk, due>>
durable == <<processed, journal, executed, unheld>>
vars == <<posted, published, lane, gap, hint, cursor, walk, due, task, processed,
          journal, runtime, sealed, executed, dropped, unheld>>

Messages == 1..MaxMessages
Lanes == {"live", "history"}
NoRow == [state |-> "none"]
NoTask == [msg |-> 0, pc |-> "none"]
NoCursor == [phase |-> "none", at |-> 0]
Idle == [pc |-> "idle", items |-> << >>, mark |-> 0, revision |-> 0, reached |-> FALSE]

Earlier(a, b) == IF a <= b THEN a ELSE b
Later(a, b) == IF a >= b THEN a ELSE b

-----------------------------------------------------------------------------
(* The durable claim and the journal.                                      *)

\* Mutant of Claimed: only the journal is consulted, not the processed ids.
ClaimedByRowOnly(m) == journal[m] # NoRow

\* Mutant of Claimed: a message whose row was held may be tried again.
ClaimedUnlessHeld(m) ==
  IF journal[m] # NoRow THEN journal[m].state # "held" ELSE m \in processed

\* admit_recorded_in: the message has a journal row, or was claimed before.
Claimed(m) == journal[m] # NoRow \/ m \in processed

\* The row and the processed id, in one transaction.
StagedRow == [state |-> "staged", owner |-> FALSE, confirmed |-> FALSE,
              notice |-> FALSE, runtime |-> runtime]

\* admit_message_candidate_at: only the lane that created the row gets the
\* message to process; for the other one it is a duplicate.
Admit(l, m) ==
  IF Claimed(m)
  THEN UNCHANGED <<processed, journal, task>>
  ELSE /\ processed' = processed \cup {m}
       /\ journal' = [journal EXCEPT ![m] = StagedRow]
       /\ task' = [task EXCEPT ![l] = [msg |-> m, pc |-> "admitted"]]

\* Mutant of HeldRow: the hold forgets the notice.
HeldSilently(row) == IF row.owner THEN row ELSE [row EXCEPT !.state = "held"]

\* hold_in: an owned row is left to its owner; any other one is held, with one
\* notice for the user.
HeldRow(row) == IF row.owner THEN row ELSE [row EXCEPT !.state = "held", !.notice = TRUE]

\* unfinished_prior: rows another runtime left without owner or confirmation.
Unfinished(row, now) ==
  /\ row # NoRow
  /\ row.runtime # now
  /\ ~row.owner /\ ~row.confirmed
  /\ row.state \in {"staged", "executing", "completed"}

\* recover_prior_runtime: all of them are held before new work is accepted.
RecoveredJournal(now) ==
  [m \in Messages |-> IF Unfinished(journal[m], now) THEN HeldRow(journal[m]) ELSE journal[m]]

-----------------------------------------------------------------------------
(* The gateway.                                                            *)

\* A user posts a message; it is in the channel's history from now on.
Post ==
  /\ posted < MaxMessages
  /\ posted' = posted + 1
  /\ UNCHANGED <<published, lane, gap, hint, poller, task, durable, runtime, sealed,
                 dropped>>

\* MessageGapPublication::record: the revision moves, the earliest one stays.
WithGap(m) ==
  [revision |-> gap.revision + 1,
   floor |-> IF gap.floor = 0 THEN m ELSE Earlier(gap.floor, m)]

\* MessageIngressSender: the lane takes no more than its capacity.
LaneHasRoom == Len(lane) < LaneCapacity

\* publish_message: into the lane, or a gap when the lane is full.  Deciding
\* and recording share the publication gate, so this is one step.
Publish ==
  /\ published < posted
  /\ published' = published + 1
  /\ LET m == published + 1
     IN IF LaneHasRoom
        THEN /\ lane' = Append(lane, m)
             /\ UNCHANGED <<gap, hint, dropped>>
        ELSE /\ gap' = WithGap(m)
             /\ hint' = TRUE
             /\ dropped' = dropped \cup ({m} \ processed)
             /\ UNCHANGED lane
  /\ UNCHANGED <<posted, poller, task, durable, runtime, sealed>>

-----------------------------------------------------------------------------
(* Processing a message, the same in both lanes.                           *)

\* handle_message_create: the live lane takes the next message and admits it.
\* A drain still lets a pending reply, a stop and a forced restart in.
LiveReceive ==
  /\ lane # << >>
  /\ task["live"] = NoTask
  /\ sealed => Head(lane) \in Controls
  /\ lane' = Tail(lane)
  /\ Admit("live", Head(lane))
  /\ UNCHANGED <<posted, published, gap, hint, poller, runtime, sealed, executed,
                 dropped, unheld>>

\* PreparedMessage::Unavailable: a sealed gate refuses it, nothing is claimed; a
\* control too, once the drain has closed the gate of the controls as well.
LiveRefuse ==
  /\ lane # << >>
  /\ task["live"] = NoTask
  /\ sealed
  /\ lane' = Tail(lane)
  /\ UNCHANGED <<posted, published, gap, hint, poller, task, durable, runtime, sealed,
                 dropped>>

\* MessageCustody::begin: staged becomes executing.
BeginExecution(l) ==
  LET m == task[l].msg
  IN /\ task[l].pc = "admitted"
     /\ journal[m].state = "staged"
     /\ journal' = [journal EXCEPT ![m].state = "executing"]
     /\ executed' = [executed EXCEPT ![m] = @ + 1]
     /\ task' = [task EXCEPT ![l].pc = "executing"]
     /\ UNCHANGED <<gateway, poller, processed, runtime, sealed, dropped, unheld>>

\* link_prompt_owner: the durable prompt owns the message from here on.
HandOff(l) ==
  LET m == task[l].msg
  IN /\ task[l].pc = "executing"
     /\ ~journal[m].owner
     /\ journal' = [journal EXCEPT ![m].state = "owned", ![m].owner = TRUE]
     /\ UNCHANGED <<gateway, poller, task, processed, runtime, sealed, executed,
                    dropped, unheld>>

\* record_result: completed, or owned when a prompt owns it.
RecordResult(l) ==
  LET m == task[l].msg
  IN /\ task[l].pc = "executing"
     /\ journal' = [journal EXCEPT ![m].state = IF @ = "owned" THEN "owned" ELSE "completed"]
     /\ task' = [task EXCEPT ![l].pc = "recorded"]
     /\ UNCHANGED <<gateway, poller, processed, runtime, sealed, executed, dropped,
                    unheld>>

\* MessageCustody::finish after the reply was delivered.
Confirm(l) ==
  LET m == task[l].msg
  IN /\ task[l].pc = "recorded"
     /\ journal' = [journal EXCEPT ![m].confirmed = TRUE]
     /\ task' = [task EXCEPT ![l] = NoTask]
     /\ UNCHANGED <<gateway, poller, processed, runtime, sealed, executed, dropped,
                    unheld>>

\* Any error, or the end of the lane: dropping the custody holds the row.
AbandonCustody(l) ==
  LET m == task[l].msg
  IN /\ task[l] # NoTask
     /\ journal' = [journal EXCEPT ![m] = HeldRow(@)]
     /\ task' = [task EXCEPT ![l] = NoTask]
     /\ UNCHANGED <<gateway, poller, processed, runtime, sealed, executed, dropped,
                    unheld>>

\* ... unless that write fails too; the row waits for the next start.
AbandonUnheld(l) ==
  LET m == task[l].msg
  IN /\ Faults
     /\ task[l] # NoTask
     /\ unheld' = unheld \cup {m}
     /\ task' = [task EXCEPT ![l] = NoTask]
     /\ UNCHANGED <<gateway, poller, processed, journal, runtime, sealed, executed,
                    dropped>>

-----------------------------------------------------------------------------
(* The history lane: gaps first, then the poll.                            *)

\* The newest messages of the channel, oldest first.
PageFloor == Later(1, posted - PageLimit + 1)
Page(from) == [i \in 1..(posted - from + 1) |-> from + i - 1]

\* A gap notification or the poll timer wakes the lane.
Wake ==
  /\ walk = Idle
  /\ due = [gap |-> FALSE, poll |-> FALSE]
  /\ \/ /\ hint
        /\ hint' = FALSE
        /\ due' = [due EXCEPT !.gap = TRUE]
     \/ /\ hint' = hint
        /\ due' = [gap |-> TRUE, poll |-> TRUE]
  /\ UNCHANGED <<posted, published, lane, gap, cursor, walk, task, durable, runtime,
                 sealed, dropped>>

\* recover_pending: a snapshot of the gap, unless there is none or a drain.
GapStart ==
  /\ walk = Idle
  /\ due.gap
  /\ IF gap.floor = 0 \/ sealed
     THEN due' = [due EXCEPT !.gap = FALSE] /\ UNCHANGED walk
     ELSE /\ walk' = [Idle EXCEPT !.pc = "gapFetch", !.mark = gap.floor,
                                  !.revision = gap.revision]
          /\ UNCHANGED due
  /\ UNCHANGED <<gateway, cursor, task, durable, runtime, sealed, dropped>>

\* Mutant of GapItems: the floor itself is taken for recovered.
GapItemsAfterFloor == Page(Later(PageFloor, walk.mark + 1))

\* The part of the newest page that lies in the gap.
GapItems == Page(Later(PageFloor, walk.mark))

\* run_history_gap_recovery: the page, from the floor on; a full page that
\* stays above the floor is incomplete.
GapFetch ==
  /\ walk.pc = "gapFetch"
  /\ walk' = [walk EXCEPT !.pc = "gapClaim",
                          !.items = GapItems,
                          !.reached = posted < PageLimit \/ PageFloor <= walk.mark]
  /\ UNCHANGED <<gateway, cursor, due, task, durable, runtime, sealed, dropped>>

\* Each item is claimed and processed before the next one.
GapClaim ==
  /\ walk.pc = "gapClaim"
  /\ walk.items # << >>
  /\ task["history"] = NoTask
  /\ walk' = [walk EXCEPT !.items = Tail(@)]
  /\ Admit("history", Head(walk.items))
  /\ UNCHANGED <<gateway, cursor, due, runtime, sealed, executed, dropped, unheld>>

GapClaimOf(m) == GapClaim /\ Head(walk.items) = m

\* Mutant of Acknowledged: a gap that grew meanwhile is cleared as well.
AcknowledgedAnyRevision(g, revision) == [g EXCEPT !.floor = 0]

\* MessageGapTracker::acknowledge: only the revision that was recovered.
Acknowledged(g, revision) ==
  IF g.revision = revision /\ g.floor # 0 THEN [g EXCEPT !.floor = 0] ELSE g

GapEnd ==
  /\ walk.pc = "gapClaim"
  /\ walk.items = << >>
  /\ task["history"] = NoTask
  /\ gap' = IF walk.reached THEN Acknowledged(gap, walk.revision) ELSE gap
  /\ hint' = (hint \/ gap' # gap)
  /\ walk' = Idle
  /\ due' = [due EXCEPT !.gap = FALSE]
  /\ UNCHANGED <<posted, published, lane, cursor, task, durable, runtime, sealed,
                 dropped>>

\* A policy, fetch or claim error ends the recovery; the gap stays.
GapFails ==
  /\ walk.pc \in {"gapFetch", "gapClaim"}
  /\ task["history"] = NoTask
  /\ walk' = Idle
  /\ due' = [due EXCEPT !.gap = FALSE]
  /\ UNCHANGED <<gateway, cursor, task, durable, runtime, sealed, dropped>>

PollOver == walk' = Idle /\ due' = [gap |-> TRUE, poll |-> FALSE]

\* run_periodic: a drain or a pending gap skips the channel before anything.
PollSkip ==
  /\ walk = Idle /\ ~due.gap /\ due.poll
  /\ sealed \/ gap.floor # 0
  /\ PollOver
  /\ UNCHANGED <<gateway, cursor, task, durable, runtime, sealed, dropped>>

\* retain_channels: a channel that is no target loses its cursor.
PollForget ==
  /\ walk = Idle /\ ~due.gap /\ due.poll
  /\ cursor # NoCursor
  /\ cursor' = NoCursor
  /\ PollOver
  /\ UNCHANGED <<gateway, task, durable, runtime, sealed, dropped>>

\* capture_clear_fence, then begin: the first poll fixes its boundary.
PollStart ==
  /\ walk = Idle /\ ~due.gap /\ due.poll
  /\ ~sealed /\ gap.floor = 0
  /\ \E skew \in -ClockSkew..ClockSkew:
       cursor' = IF cursor = NoCursor
                 THEN [phase |-> "priming", at |-> Later(0, posted + skew)]
                 ELSE cursor
  /\ walk' = [Idle EXCEPT !.pc = "pollFetch", !.revision = gap.revision]
  /\ UNCHANGED <<gateway, due, task, durable, runtime, sealed, dropped>>

\* The page is fetched, and the watermark to commit is fixed with it.
PollFetch ==
  /\ walk.pc = "pollFetch"
  /\ walk' = [walk EXCEPT !.pc = "pollClaim", !.items = Page(PageFloor),
                          !.mark = Later(cursor.at, posted)]
  /\ UNCHANGED <<gateway, cursor, due, task, durable, runtime, sealed, dropped>>

\* candidate_decision: after the boundary or the watermark it is work.
Processes(m) == m > cursor.at

\* with_current_fence: no gap was recorded since the poll began.
FenceHolds == gap.revision = walk.revision /\ gap.floor = 0

\* An older candidate is claimed only to suppress a late gateway copy.
PollDiscard ==
  /\ walk.pc = "pollClaim" /\ walk.items # << >>
  /\ task["history"] = NoTask
  /\ ~Processes(Head(walk.items))
  /\ IF FenceHolds
     THEN /\ processed' = processed \cup {Head(walk.items)}
          /\ walk' = [walk EXCEPT !.items = Tail(@)]
          /\ UNCHANGED due
     ELSE PollOver /\ UNCHANGED processed
  /\ UNCHANGED <<gateway, cursor, task, journal, runtime, sealed, executed, dropped,
                 unheld>>

\* A newer candidate is admitted like a live message.
PollClaim ==
  /\ walk.pc = "pollClaim" /\ walk.items # << >>
  /\ task["history"] = NoTask
  /\ Processes(Head(walk.items))
  /\ walk' = [walk EXCEPT !.items = Tail(@)]
  /\ Admit("history", Head(walk.items))
  /\ UNCHANGED <<gateway, cursor, due, runtime, sealed, executed, dropped, unheld>>

\* commit, once every item of the page is settled.
PollCommit ==
  /\ walk.pc = "pollClaim" /\ walk.items = << >>
  /\ task["history"] = NoTask
  /\ cursor' = [phase |-> "active", at |-> walk.mark]
  /\ PollOver
  /\ UNCHANGED <<gateway, task, durable, runtime, sealed, dropped>>

\* A policy, source or claim error leaves the cursor where it was.
PollFails ==
  /\ walk.pc \in {"pollFetch", "pollClaim"}
  /\ task["history"] = NoTask
  /\ PollOver
  /\ UNCHANGED <<gateway, cursor, task, durable, runtime, sealed, dropped>>

-----------------------------------------------------------------------------
(* The restart drain and the process itself.                               *)

\* AdmissionGate::seal and release.
Seal ==
  /\ Drains
  /\ sealed' = ~sealed
  /\ UNCHANGED <<gateway, poller, task, durable, runtime, dropped>>

\* The process ends anywhere and starts again: the lane, the gaps and the
\* cursor are lost, what was posted meanwhile is not published any more, and
\* recover_prior_runtime runs before any lane does.
Restart ==
  /\ runtime < MaxRestarts
  /\ runtime' = runtime + 1
  /\ published' = posted
  /\ lane' = << >>
  /\ gap' = [revision |-> 0, floor |-> 0]
  /\ hint' = FALSE
  /\ cursor' = NoCursor
  /\ walk' = Idle
  /\ due' = [gap |-> TRUE, poll |-> TRUE]
  /\ task' = [l \in Lanes |-> NoTask]
  /\ journal' = RecoveredJournal(runtime + 1)
  /\ sealed' = FALSE
  /\ dropped' = {}
  /\ unheld' = {}
  /\ UNCHANGED <<posted, processed, executed>>

-----------------------------------------------------------------------------
Init ==
  /\ posted = 0 /\ published = 0
  /\ lane = << >>
  /\ gap = [revision |-> 0, floor |-> 0]
  /\ hint = FALSE
  /\ cursor = NoCursor
  /\ walk = Idle
  /\ due = [gap |-> TRUE, poll |-> TRUE]
  /\ task = [l \in Lanes |-> NoTask]
  /\ processed = {}
  /\ journal = [m \in Messages |-> NoRow]
  /\ runtime = 0
  /\ sealed = FALSE
  /\ executed = [m \in Messages |-> 0]
  /\ dropped = {} /\ unheld = {}

Process(l) ==
  \/ BeginExecution(l) \/ HandOff(l) \/ RecordResult(l) \/ Confirm(l)
  \/ AbandonCustody(l) \/ AbandonUnheld(l)

HistoryLane ==
  \/ GapStart \/ GapFetch \/ GapClaim \/ GapEnd \/ GapFails
  \/ PollSkip \/ PollForget \/ PollStart \/ PollFetch \/ PollDiscard \/ PollClaim
  \/ PollCommit \/ PollFails

Next ==
  \/ Post \/ Publish
  \/ LiveReceive \/ LiveRefuse
  \/ \E l \in Lanes: Process(l)
  \/ Wake \/ HistoryLane
  \/ Seal \/ Restart

Spec == Init /\ [][Next]_vars

\* The lanes keep running: each loop takes its next step when it can, the poll
\* timer ticks, and a message being processed ends somehow.  A fetch, and the
\* claim of a given message, may fail any number of times but do not fail for
\* ever.  Posting, draining and restarting are free.
Fairness ==
  /\ WF_vars(Publish)
  /\ \A l \in Lanes: WF_vars(Process(l))
  /\ WF_vars(Wake /\ due'.poll)
  /\ WF_vars(GapStart) /\ WF_vars(PollSkip)
  /\ SF_vars(GapFetch) /\ SF_vars(GapEnd)
  /\ \A m \in Messages: SF_vars(GapClaimOf(m))
  /\ WF_vars(HistoryLane)

FairSpec == Spec /\ Fairness

-----------------------------------------------------------------------------
(* Properties.                                                             *)

\* The variables stay in their sets.
TypeOK ==
  /\ posted \in 0..MaxMessages /\ published \in 0..posted
  /\ lane \in Seq(1..posted) /\ Len(lane) <= LaneCapacity
  /\ gap.floor \in 0..posted /\ gap.revision \in Nat
  /\ cursor.phase \in {"none", "priming", "active"}
  /\ processed \subseteq 1..posted
  /\ \A m \in Messages:
       journal[m] # NoRow =>
         journal[m].state \in {"staged", "executing", "completed", "owned", "held"}
  /\ \A l \in Lanes: task[l].pc \in {"none", "admitted", "executing", "recorded"}

\* A message is executed at most once, whichever of the gateway, the gap
\* recovery, the poll and a restart bring it up again.
ExecutedAtMostOnce == \A m \in Messages: executed[m] <= 1

\* A message the full lane dropped is never swallowed by the poll: until it
\* has a journal row of its own, the recorded gap reaches back to it.
DroppedIsCovered ==
  /\ TypeOK
  /\ \A m \in dropped: journal[m] = NoRow => gap.floor # 0 /\ gap.floor <= m

\* Every admitted message that no lane is processing has an end the user can
\* see: it is confirmed, owned by a durable prompt, or held with a notice.
\* The one exception is a row whose hold failed, until the next start.
AdmittedIsAccounted ==
  \A m \in Messages:
    journal[m] # NoRow /\ m \notin unheld /\ (\A l \in Lanes: task[l].msg # m) =>
      \/ journal[m].confirmed
      \/ journal[m].owner
      \/ journal[m].state = "held" /\ journal[m].notice

\* What was decided about a message stands, through failures, late copies and
\* restarts: one the poll claimed only to discard it is never admitted, and a
\* hold never takes one away from the prompt that owns it.
DecisionsStand ==
  [][/\ \A m \in processed: journal[m] = NoRow => journal'[m] = NoRow
     /\ \A m \in Messages:
          journal[m] # NoRow => (journal[m].state = "owned" => journal'[m].state = "owned")]_vars

\* A dropped message is brought in by the gap recovery, although the gap grows
\* while it is recovered, a recovery fails half-way and the gap is longer than a
\* page, so that it is never acknowledged: only the end of the process, or as
\* many later messages as a page shows, can take the message away.  While it is
\* still dropped the promise holds anew, so a restart drain only postpones it.
DroppedIsRecovered ==
  \A m \in Messages:
    m \in dropped ~>
      \/ sealed
      \/ journal[m] # NoRow
      \/ m \notin dropped
      \/ posted - m >= PageLimit
=============================================================================
