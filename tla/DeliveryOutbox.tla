--------------------------- MODULE DeliveryOutbox ---------------------------
(* From a staged reply to messages on Discord: the two outboxes               *)
(* (commentary_outbox.rs, delivery.rs), the receipt of every chunk            *)
(* (delivery_receipt.rs), the election of what to send next                   *)
(* (completion_work.rs), the HTTP lanes that send it                          *)
(* (completion_worker/delivery.rs, receipt.rs, scheduler.rs) and the          *)
(* confirmation by the gateway's echo (message_create/receipt_echo.rs).       *)
(*                                                                            *)
(* A lane serves one channel and one item at a time.  Its steps are the       *)
(* transactions of the store and the POST, whose fate the runtime may never   *)
(* learn: it can time out and be accepted later, or its answer can be lost.   *)
EXTENDS Integers, FiniteSets

CONSTANTS
    Jobs,       \* requests; a job also names its final reply
    Notes,      \* commentary: the distinct texts a turn produces
    JobOf,      \* the request a note belongs to
    Channels,
    ChannelOf,  \* the channel of a request
    PartsOf,    \* number of chunks of a note or a final
    MaxStages,  \* commentary is staged only while fewer rows were
    MaxFaults   \* crashes and rate limits

Items == Jobs \cup Notes

ASSUME OutboxAssumption ==
    /\ Jobs # {} /\ Jobs \cap Notes = {}
    /\ JobOf \in [Notes -> Jobs]
    /\ ChannelOf \in [Jobs -> Channels]
    /\ PartsOf \in [Items -> Nat \ {0}]
    /\ MaxStages \in Nat /\ MaxFaults \in Nat

VARIABLES
    rank,     \* row of an item: its sequence or created_at, 0 if there is no row
    born,     \* the rank of its first row (history)
    clock,    \* the last rank given
    closed,   \* jobs whose queue row the final's staging deleted
    first,    \* jobs whose first reply is confirmed (confirmation_delivered)
    receipt,  \* codex_delivery_receipts
    lane,     \* the HTTP work of each channel
    wire,     \* POSTs Discord has not answered, abandoned ones included
    shown,    \* how often a chunk is visible in the channel
    echo,     \* MESSAGE_CREATE events of own messages, on their way
    faults

staging == <<rank, born, clock, closed, first>>
discord == <<wire, shown, echo>>
vars == <<staging, receipt, lane, discord, faults>>

Parts(i) == {i} \X (1 .. PartsOf[i])
Chunks == UNION {Parts(i) : i \in Items}

Owner(i) == IF i \in Jobs THEN i ELSE JobOf[i]
ChannelFor(i) == ChannelOf[Owner(i)]
NotesOf(j) == {n \in Notes : JobOf[n] = j}

\* begin_guarded of a chunk nobody tried; intent without an outcome; a rate limit;
\* a definite rejection; a message id.
Receipts == {"none", "unknown", "retry", "blocked", "delivered"}
Places == {"idle", "check", "order", "begin", "send", "await", "confirm",
           "lost", "limited", "refused"}
Idle == [pc |-> "idle", item |-> CHOOSE i \in Items : TRUE, part |-> 1]

Init ==
    /\ rank = [i \in Items |-> 0] /\ born = [i \in Items |-> 0] /\ clock = 0
    /\ closed = {} /\ first = {}
    /\ receipt = [x \in Chunks |-> "none"]
    /\ lane = [h \in Channels |-> Idle]
    /\ wire = [x \in Chunks |-> 0] /\ shown = [x \in Chunks |-> 0] /\ echo = {}
    /\ faults = 0

Fault == faults < MaxFaults /\ faults' = faults + 1

-----------------------------------------------------------------------------
(* Staging.                                                                   *)

Insert(i) ==
    /\ rank' = [rank EXCEPT ![i] = clock + 1]
    /\ born' = [born EXCEPT ![i] = IF @ = 0 THEN clock + 1 ELSE @]
    /\ clock' = clock + 1

\* stage looks for the running row of the turn, which the final's staging deletes.
Progressing(j) == j \notin closed

\* A text of the turn is staged; INSERT OR IGNORE keeps an undelivered row of the
\* same text, and a delivered one is staged anew under the receipts it has.
StageNote(n) ==
    /\ clock < MaxStages /\ Progressing(JobOf[n]) /\ rank[n] = 0
    /\ Insert(n)
    /\ UNCHANGED <<closed, first, receipt, lane, discord, faults>>

\* The final and the deletion of the queue row are one transaction.
StageFinal(j) ==
    /\ j \notin closed
    /\ Insert(j) /\ closed' = closed \cup {j}
    /\ UNCHANGED <<first, receipt, lane, discord, faults>>

\* The first reply to the request is confirmed.
ConfirmFirst(j) ==
    /\ j \notin first
    /\ first' = first \cup {j}
    /\ UNCHANGED <<rank, born, clock, closed, receipt, lane, discord, faults>>

-----------------------------------------------------------------------------
(* What a lane may send next.                                                 *)

Pending(i) == rank[i] # 0

\* The relation unavailable: an intent without outcome, or a rejection.
Unavailable(i) == \E x \in Parts(i) : receipt[x] \in {"unknown", "blocked"}
TurnHeld(j) == \E n \in NotesOf(j) : Unavailable(n)

\* Mutant of Eligible: a request that waits for its first reply keeps its place.
EligibleUnconfirmed(i) ==
    ~ (TurnHeld(Owner(i)) /\ \E n \in NotesOf(Owner(i)) : Pending(n))

\* Rows that take part in the election.  A held note holds the notes of its turn, and
\* while one of them is undelivered, the final.
Eligible(i) ==
    /\ Owner(i) \in first
    /\ ~ (TurnHeld(Owner(i)) /\ \E n \in NotesOf(Owner(i)) : Pending(n))

\* The notes and the finals of a channel are two queues.
Peers(i) == {k \in Items : k \in Jobs <=> i \in Jobs}

Head(i) ==
    /\ Pending(i) /\ Eligible(i)
    /\ \A k \in Peers(i) :
         ChannelFor(k) = ChannelFor(i) /\ Pending(k) /\ Eligible(k) => rank[i] <= rank[k]

\* The head of a queue, unless its own receipts hold it.
Candidate(i) == Head(i) /\ ~Unavailable(i)

\* take_http and load, which checks the entry again.
Load(i) ==
    LET h == ChannelFor(i)
    IN  /\ lane[h].pc = "idle" /\ Candidate(i)
        /\ lane' = [lane EXCEPT ![h] = [pc |-> IF i \in Jobs THEN "check" ELSE "order",
                                        item |-> i, part |-> 1]]
        /\ UNCHANGED <<staging, receipt, discord, faults>>

-----------------------------------------------------------------------------
(* One item on its lane.                                                      *)

Item(h) == lane[h].item
Chunk(h) == <<lane[h].item, lane[h].part>>

Rest(h) == lane' = [lane EXCEPT ![h] = Idle]
Goto(h, p) == lane' = [lane EXCEPT ![h].pc = p]

\* deliver_chunks_indexed
Following(c) == c + 1

NextPart(h) ==
    lane' = [lane EXCEPT ![h] = [pc |-> "begin", item |-> Item(h),
                                 part |-> Following(lane[h].part)]]
Delete(i) == rank' = [rank EXCEPT ![i] = 0] /\ UNCHANGED <<born, clock, closed, first>>

\* Mutant of Ready: the final does not wait for the commentary of its turn.
ReadyDespiteProgress(i) == Owner(i) \in first

\* final_preflight and ensure_delivery_order: the first reply is confirmed, and all
\* commentary before the item is delivered.
Ready(i) ==
    /\ Owner(i) \in first
    /\ \A n \in NotesOf(Owner(i)) : Pending(n) => i \in Notes /\ rank[n] >= rank[i]

\* Mutant of Skipped: a chunk that was tried has a receipt.
SkippedWhenTried(r) == r # "none"

\* begin_guarded: a new chunk or one released by a rate limit is New.
Claimable(r) == r \in {"none", "retry"}
Skipped(r) == r = "delivered"

\* complete_confirmed: a final whose chunks all have receipts is retired without
\* sending; otherwise its tentative claims are rolled back.
CompleteConfirmed(h) ==
    /\ lane[h].pc = "check"
    /\ IF Ready(Item(h)) /\ \A x \in Parts(Item(h)) : Skipped(receipt[x])
       THEN Delete(Item(h)) /\ Rest(h)
       ELSE Goto(h, "order") /\ UNCHANGED staging
    /\ UNCHANGED <<receipt, discord, faults>>

CheckOrder(h) ==
    /\ lane[h].pc = "order"
    /\ IF Ready(Item(h)) THEN Goto(h, "begin") ELSE Rest(h)
    /\ UNCHANGED <<staging, receipt, discord, faults>>

\* The intent is committed before the POST.
Begin(h) ==
    /\ lane[h].pc = "begin" /\ lane[h].part <= PartsOf[Item(h)]
    /\ Claimable(receipt[Chunk(h)])
    /\ receipt' = [receipt EXCEPT ![Chunk(h)] = "unknown"]
    /\ Goto(h, "send")
    /\ UNCHANGED <<staging, discord, faults>>

\* Delivered: on to the next chunk.  Unknown or blocked: the failure is recorded on the
\* row, which stays; the election passes over such items, so this is a second guard.
BeginTried(h) ==
    /\ lane[h].pc = "begin" /\ lane[h].part <= PartsOf[Item(h)]
    /\ ~Claimable(receipt[Chunk(h)])
    /\ IF Skipped(receipt[Chunk(h)]) THEN NextPart(h) ELSE Rest(h)
    /\ UNCHANGED <<staging, receipt, discord, faults>>

Complete(h) ==
    /\ lane[h].pc = "begin" /\ lane[h].part > PartsOf[Item(h)]
    /\ Delete(Item(h)) /\ Rest(h)
    /\ UNCHANGED <<receipt, discord, faults>>

Send(h) ==
    /\ lane[h].pc = "send"
    /\ wire' = [wire EXCEPT ![Chunk(h)] = @ + 1]
    /\ Goto(h, "await")
    /\ UNCHANGED <<staging, receipt, shown, echo, faults>>

\* The 25 s deadline: the outcome stays unknown.
Timeout(h) ==
    /\ lane[h].pc = "await"
    /\ Rest(h)
    /\ UNCHANGED <<staging, receipt, discord, faults>>

\* The connection fails before an answer.
AnswerLost(h) ==
    /\ lane[h].pc = "await"
    /\ Goto(h, "lost")
    /\ UNCHANGED <<staging, receipt, discord, faults>>

Confirm(h) ==
    /\ lane[h].pc = "confirm"
    /\ receipt' = [receipt EXCEPT ![Chunk(h)] = "delivered"]
    /\ NextPart(h)
    /\ UNCHANGED <<staging, discord, faults>>

\* confirmed_message: the gateway was faster than the error.
AlreadyConfirmed(h) ==
    /\ lane[h].pc \in {"lost", "limited", "refused"} /\ receipt[Chunk(h)] = "delivered"
    /\ NextPart(h)
    /\ UNCHANGED <<staging, receipt, discord, faults>>

\* Mutant of AfterError: a lost answer releases the chunk like a rate limit.
AfterErrorReleased(p) == IF p = "refused" THEN "blocked" ELSE "retry"

\* release_rejected, block_rejected, or neither.
AfterError(p) ==
    CASE p = "limited" -> "retry" [] p = "refused" -> "blocked" [] OTHER -> "unknown"

RecordError(h) ==
    /\ lane[h].pc \in {"lost", "limited", "refused"} /\ receipt[Chunk(h)] # "delivered"
    /\ receipt' = [receipt EXCEPT ![Chunk(h)] = AfterError(lane[h].pc)]
    /\ Rest(h)
    /\ UNCHANGED <<staging, discord, faults>>

-----------------------------------------------------------------------------
(* Discord, its gateway, and crashes.                                         *)

\* An answer reaches the lane if it still waits for this chunk.
Answer(x, p) ==
    LET h == ChannelFor(x[1])
    IN  lane[h].pc = "await" /\ Chunk(h) = x /\ Goto(h, p)

\* Discord accepts a POST; its answer may be late or lost.
Accept(x) ==
    /\ wire[x] > 0
    /\ wire' = [wire EXCEPT ![x] = @ - 1]
    /\ shown' = [shown EXCEPT ![x] = @ + 1]
    /\ echo' = echo \cup {x}
    /\ Answer(x, "confirm") \/ UNCHANGED lane
    /\ UNCHANGED <<staging, receipt, faults>>

Reject(x) ==
    /\ wire[x] > 0
    /\ wire' = [wire EXCEPT ![x] = @ - 1]
    /\ \/ Answer(x, "refused") /\ UNCHANGED faults
       \/ Answer(x, "limited") /\ Fault
       \/ UNCHANGED <<lane, faults>>
    /\ UNCHANGED <<staging, receipt, shown, echo>>

\* confirm of receipt_echo.rs: only a receipt that is neither released nor blocked.
Echo(x) ==
    /\ x \in echo
    /\ echo' = echo \ {x}
    /\ receipt' = [receipt EXCEPT ![x] = IF @ = "unknown" THEN "delivered" ELSE @]
    /\ UNCHANGED <<staging, lane, wire, shown, faults>>

\* A gap of the gateway session.
EchoLost(x) ==
    /\ x \in echo
    /\ echo' = echo \ {x}
    /\ UNCHANGED <<staging, receipt, lane, wire, shown, faults>>

\* The process ends; a POST already written may still be accepted.
Crash ==
    /\ \E h \in Channels : lane[h].pc # "idle"
    /\ Fault
    /\ lane' = [h \in Channels |-> Idle]
    /\ UNCHANGED <<staging, receipt, discord>>

-----------------------------------------------------------------------------
Stage == (\E n \in Notes : StageNote(n)) \/ (\E j \in Jobs : StageFinal(j) \/ ConfirmFirst(j))
Work(h) ==
    \/ CompleteConfirmed(h) \/ CheckOrder(h) \/ Begin(h) \/ BeginTried(h) \/ Complete(h)
    \/ Send(h) \/ Timeout(h) \/ AnswerLost(h) \/ Confirm(h)
    \/ AlreadyConfirmed(h) \/ RecordError(h)
Discord == \E x \in Chunks : Accept(x) \/ Reject(x) \/ Echo(x) \/ EchoLost(x)

Next == Stage \/ (\E i \in Items : Load(i)) \/ (\E h \in Channels : Work(h)) \/ Discord \/ Crash

\* Every await of a lane ends, by its deadline at the latest; each source is scanned
\* every second and its entries are taken in turn.
Fairness ==
    /\ \A h \in Channels : WF_vars(Work(h))
    /\ \A i \in Items : SF_vars(Load(i))

Spec == Init /\ [][Next]_vars /\ Fairness

-----------------------------------------------------------------------------
(* Properties.                                                                *)

LaneState == [pc : Places, item : Items, part : Nat]

\* Type invariant; a lane is at a chunk of its item or just past the last one.
TypeOK ==
    /\ rank \in [Items -> Nat] /\ born \in [Items -> Nat] /\ clock \in Nat
    /\ closed \subseteq Jobs /\ first \subseteq Jobs
    /\ receipt \in [Chunks -> Receipts]
    /\ lane \in [Channels -> LaneState]
    /\ \A h \in Channels : lane[h].part \in 1 .. PartsOf[lane[h].item] + 1
    /\ wire \in [Chunks -> Nat] /\ shown \in [Chunks -> Nat] /\ echo \subseteq Chunks
    /\ faults \in Nat

\* No chunk is shown twice, whatever timed out, was lost or crashed.
ShownOnce == \A x \in Chunks : shown[x] <= 1

Earlier(i) ==
    {n \in NotesOf(Owner(i)) : born[n] # 0 /\ (i \in Jobs \/ born[n] < born[i])}

\* A user reads a request's output in order: the first reply, the commentary as it
\* was staged, the final, and the chunks of each one after the other.
ReadInOrder ==
    \A i \in Items : \A c \in 1 .. PartsOf[i] :
        shown[<<i, c>>] > 0 =>
            /\ Owner(i) \in first
            /\ \A d \in 1 .. (c - 1) : shown[<<i, d>>] > 0
            /\ \A n \in Earlier(i) : \A x \in Parts(n) : shown[x] > 0

\* A staged reply leaves its outbox only when all of it is visible.
NothingDropped ==
    \A i \in Items : born[i] # 0 /\ ~Pending(i) => \A x \in Parts(i) : shown[x] > 0

\* What may hold a final: an outcome nobody knows or a rejection, of the request's own
\* output or of an earlier final in the channel.
Held(j) ==
    \/ Unavailable(j) \/ TurnHeld(j)
    \/ \E k \in Jobs : /\ ChannelOf[k] = ChannelOf[j] /\ Pending(k) /\ rank[k] < rank[j]
                       /\ Unavailable(k)

\* A final whose first reply is confirmed is delivered, or held for good by a receipt;
\* a request that waits for its first reply, or has held commentary, does not keep
\* others of the channel from being delivered.
RepliesArrive ==
    \A j \in Jobs : Pending(j) /\ j \in first ~> ~Pending(j) \/ []Held(j)

=============================================================================
