------------------------ MODULE DeliveryOutboxProofs ------------------------
(* Proofs about DeliveryOutbox for every set of requests, commentary and      *)
(* channels, every number of chunks and every number of faults.               *)
EXTENDS DeliveryOutbox, TLAPS

\* A lane that works does so for an item of its own channel.
LaneInv ==
    \A h \in Channels : lane[h].pc # "idle" =>
        /\ ChannelFor(lane[h].item) = h /\ rank[lane[h].item] # 0
        /\ lane[h].pc \in {"check", "order"} => lane[h].part = 1
        /\ lane[h].pc \notin {"check", "order", "begin"} =>
             lane[h].part <= PartsOf[lane[h].item]

\* Chunk x is the one lane h is at.
At(h, x) == lane[h].item = x[1] /\ lane[h].part = x[2]

\* One POST at most is on its way or visible, and none where a receipt allows one.
PostInv ==
    \A x \in Chunks :
        /\ wire[x] + shown[x] <= 1
        /\ receipt[x] \in {"none", "retry", "blocked"} => wire[x] + shown[x] = 0
        /\ receipt[x] = "delivered" \/ x \in echo => shown[x] > 0

\* What the lane knows of the chunk it is at.
HandInv ==
    \A h \in Channels : \A x \in Chunks : At(h, x) =>
        /\ lane[h].pc \in {"send", "limited", "refused"} =>
             receipt[x] = "unknown" /\ wire[x] + shown[x] = 0
        /\ lane[h].pc \in {"await", "lost"} => receipt[x] \in {"unknown", "delivered"}
        /\ lane[h].pc = "confirm" => shown[x] > 0

Finished(i) == \A x \in Parts(i) : shown[x] > 0

\* Rows and their history: an item whose row is not its first one was finished.
RowAt(i) ==
    /\ born[i] <= clock /\ rank[i] <= clock
    /\ i \in Jobs => (born[i] # 0 <=> i \in closed)
    /\ born[i] = 0 => rank[i] = 0
    /\ rank[i] # 0 => born[i] <= rank[i]
    /\ born[i] # 0 /\ rank[i] # born[i] => Finished(i)
RowInv == \A i \in Items : RowAt(i)

\* The output of the request before item i is in the channel.
InTurn(i) == Owner(i) \in first /\ \A n \in Earlier(i) : Finished(n)

\* What was tried was tried in its turn.
TriedInv ==
    \A x \in Chunks : receipt[x] # "none" =>
        /\ born[x[1]] # 0 /\ InTurn(x[1])
        /\ \A y \in Parts(x[1]) : y[2] < x[2] => receipt[y] = "delivered"

\* A lane has delivered the chunks before its own, and an item past its checks has
\* nothing to wait for.
TurnAt(h) ==
    \A i \in Items : lane[h].pc # "idle" /\ lane[h].item = i =>
        /\ \A y \in Parts(i) : y[2] < lane[h].part => receipt[y] = "delivered"
        /\ lane[h].pc \notin {"check", "order"} => InTurn(i)
TurnInv == \A h \in Channels : TurnAt(h)

OutboxInv ==
    TypeOK /\ LaneInv /\ PostInv /\ HandInv /\ RowInv /\ TriedInv /\ TurnInv

-----------------------------------------------------------------------------
(* The operators the model is built from.                                     *)

\* A chunk is a pair of an item and one of its parts.
LEMMA ChunkShape ==
    /\ \A x \in Chunks : /\ x = <<x[1], x[2]>> /\ x[1] \in Items
                         /\ x[2] \in 1 .. PartsOf[x[1]] /\ x \in Parts(x[1])
    /\ \A i \in Items : \A c \in 1 .. PartsOf[i] : <<i, c>> \in Chunks /\ <<i, c>> \in Parts(i)
    /\ \A i \in Items : \A x \in Parts(i) : x \in Chunks /\ x[1] = i
    /\ \A i \in Items : PartsOf[i] \in Nat /\ PartsOf[i] >= 1
BY OutboxAssumption DEF Chunks, Parts, Items

\* Every item has a request, a channel and, if it is a note, notes beside it.
LEMMA OwnerShape ==
    /\ \A i \in Items : Owner(i) \in Jobs /\ ChannelFor(i) \in Channels
    /\ \A i \in Items : i \in Jobs \/ i \in Notes
    /\ \A i \in Items : i \notin Jobs \/ i \notin Notes
    /\ \A j \in Jobs : j \in Items
    /\ \A n \in Notes : n \in Items
    /\ \A j : \A n \in NotesOf(j) : n \in Notes
    /\ \A n \in Notes : Owner(n) = JobOf[n] /\ JobOf[n] \in Jobs
    /\ \A j \in Jobs : Owner(j) = j
    /\ \A n \in Notes : \A j : n \in NotesOf(j) <=> JobOf[n] = j
BY OutboxAssumption DEF Owner, ChannelFor, NotesOf, Items

\* A resting lane.
LEMMA IdleShape == Idle \in LaneState /\ Idle.pc = "idle" /\ Idle.part = 1
<1>1. (CHOOSE i \in Items : TRUE) \in Items
  BY OutboxAssumption DEF Items
<1> QED BY <1>1 DEF Idle, LaneState, Places

\* The parts of TypeOK.
LanesOK ==
    /\ lane \in [Channels -> LaneState]
    /\ \A h \in Channels : lane[h].part \in 1 .. PartsOf[lane[h].item] + 1
StagingOK ==
    /\ rank \in [Items -> Nat] /\ born \in [Items -> Nat] /\ clock \in Nat
    /\ closed \subseteq Jobs /\ first \subseteq Jobs
TablesOK ==
    /\ receipt \in [Chunks -> Receipts]
    /\ wire \in [Chunks -> Nat] /\ shown \in [Chunks -> Nat] /\ echo \subseteq Chunks
    /\ faults \in Nat

\* The parts of the type invariant.
LEMMA TypeParts == TypeOK <=> LanesOK /\ StagingOK /\ TablesOK
BY DEF TypeOK, LanesOK, StagingOK, TablesOK

\* What a step of a lane does to the lanes.
LEMMA GotoShape ==
    ASSUME LanesOK, NEW h \in Channels, NEW p \in Places, Goto(h, p)
    PROVE  /\ LanesOK'
           /\ lane'[h].pc = p /\ lane'[h].item = lane[h].item /\ lane'[h].part = lane[h].part
           /\ \A k \in Channels : k # h => lane'[k] = lane[k]
BY DEF LanesOK, Goto, LaneState

\* Its work ends.
LEMMA RestShape ==
    ASSUME LanesOK, NEW h \in Channels, Rest(h)
    PROVE  /\ LanesOK'
           /\ lane'[h].pc = "idle"
           /\ \A k \in Channels : k # h => lane'[k] = lane[k]
<1>1. lane' \in [Channels -> LaneState] /\ lane'[h] = Idle
  BY IdleShape DEF LanesOK, Rest
<1>2. \A k \in Channels : k # h => lane'[k] = lane[k]
  BY DEF LanesOK, Rest
<1>3. Idle.part \in 1 .. PartsOf[Idle.item] + 1
  BY IdleShape, ChunkShape DEF LaneState
<1> QED BY <1>1, <1>2, <1>3, IdleShape DEF LanesOK

\* It goes on to the next chunk.
LEMMA NextPartShape ==
    ASSUME LanesOK, NEW h \in Channels, NextPart(h), lane[h].part <= PartsOf[lane[h].item]
    PROVE  /\ LanesOK'
           /\ lane'[h].pc = "begin" /\ lane'[h].item = lane[h].item
           /\ lane'[h].part = lane[h].part + 1
           /\ \A k \in Channels : k # h => lane'[k] = lane[k]
<1>1. /\ lane' \in [Channels -> LaneState]
      /\ lane'[h].pc = "begin" /\ lane'[h].item = lane[h].item
      /\ lane'[h].part = lane[h].part + 1
      /\ \A k \in Channels : k # h => lane'[k] = lane[k]
  BY DEF LanesOK, LaneState, NextPart, Following, Item, Places
<1>2. lane[h].item \in Items /\ lane[h].part \in Nat /\ lane[h].part >= 1
  BY DEF LanesOK, LaneState
<1>3. lane'[h].part \in 1 .. PartsOf[lane'[h].item] + 1
  BY <1>1, <1>2, ChunkShape
<1> QED BY <1>1, <1>3 DEF LanesOK

\* It takes an item.
LEMMA LoadShape ==
    ASSUME LanesOK, NEW i \in Items, Load(i)
    PROVE  /\ LanesOK'
           /\ lane'[ChannelFor(i)].pc = (IF i \in Jobs THEN "check" ELSE "order")
           /\ lane'[ChannelFor(i)].item = i /\ lane'[ChannelFor(i)].part = 1
           /\ \A k \in Channels : k # ChannelFor(i) => lane'[k] = lane[k]
<1> DEFINE h == ChannelFor(i)
           r == [pc |-> IF i \in Jobs THEN "check" ELSE "order", item |-> i, part |-> 1]
<1>1. h \in Channels /\ lane' = [lane EXCEPT ![h] = r]
  BY OwnerShape DEF Load
<1>2. r \in LaneState /\ r.part \in 1 .. PartsOf[r.item] + 1
  BY ChunkShape DEF LaneState, Places
<1> QED BY <1>1, <1>2 DEF LanesOK

\* What staging and deletion do to the rows.
LEMMA InsertShape ==
    ASSUME StagingOK, NEW i \in Items, Insert(i)
    PROVE  /\ rank' \in [Items -> Nat] /\ born' \in [Items -> Nat]
           /\ clock' = clock + 1 /\ rank'[i] = clock + 1
           /\ born[i] = 0 => born'[i] = clock + 1
           /\ born[i] # 0 => born'[i] = born[i]
           /\ \A k \in Items : k # i => rank'[k] = rank[k] /\ born'[k] = born[k]
BY DEF StagingOK, Insert

\* The row of a delivered item goes.
LEMMA DeleteShape ==
    ASSUME StagingOK, NEW i \in Items, Delete(i)
    PROVE  /\ rank' \in [Items -> Nat] /\ rank'[i] = 0
           /\ \A k \in Items : k # i => rank'[k] = rank[k]
           /\ UNCHANGED <<born, clock, closed, first>>
BY DEF StagingOK, Delete

\* The chunk a lane is at.
LEMMA AtShape ==
    ASSUME LanesOK, NEW h \in Channels
    PROVE  /\ lane[h].item \in Items /\ lane[h].part \in Nat /\ lane[h].part >= 1
           /\ lane[h].pc \in Places
           /\ lane[h].part <= PartsOf[lane[h].item] => Chunk(h) \in Chunks /\ At(h, Chunk(h))
           /\ \A x \in Chunks : At(h, x) <=> Chunk(h) = x
<1>1. /\ lane[h].item \in Items /\ lane[h].part \in Nat /\ lane[h].part >= 1
      /\ lane[h].pc \in Places
  BY DEF LanesOK, LaneState
<1>2. lane[h].part <= PartsOf[lane[h].item] => Chunk(h) \in Chunks /\ At(h, Chunk(h))
  BY <1>1, ChunkShape DEF Chunk, At
<1>3. \A x \in Chunks : At(h, x) <=> Chunk(h) = x
  BY <1>1, ChunkShape DEF Chunk, At
<1> QED BY <1>1, <1>2, <1>3

\* An answer moves the lane that waits for it.
LEMMA AnswerShape ==
    ASSUME LanesOK, NEW x \in Chunks, NEW p \in Places, Answer(x, p),
           NEW h, h = ChannelFor(x[1])
    PROVE  /\ LanesOK'
           /\ h \in Channels /\ lane[h].pc = "await" /\ At(h, x)
           /\ lane'[h].pc = p /\ lane'[h].item = lane[h].item /\ lane'[h].part = lane[h].part
           /\ \A k \in Channels : k # h => lane'[k] = lane[k]
<1>1. h \in Channels
  BY ChunkShape, OwnerShape
<1>2. lane[h].pc = "await" /\ Chunk(h) = x /\ Goto(h, p)
  BY DEF Answer
<1> QED BY <1>1, <1>2, GotoShape, AtShape

-----------------------------------------------------------------------------
(* The invariant is inductive: one lemma per conjunct, one step per action.   *)

\* A lane stays within its item.
LEMMA LanesStep ==
    ASSUME OutboxInv, [Next]_vars
    PROVE  LanesOK'
<1> DEFINE Goal == LanesOK'
<1> USE TypeParts DEF OutboxInv
<1>1. ASSUME NEW n \in Notes, StageNote(n)
      PROVE  Goal
  BY <1>1 DEF StageNote, LanesOK, staging, discord
<1>2. ASSUME NEW j \in Jobs, StageFinal(j)
      PROVE  Goal
  BY <1>2 DEF StageFinal, LanesOK, staging, discord
<1>3. ASSUME NEW j \in Jobs, ConfirmFirst(j)
      PROVE  Goal
  BY <1>3 DEF ConfirmFirst, LanesOK, staging, discord
<1>4. ASSUME NEW i \in Items, Load(i)
      PROVE  Goal
  BY <1>4, LoadShape
     DEF Load, LanesOK, LaneInv
<1>5. ASSUME NEW h \in Channels, CompleteConfirmed(h)
      PROVE  Goal
  BY <1>5, GotoShape, RestShape
     DEF CompleteConfirmed, LanesOK, LaneInv, Places, Item
<1>6. ASSUME NEW h \in Channels, CheckOrder(h)
      PROVE  Goal
  BY <1>6, GotoShape, RestShape
     DEF CheckOrder, LanesOK, LaneInv, Places, Item
<1>7. ASSUME NEW h \in Channels, Begin(h)
      PROVE  Goal
  BY <1>7, GotoShape
     DEF Begin, LanesOK, LaneInv, Places, Item
<1>8. ASSUME NEW h \in Channels, BeginTried(h)
      PROVE  Goal
  BY <1>8, NextPartShape, RestShape
     DEF BeginTried, LanesOK, LaneInv, Item
<1>9. ASSUME NEW h \in Channels, Complete(h)
      PROVE  Goal
  BY <1>9, RestShape
     DEF Complete, LanesOK, LaneInv, Item
<1>10. ASSUME NEW h \in Channels, Send(h)
      PROVE  Goal
  BY <1>10, GotoShape
     DEF Send, LanesOK, LaneInv, Places
<1>11. ASSUME NEW h \in Channels, Timeout(h)
      PROVE  Goal
  BY <1>11, RestShape
     DEF Timeout, LanesOK, LaneInv
<1>12. ASSUME NEW h \in Channels, AnswerLost(h)
      PROVE  Goal
  BY <1>12, GotoShape
     DEF AnswerLost, LanesOK, LaneInv, Places
<1>13. ASSUME NEW h \in Channels, Confirm(h)
      PROVE  Goal
  BY <1>13, NextPartShape
     DEF Confirm, LanesOK, LaneInv
<1>14. ASSUME NEW h \in Channels, AlreadyConfirmed(h)
      PROVE  Goal
  BY <1>14, NextPartShape
     DEF AlreadyConfirmed, LanesOK, LaneInv
<1>15. ASSUME NEW h \in Channels, RecordError(h)
      PROVE  Goal
  BY <1>15, RestShape
     DEF RecordError, LanesOK, LaneInv
<1>16. ASSUME NEW x \in Chunks, Accept(x)
      PROVE  Goal
  BY <1>16, AnswerShape
     DEF Accept, LanesOK, LaneInv, Places
<1>17. ASSUME NEW x \in Chunks, Reject(x)
      PROVE  Goal
  BY <1>17, AnswerShape
     DEF Reject, LanesOK, LaneInv, Places
<1>18. ASSUME NEW x \in Chunks, Echo(x)
      PROVE  Goal
  BY <1>18 DEF Echo, LanesOK, staging, discord
<1>19. ASSUME NEW x \in Chunks, EchoLost(x)
      PROVE  Goal
  BY <1>19 DEF EchoLost, LanesOK, staging, discord
<1>20. CASE Crash
  <2>1. Idle \in LaneState /\ Idle.part \in 1 .. PartsOf[Idle.item] + 1
    BY IdleShape, ChunkShape DEF LaneState
  <2> QED BY <1>20, <2>1 DEF Crash, LanesOK
<1>21. CASE UNCHANGED vars
  BY <1>21 DEF vars, LanesOK, staging, discord
<1> QED
  BY <1>1, <1>2, <1>3, <1>4, <1>5, <1>6, <1>7, <1>8, <1>9, <1>10, <1>11, <1>12, <1>13,
     <1>14, <1>15, <1>16, <1>17, <1>18, <1>19, <1>20, <1>21
     DEF Next, Stage, Work, Discord

\* Rows and their history keep their types.
LEMMA StagingStep ==
    ASSUME OutboxInv, [Next]_vars
    PROVE  StagingOK'
<1> DEFINE Goal == StagingOK'
<1> USE TypeParts DEF OutboxInv
<1>1. ASSUME NEW n \in Notes, StageNote(n)
      PROVE  Goal
  BY <1>1, OwnerShape, AtShape, InsertShape
     DEF StageNote, StagingOK, staging
<1>2. ASSUME NEW j \in Jobs, StageFinal(j)
      PROVE  Goal
  BY <1>2, OwnerShape, AtShape, InsertShape
     DEF StageFinal, StagingOK, staging
<1>3. ASSUME NEW j \in Jobs, ConfirmFirst(j)
      PROVE  Goal
  BY <1>3, OwnerShape, AtShape
     DEF ConfirmFirst, StagingOK, staging
<1>4. ASSUME NEW i \in Items, Load(i)
      PROVE  Goal
  BY <1>4 DEF Load, StagingOK, staging, discord
<1>5. ASSUME NEW h \in Channels, CompleteConfirmed(h)
      PROVE  Goal
  BY <1>5, OwnerShape, AtShape, DeleteShape
     DEF CompleteConfirmed, StagingOK, Item, staging
<1>6. ASSUME NEW h \in Channels, CheckOrder(h)
      PROVE  Goal
  BY <1>6 DEF CheckOrder, StagingOK, staging, discord
<1>7. ASSUME NEW h \in Channels, Begin(h)
      PROVE  Goal
  BY <1>7 DEF Begin, StagingOK, staging, discord
<1>8. ASSUME NEW h \in Channels, BeginTried(h)
      PROVE  Goal
  BY <1>8 DEF BeginTried, StagingOK, staging, discord
<1>9. ASSUME NEW h \in Channels, Complete(h)
      PROVE  Goal
  BY <1>9, OwnerShape, AtShape, DeleteShape
     DEF Complete, StagingOK, Item, staging
<1>10. ASSUME NEW h \in Channels, Send(h)
      PROVE  Goal
  BY <1>10 DEF Send, StagingOK, staging, discord
<1>11. ASSUME NEW h \in Channels, Timeout(h)
      PROVE  Goal
  BY <1>11 DEF Timeout, StagingOK, staging, discord
<1>12. ASSUME NEW h \in Channels, AnswerLost(h)
      PROVE  Goal
  BY <1>12 DEF AnswerLost, StagingOK, staging, discord
<1>13. ASSUME NEW h \in Channels, Confirm(h)
      PROVE  Goal
  BY <1>13 DEF Confirm, StagingOK, staging, discord
<1>14. ASSUME NEW h \in Channels, AlreadyConfirmed(h)
      PROVE  Goal
  BY <1>14 DEF AlreadyConfirmed, StagingOK, staging, discord
<1>15. ASSUME NEW h \in Channels, RecordError(h)
      PROVE  Goal
  BY <1>15 DEF RecordError, StagingOK, staging, discord
<1>16. ASSUME NEW x \in Chunks, Accept(x)
      PROVE  Goal
  BY <1>16 DEF Accept, StagingOK, staging, discord
<1>17. ASSUME NEW x \in Chunks, Reject(x)
      PROVE  Goal
  BY <1>17 DEF Reject, StagingOK, staging, discord
<1>18. ASSUME NEW x \in Chunks, Echo(x)
      PROVE  Goal
  BY <1>18 DEF Echo, StagingOK, staging, discord
<1>19. ASSUME NEW x \in Chunks, EchoLost(x)
      PROVE  Goal
  BY <1>19 DEF EchoLost, StagingOK, staging, discord
<1>20. CASE Crash
  BY <1>20 DEF Crash, Fault, StagingOK, staging, discord
<1>21. CASE UNCHANGED vars
  BY <1>21 DEF vars, StagingOK, staging, discord
<1> QED
  BY <1>1, <1>2, <1>3, <1>4, <1>5, <1>6, <1>7, <1>8, <1>9, <1>10, <1>11, <1>12, <1>13,
     <1>14, <1>15, <1>16, <1>17, <1>18, <1>19, <1>20, <1>21
     DEF Next, Stage, Work, Discord

\* Receipts and messages keep their types.
LEMMA TablesStep ==
    ASSUME OutboxInv, [Next]_vars
    PROVE  TablesOK'
<1> DEFINE Goal == TablesOK'
<1> USE TypeParts DEF OutboxInv
<1>1. ASSUME NEW n \in Notes, StageNote(n)
      PROVE  Goal
  BY <1>1 DEF StageNote, TablesOK, staging, discord
<1>2. ASSUME NEW j \in Jobs, StageFinal(j)
      PROVE  Goal
  BY <1>2 DEF StageFinal, TablesOK, staging, discord
<1>3. ASSUME NEW j \in Jobs, ConfirmFirst(j)
      PROVE  Goal
  BY <1>3 DEF ConfirmFirst, TablesOK, staging, discord
<1>4. ASSUME NEW i \in Items, Load(i)
      PROVE  Goal
  BY <1>4 DEF Load, TablesOK, staging, discord
<1>5. ASSUME NEW h \in Channels, CompleteConfirmed(h)
      PROVE  Goal
  BY <1>5 DEF CompleteConfirmed, TablesOK, staging, discord
<1>6. ASSUME NEW h \in Channels, CheckOrder(h)
      PROVE  Goal
  BY <1>6 DEF CheckOrder, TablesOK, staging, discord
<1>7. ASSUME NEW h \in Channels, Begin(h)
      PROVE  Goal
  BY <1>7, AtShape
     DEF Begin, TablesOK, Receipts, discord
<1>8. ASSUME NEW h \in Channels, BeginTried(h)
      PROVE  Goal
  BY <1>8 DEF BeginTried, TablesOK, staging, discord
<1>9. ASSUME NEW h \in Channels, Complete(h)
      PROVE  Goal
  BY <1>9 DEF Complete, TablesOK, staging, discord
<1>10. ASSUME NEW h \in Channels, Send(h)
      PROVE  Goal
  <2>1. Chunk(h) \in Chunks
    BY <1>10, AtShape DEF Send, LaneInv
  <2> QED BY <1>10, <2>1 DEF Send, TablesOK, staging, discord
<1>11. ASSUME NEW h \in Channels, Timeout(h)
      PROVE  Goal
  BY <1>11 DEF Timeout, TablesOK, staging, discord
<1>12. ASSUME NEW h \in Channels, AnswerLost(h)
      PROVE  Goal
  BY <1>12 DEF AnswerLost, TablesOK, staging, discord
<1>13. ASSUME NEW h \in Channels, Confirm(h)
      PROVE  Goal
  BY <1>13, AtShape
     DEF Confirm, TablesOK, Receipts, discord
<1>14. ASSUME NEW h \in Channels, AlreadyConfirmed(h)
      PROVE  Goal
  BY <1>14 DEF AlreadyConfirmed, TablesOK, staging, discord
<1>15. ASSUME NEW h \in Channels, RecordError(h)
      PROVE  Goal
  BY <1>15, AtShape
     DEF RecordError, TablesOK, Receipts, AfterError, discord
<1>16. ASSUME NEW x \in Chunks, Accept(x)
      PROVE  Goal
  BY <1>16, AtShape
     DEF Accept, TablesOK, Places, discord
<1>17. ASSUME NEW x \in Chunks, Reject(x)
      PROVE  Goal
  BY <1>17, AtShape
     DEF Reject, TablesOK, Fault, Places, discord
<1>18. ASSUME NEW x \in Chunks, Echo(x)
      PROVE  Goal
  BY <1>18, AtShape
     DEF Echo, TablesOK, Receipts, discord
<1>19. ASSUME NEW x \in Chunks, EchoLost(x)
      PROVE  Goal
  BY <1>19, AtShape
     DEF EchoLost, TablesOK, discord
<1>20. CASE Crash
  BY <1>20 DEF Crash, Fault, TablesOK, staging, discord
<1>21. CASE UNCHANGED vars
  BY <1>21 DEF vars, TablesOK, staging, discord
<1> QED
  BY <1>1, <1>2, <1>3, <1>4, <1>5, <1>6, <1>7, <1>8, <1>9, <1>10, <1>11, <1>12, <1>13,
     <1>14, <1>15, <1>16, <1>17, <1>18, <1>19, <1>20, <1>21
     DEF Next, Stage, Work, Discord

\* A lane keeps to its channel.
LEMMA LaneStep ==
    ASSUME OutboxInv, [Next]_vars
    PROVE  LaneInv'
<1> DEFINE Goal == LaneInv'
<1> USE TypeParts DEF OutboxInv
<1>1. ASSUME NEW n \in Notes, StageNote(n)
      PROVE  Goal
  BY <1>1, AtShape, OwnerShape, InsertShape
     DEF StageNote, LaneInv, StagingOK, staging
<1>2. ASSUME NEW j \in Jobs, StageFinal(j)
      PROVE  Goal
  BY <1>2, AtShape, OwnerShape, InsertShape
     DEF StageFinal, LaneInv, StagingOK, staging
<1>3. ASSUME NEW j \in Jobs, ConfirmFirst(j)
      PROVE  Goal
  BY <1>3 DEF ConfirmFirst, LaneInv, staging, discord
<1>4. ASSUME NEW i \in Items, Load(i)
      PROVE  Goal
  BY <1>4, AtShape, OwnerShape, LoadShape
     DEF Load, LaneInv, Head, Candidate, Pending, RowInv, staging
<1>5. ASSUME NEW h \in Channels, CompleteConfirmed(h)
      PROVE  Goal
  BY <1>5, AtShape, OwnerShape, GotoShape, RestShape, DeleteShape
     DEF CompleteConfirmed, LaneInv, StagingOK, Places, Item, staging
<1>6. ASSUME NEW h \in Channels, CheckOrder(h)
      PROVE  Goal
  BY <1>6, AtShape, OwnerShape, GotoShape, RestShape
     DEF CheckOrder, LaneInv, Places, Item, staging
<1>7. ASSUME NEW h \in Channels, Begin(h)
      PROVE  Goal
  BY <1>7, AtShape, OwnerShape, GotoShape
     DEF Begin, LaneInv, Places, Item, staging
<1>8. ASSUME NEW h \in Channels, BeginTried(h)
      PROVE  Goal
  BY <1>8, AtShape, OwnerShape, NextPartShape, RestShape
     DEF BeginTried, LaneInv, Item, staging
<1>9. ASSUME NEW h \in Channels, Complete(h)
      PROVE  Goal
  BY <1>9, AtShape, OwnerShape, RestShape, DeleteShape
     DEF Complete, LaneInv, StagingOK, Item, staging
<1>10. ASSUME NEW h \in Channels, Send(h)
      PROVE  Goal
  BY <1>10, AtShape, OwnerShape, GotoShape
     DEF Send, LaneInv, Places, staging
<1>11. ASSUME NEW h \in Channels, Timeout(h)
      PROVE  Goal
  BY <1>11, AtShape, OwnerShape, RestShape
     DEF Timeout, LaneInv, staging
<1>12. ASSUME NEW h \in Channels, AnswerLost(h)
      PROVE  Goal
  BY <1>12, AtShape, OwnerShape, GotoShape
     DEF AnswerLost, LaneInv, Places, staging
<1>13. ASSUME NEW h \in Channels, Confirm(h)
      PROVE  Goal
  BY <1>13, AtShape, OwnerShape, NextPartShape
     DEF Confirm, LaneInv, staging
<1>14. ASSUME NEW h \in Channels, AlreadyConfirmed(h)
      PROVE  Goal
  BY <1>14, AtShape, OwnerShape, NextPartShape
     DEF AlreadyConfirmed, LaneInv, staging
<1>15. ASSUME NEW h \in Channels, RecordError(h)
      PROVE  Goal
  BY <1>15, AtShape, OwnerShape, RestShape
     DEF RecordError, LaneInv, staging
<1>16. ASSUME NEW x \in Chunks, Accept(x)
      PROVE  Goal
  BY <1>16, AtShape, OwnerShape, AnswerShape
     DEF Accept, LaneInv, Places, staging
<1>17. ASSUME NEW x \in Chunks, Reject(x)
      PROVE  Goal
  BY <1>17, AtShape, OwnerShape, AnswerShape
     DEF Reject, LaneInv, Places, staging
<1>18. ASSUME NEW x \in Chunks, Echo(x)
      PROVE  Goal
  BY <1>18 DEF Echo, LaneInv, staging, discord
<1>19. ASSUME NEW x \in Chunks, EchoLost(x)
      PROVE  Goal
  BY <1>19 DEF EchoLost, LaneInv, staging, discord
<1>20. CASE Crash
  BY <1>20, AtShape, OwnerShape, IdleShape
     DEF Crash, Fault, LaneInv, staging
<1>21. CASE UNCHANGED vars
  BY <1>21 DEF vars, LaneInv, staging, discord
<1> QED
  BY <1>1, <1>2, <1>3, <1>4, <1>5, <1>6, <1>7, <1>8, <1>9, <1>10, <1>11, <1>12, <1>13,
     <1>14, <1>15, <1>16, <1>17, <1>18, <1>19, <1>20, <1>21
     DEF Next, Stage, Work, Discord

\* No chunk is sent twice.
LEMMA PostStep ==
    ASSUME OutboxInv, [Next]_vars
    PROVE  PostInv'
<1> DEFINE Goal == PostInv'
<1> USE TypeParts DEF OutboxInv
<1>1. ASSUME NEW n \in Notes, StageNote(n)
      PROVE  Goal
  BY <1>1 DEF StageNote, PostInv, staging, discord
<1>2. ASSUME NEW j \in Jobs, StageFinal(j)
      PROVE  Goal
  BY <1>2 DEF StageFinal, PostInv, staging, discord
<1>3. ASSUME NEW j \in Jobs, ConfirmFirst(j)
      PROVE  Goal
  BY <1>3 DEF ConfirmFirst, PostInv, staging, discord
<1>4. ASSUME NEW i \in Items, Load(i)
      PROVE  Goal
  BY <1>4 DEF Load, PostInv, staging, discord
<1>5. ASSUME NEW h \in Channels, CompleteConfirmed(h)
      PROVE  Goal
  BY <1>5 DEF CompleteConfirmed, PostInv, staging, discord
<1>6. ASSUME NEW h \in Channels, CheckOrder(h)
      PROVE  Goal
  BY <1>6 DEF CheckOrder, PostInv, staging, discord
<1>7. ASSUME NEW h \in Channels, Begin(h)
      PROVE  Goal
  BY <1>7, AtShape
     DEF Begin, PostInv, HandInv, TablesOK, LaneInv, Claimable, discord
<1>8. ASSUME NEW h \in Channels, BeginTried(h)
      PROVE  Goal
  BY <1>8 DEF BeginTried, PostInv, staging, discord
<1>9. ASSUME NEW h \in Channels, Complete(h)
      PROVE  Goal
  BY <1>9 DEF Complete, PostInv, staging, discord
<1>10. ASSUME NEW h \in Channels, Send(h)
      PROVE  Goal
  BY <1>10, AtShape
     DEF Send, PostInv, HandInv, TablesOK, LaneInv, discord
<1>11. ASSUME NEW h \in Channels, Timeout(h)
      PROVE  Goal
  BY <1>11 DEF Timeout, PostInv, staging, discord
<1>12. ASSUME NEW h \in Channels, AnswerLost(h)
      PROVE  Goal
  BY <1>12 DEF AnswerLost, PostInv, staging, discord
<1>13. ASSUME NEW h \in Channels, Confirm(h)
      PROVE  Goal
  BY <1>13, AtShape
     DEF Confirm, PostInv, HandInv, TablesOK, LaneInv, discord
<1>14. ASSUME NEW h \in Channels, AlreadyConfirmed(h)
      PROVE  Goal
  BY <1>14 DEF AlreadyConfirmed, PostInv, staging, discord
<1>15. ASSUME NEW h \in Channels, RecordError(h)
      PROVE  Goal
  BY <1>15, AtShape
     DEF RecordError, PostInv, HandInv, TablesOK, LaneInv, AfterError, discord
<1>16. ASSUME NEW x \in Chunks, Accept(x)
      PROVE  Goal
  BY <1>16, AtShape
     DEF Accept, PostInv, HandInv, TablesOK, LaneInv, Places, discord
<1>17. ASSUME NEW x \in Chunks, Reject(x)
      PROVE  Goal
  BY <1>17, AtShape
     DEF Reject, PostInv, HandInv, TablesOK, LaneInv, Places, discord
<1>18. ASSUME NEW x \in Chunks, Echo(x)
      PROVE  Goal
  BY <1>18, AtShape
     DEF Echo, PostInv, HandInv, TablesOK, LaneInv, discord
<1>19. ASSUME NEW x \in Chunks, EchoLost(x)
      PROVE  Goal
  BY <1>19, AtShape
     DEF EchoLost, PostInv, HandInv, TablesOK, LaneInv, discord
<1>20. CASE Crash
  BY <1>20 DEF Crash, Fault, PostInv, staging, discord
<1>21. CASE UNCHANGED vars
  BY <1>21 DEF vars, PostInv, staging, discord
<1> QED
  BY <1>1, <1>2, <1>3, <1>4, <1>5, <1>6, <1>7, <1>8, <1>9, <1>10, <1>11, <1>12, <1>13,
     <1>14, <1>15, <1>16, <1>17, <1>18, <1>19, <1>20, <1>21
     DEF Next, Stage, Work, Discord

\* A lane knows of the chunk in its hands.
LEMMA HandStep ==
    ASSUME OutboxInv, [Next]_vars
    PROVE  HandInv'
<1> DEFINE Goal == HandInv'
<1> USE TypeParts DEF OutboxInv
<1>1. ASSUME NEW n \in Notes, StageNote(n)
      PROVE  Goal
  BY <1>1 DEF StageNote, HandInv, At, staging, discord
<1>2. ASSUME NEW j \in Jobs, StageFinal(j)
      PROVE  Goal
  BY <1>2 DEF StageFinal, HandInv, At, staging, discord
<1>3. ASSUME NEW j \in Jobs, ConfirmFirst(j)
      PROVE  Goal
  BY <1>3 DEF ConfirmFirst, HandInv, At, staging, discord
<1>4. ASSUME NEW i \in Items, Load(i)
      PROVE  Goal
  BY <1>4, AtShape, OwnerShape, ChunkShape, LoadShape
     DEF Load, HandInv, PostInv, TablesOK, LaneInv, At, discord
<1>5. ASSUME NEW h \in Channels, CompleteConfirmed(h)
      PROVE  Goal
  <2>1. /\ lane'[h].pc \in {"order", "idle"}
        /\ \A k \in Channels : k # h => lane'[k] = lane[k]
    BY <1>5, GotoShape, RestShape DEF CompleteConfirmed, Places
  <2> QED BY <1>5, <2>1 DEF CompleteConfirmed, HandInv, At, discord
<1>6. ASSUME NEW h \in Channels, CheckOrder(h)
      PROVE  Goal
  <2>1. /\ lane'[h].pc \in {"begin", "idle"}
        /\ \A k \in Channels : k # h => lane'[k] = lane[k]
    BY <1>6, GotoShape, RestShape DEF CheckOrder, Places
  <2> QED BY <1>6, <2>1 DEF CheckOrder, HandInv, At, discord
<1>7. ASSUME NEW h \in Channels, Begin(h)
      PROVE  Goal
  <2> DEFINE x == Chunk(h)
  <2>1. /\ lane'[h].pc = "send" /\ lane'[h].item = lane[h].item /\ lane'[h].part = lane[h].part
        /\ \A k \in Channels : k # h => lane'[k] = lane[k]
    BY <1>7, GotoShape DEF Begin, Places
  <2>2. x \in Chunks /\ At(h, x) /\ \A y \in Chunks : At(h, y) => y = x
    BY <1>7, AtShape DEF Begin, Item
  <2>3. \A k \in Channels : k # h /\ lane[k].pc # "idle" => ~At(k, x)
    BY <1>7, <2>2 DEF Begin, LaneInv, At
  <2>4. /\ receipt'[x] = "unknown" /\ \A y \in Chunks : y # x => receipt'[y] = receipt[y]
        /\ wire[x] + shown[x] = 0
    BY <1>7, <2>2 DEF Begin, Claimable, TablesOK, PostInv
  <2> QED BY <1>7, <2>1, <2>2, <2>3, <2>4 DEF Begin, HandInv, At, discord
<1>8. ASSUME NEW h \in Channels, BeginTried(h)
      PROVE  Goal
  <2>1. /\ lane'[h].pc \in {"begin", "idle"}
        /\ \A k \in Channels : k # h => lane'[k] = lane[k]
    BY <1>8, NextPartShape, RestShape DEF BeginTried, Item
  <2> QED BY <1>8, <2>1 DEF BeginTried, HandInv, At, discord
<1>9. ASSUME NEW h \in Channels, Complete(h)
      PROVE  Goal
  <2>1. lane'[h].pc = "idle" /\ \A k \in Channels : k # h => lane'[k] = lane[k]
    BY <1>9, RestShape DEF Complete
  <2> QED BY <1>9, <2>1 DEF Complete, HandInv, At, discord
<1>10. ASSUME NEW h \in Channels, Send(h)
      PROVE  Goal
  BY <1>10, AtShape, OwnerShape, ChunkShape, GotoShape
     DEF Send, HandInv, PostInv, TablesOK, LaneInv, At, Places, discord
<1>11. ASSUME NEW h \in Channels, Timeout(h)
      PROVE  Goal
  <2>1. lane'[h].pc = "idle" /\ \A k \in Channels : k # h => lane'[k] = lane[k]
    BY <1>11, RestShape DEF Timeout
  <2> QED BY <1>11, <2>1 DEF Timeout, HandInv, At, discord
<1>12. ASSUME NEW h \in Channels, AnswerLost(h)
      PROVE  Goal
  BY <1>12, AtShape, OwnerShape, ChunkShape, GotoShape
     DEF AnswerLost, HandInv, PostInv, TablesOK, LaneInv, At, Places, discord
<1>13. ASSUME NEW h \in Channels, Confirm(h)
      PROVE  Goal
  <2> DEFINE x == Chunk(h)
  <2>1. lane'[h].pc = "begin" /\ \A k \in Channels : k # h => lane'[k] = lane[k]
    BY <1>13, NextPartShape DEF Confirm, LaneInv
  <2>2. x \in Chunks /\ At(h, x)
    BY <1>13, AtShape DEF Confirm, LaneInv
  <2>3. \A k \in Channels : k # h /\ lane[k].pc # "idle" => ~At(k, x)
    BY <1>13, <2>2 DEF Confirm, LaneInv, At
  <2>4. \A y \in Chunks : y # x => receipt'[y] = receipt[y]
    BY <1>13 DEF Confirm, TablesOK
  <2> QED BY <1>13, <2>1, <2>3, <2>4 DEF Confirm, HandInv, At, discord
<1>14. ASSUME NEW h \in Channels, AlreadyConfirmed(h)
      PROVE  Goal
  <2>1. lane'[h].pc = "begin" /\ \A k \in Channels : k # h => lane'[k] = lane[k]
    BY <1>14, NextPartShape DEF AlreadyConfirmed, LaneInv
  <2> QED BY <1>14, <2>1 DEF AlreadyConfirmed, HandInv, At, discord
<1>15. ASSUME NEW h \in Channels, RecordError(h)
      PROVE  Goal
  <2> DEFINE x == Chunk(h)
  <2>1. lane'[h].pc = "idle" /\ \A k \in Channels : k # h => lane'[k] = lane[k]
    BY <1>15, RestShape DEF RecordError
  <2>2. x \in Chunks /\ At(h, x)
    BY <1>15, AtShape DEF RecordError, LaneInv
  <2>3. \A k \in Channels : k # h /\ lane[k].pc # "idle" => ~At(k, x)
    BY <1>15, <2>2 DEF RecordError, LaneInv, At
  <2>4. \A y \in Chunks : y # x => receipt'[y] = receipt[y]
    BY <1>15 DEF RecordError, TablesOK
  <2> QED BY <1>15, <2>1, <2>3, <2>4 DEF RecordError, HandInv, At, discord
<1>16. ASSUME NEW x \in Chunks, Accept(x)
      PROVE  Goal
  <2>1. /\ wire' = [wire EXCEPT ![x] = wire[x] - 1] /\ wire[x] > 0
        /\ shown' = [shown EXCEPT ![x] = shown[x] + 1] /\ UNCHANGED receipt
    BY <1>16 DEF Accept
  <2>2. /\ \A y \in Chunks : y # x => wire'[y] = wire[y] /\ shown'[y] = shown[y]
        /\ wire'[x] + shown'[x] = wire[x] + shown[x] /\ shown'[x] > 0
    BY <2>1 DEF TablesOK
  <2>3. CASE UNCHANGED lane
    BY <2>1, <2>2, <2>3 DEF HandInv, At, TablesOK
  <2>4. CASE Answer(x, "confirm")
    <3> DEFINE g == ChannelFor(x[1])
    <3>1. /\ g \in Channels
          /\ lane'[g].pc = "confirm"
          /\ lane'[g].item = lane[g].item /\ lane'[g].part = lane[g].part
          /\ \A k \in Channels : k # g => lane'[k] = lane[k]
      BY <2>4, AnswerShape DEF Places
    <3>2. At(g, x)
      BY <2>4, AnswerShape DEF Places
    <3>3. \A y \in Chunks : At(g, y) => y = x
      BY <3>1, <3>2, AtShape
    <3> QED BY <2>1, <2>2, <3>1, <3>3 DEF HandInv, At
  <2> QED BY <1>16, <2>3, <2>4 DEF Accept
<1>17. ASSUME NEW x \in Chunks, Reject(x)
      PROVE  Goal
  <2>1. /\ wire' = [wire EXCEPT ![x] = wire[x] - 1] /\ wire[x] > 0
        /\ UNCHANGED <<receipt, shown>>
    BY <1>17 DEF Reject
  <2>2. CASE UNCHANGED lane
    BY <2>1, <2>2 DEF HandInv, At, TablesOK, PostInv
  <2>3. ASSUME NEW p \in {"refused", "limited"}, Answer(x, p)
        PROVE  Goal
    <3> DEFINE g == ChannelFor(x[1])
    <3>1. /\ g \in Channels /\ lane[g].pc = "await" /\ At(g, x)
          /\ lane'[g].pc = p /\ lane'[g].item = lane[g].item /\ lane'[g].part = lane[g].part
          /\ \A k \in Channels : k # g => lane'[k] = lane[k]
      BY <2>3, AnswerShape DEF Places
    <3>2. \A k \in Channels : k # g /\ lane[k].pc # "idle" => ~At(k, x)
      BY <3>1 DEF LaneInv, At
    <3>3. receipt[x] = "unknown" /\ wire'[x] + shown'[x] = 0
      BY <2>1, <3>1 DEF HandInv, PostInv, TablesOK
    <3>4. \A y \in Chunks : y # x => wire'[y] = wire[y]
      BY <2>1 DEF TablesOK
    <3>5. \A y \in Chunks : At(g, y) => y = x
      BY <3>1, AtShape
    <3> QED BY <2>1, <3>1, <3>2, <3>3, <3>4, <3>5 DEF HandInv, At
  <2> QED BY <1>17, <2>2, <2>3 DEF Reject
<1>18. ASSUME NEW x \in Chunks, Echo(x)
      PROVE  Goal
  BY <1>18, AtShape, OwnerShape, ChunkShape
     DEF Echo, HandInv, PostInv, TablesOK, LaneInv, At, discord
<1>19. ASSUME NEW x \in Chunks, EchoLost(x)
      PROVE  Goal
  BY <1>19 DEF EchoLost, HandInv, At, staging, discord
<1>20. CASE Crash
  BY <1>20, AtShape, OwnerShape, ChunkShape, IdleShape
     DEF Crash, Fault, HandInv, TablesOK, At, discord
<1>21. CASE UNCHANGED vars
  BY <1>21 DEF vars, HandInv, At, staging, discord
<1> QED
  BY <1>1, <1>2, <1>3, <1>4, <1>5, <1>6, <1>7, <1>8, <1>9, <1>10, <1>11, <1>12, <1>13,
     <1>14, <1>15, <1>16, <1>17, <1>18, <1>19, <1>20, <1>21
     DEF Next, Stage, Work, Discord

\* What a step never takes back: a message, a receipt of a message, a first reply,
\* the place of an item and what comes before it.
LEMMA Kept ==
    ASSUME OutboxInv, [Next]_vars
    PROVE  /\ \A x \in Chunks : shown[x] > 0 => shown'[x] > 0
           /\ \A x \in Chunks : receipt[x] = "delivered" => receipt'[x] = "delivered"
           /\ first \subseteq first'
<1> USE TypeParts DEF OutboxInv
<1>1. \A x \in Chunks : shown[x] > 0 => shown'[x] > 0
  <2>1. UNCHANGED shown \/ \E y \in Chunks : shown' = [shown EXCEPT ![y] = @ + 1]
    BY DEF Next, Stage, Work, Discord, StageNote, StageFinal, ConfirmFirst, Load,
       CompleteConfirmed, CheckOrder, Begin, BeginTried, Complete, Send,
       Timeout, AnswerLost, Confirm, AlreadyConfirmed, RecordError, Accept, Reject, Echo,
       EchoLost, Crash, vars, discord
  <2> QED BY <2>1 DEF TablesOK
<1>2. \A x \in Chunks : receipt[x] = "delivered" => receipt'[x] = "delivered"
  <2>1. CASE UNCHANGED receipt
    BY <2>1
  <2>2. ASSUME NEW h \in Channels, Begin(h)
        PROVE  \A x \in Chunks : receipt[x] = "delivered" => receipt'[x] = "delivered"
    BY <2>2 DEF Begin, Claimable, TablesOK
  <2>3. ASSUME NEW h \in Channels, Confirm(h)
        PROVE  \A x \in Chunks : receipt[x] = "delivered" => receipt'[x] = "delivered"
    BY <2>3 DEF Confirm, TablesOK
  <2>4. ASSUME NEW h \in Channels, RecordError(h)
        PROVE  \A x \in Chunks : receipt[x] = "delivered" => receipt'[x] = "delivered"
    BY <2>4 DEF RecordError, TablesOK
  <2>5. ASSUME NEW y \in Chunks, Echo(y)
        PROVE  \A x \in Chunks : receipt[x] = "delivered" => receipt'[x] = "delivered"
    BY <2>5 DEF Echo, TablesOK
  <2> QED
    BY <2>1, <2>2, <2>3, <2>4, <2>5
       DEF Next, Stage, Work, Discord, StageNote, StageFinal, ConfirmFirst, Load,
       CompleteConfirmed, CheckOrder, BeginTried, Complete, Send, Timeout,
       AnswerLost, AlreadyConfirmed, Accept, Reject, EchoLost, Crash, vars
<1>3. first \subseteq first'
  BY DEF Next, Stage, Work, Discord, StageNote, StageFinal, ConfirmFirst, Load,
     CompleteConfirmed, CheckOrder, Begin, BeginTried, Complete, Send,
     Timeout, AnswerLost, Confirm, AlreadyConfirmed, RecordError, Accept, Reject, Echo,
     EchoLost, Crash, vars, staging, Delete
<1> QED BY <1>1, <1>2, <1>3

\* What is finished stays so.
LEMMA FinishedKept ==
    ASSUME OutboxInv, [Next]_vars, NEW i \in Items, Finished(i)
    PROVE  Finished(i)'
BY Kept, ChunkShape DEF Finished

\* An item that was staged keeps its place, and nothing slips in before it.
LEMMA PlaceKept ==
    ASSUME OutboxInv, [Next]_vars, NEW i \in Items, born[i] # 0
    PROVE  born'[i] = born[i] /\ Earlier(i)' = Earlier(i)
<1> USE TypeParts DEF OutboxInv
<1>1. CASE UNCHANGED born
  BY <1>1 DEF Earlier
<1>2. ASSUME NEW n \in Notes, StageNote(n)
      PROVE  born'[i] = born[i] /\ Earlier(i)' = Earlier(i)
  <2>1. /\ n \in Items /\ born[n] # 0 => born'[n] = born[n]
        /\ born[n] = 0 => born'[n] = clock + 1
        /\ \A k \in Items : k # n => born'[k] = born[k]
    BY <1>2, OwnerShape, InsertShape DEF StageNote
  <2>2. born'[i] = born[i]
    BY <2>1
  <2>3. n \in NotesOf(Owner(i)) => i \notin Jobs
    BY <1>2, OwnerShape DEF StageNote, Progressing, RowInv, RowAt
  <2>4. \A m \in NotesOf(Owner(i)) :
           (born'[m] # 0 /\ (i \in Jobs \/ born'[m] < born'[i]))
             <=> (born[m] # 0 /\ (i \in Jobs \/ born[m] < born[i]))
    BY <2>1, <2>2, <2>3, OwnerShape DEF RowInv, RowAt, StagingOK
  <2> QED BY <2>2, <2>4 DEF Earlier
<1>3. ASSUME NEW j \in Jobs, StageFinal(j)
      PROVE  born'[i] = born[i] /\ Earlier(i)' = Earlier(i)
  <2>1. /\ born[j] = 0
        /\ \A k \in Items : k # j => born'[k] = born[k]
    BY <1>3, OwnerShape, InsertShape DEF StageFinal, RowInv, RowAt
  <2>2. \A m \in NotesOf(Owner(i)) : born'[m] = born[m]
    BY <2>1, OwnerShape
  <2> QED BY <2>1, <2>2 DEF Earlier
<1> QED
  BY <1>1, <1>2, <1>3
     DEF Next, Stage, Work, Discord, ConfirmFirst, Load, CompleteConfirmed, CheckOrder,
     Begin, BeginTried, Complete, Send, Timeout, AnswerLost, Confirm,
     AlreadyConfirmed, RecordError, Accept, Reject, Echo, EchoLost, Crash, vars, staging,
     Delete

\* Rows and their history.
LEMMA RowStep ==
    ASSUME OutboxInv, [Next]_vars
    PROVE  RowInv'
<1> USE TypeParts DEF OutboxInv
<1> SUFFICES ASSUME NEW i \in Items
             PROVE  RowAt(i)'
  BY DEF RowInv
<1>0. RowAt(i) /\ (Finished(i) => Finished(i)')
  BY FinishedKept DEF RowInv
<1>1. CASE UNCHANGED <<rank, born, clock, closed>>
  BY <1>0, <1>1 DEF RowAt
<1>2. ASSUME NEW n \in Notes, StageNote(n)
      PROVE  RowAt(i)'
  <2>1. n \in Items /\ rank[n] = 0 /\ Insert(n) /\ UNCHANGED closed
    BY <1>2, OwnerShape DEF StageNote
  <2> QED BY <1>0, <2>1, InsertShape, OwnerShape DEF RowAt, StagingOK
<1>3. ASSUME NEW j \in Jobs, StageFinal(j)
      PROVE  RowAt(i)'
  <2>1. j \in Items /\ j \notin closed /\ Insert(j) /\ closed' = closed \cup {j}
    BY <1>3, OwnerShape DEF StageFinal
  <2>2. born[j] = 0
    BY <2>1 DEF RowInv, RowAt
  <2> QED BY <1>0, <2>1, <2>2, InsertShape DEF RowAt, StagingOK
<1>4. ASSUME NEW h \in Channels, lane[h].pc # "idle", Delete(lane[h].item),
             \A y \in Parts(lane[h].item) : receipt[y] = "delivered"
      PROVE  RowAt(i)'
  <2>1. lane[h].item \in Items
    BY AtShape
  <2>2. Finished(lane[h].item)
    BY <1>4, <2>1, ChunkShape DEF PostInv, Finished
  <2> QED BY <1>0, <1>4, <2>1, <2>2, DeleteShape DEF RowAt, StagingOK
<1>5. ASSUME NEW h \in Channels, Complete(h)
      PROVE  RowAt(i)'
  <2>1. \A y \in Parts(lane[h].item) : y[2] < lane[h].part
    BY <1>5, AtShape, ChunkShape DEF Complete, Item
  <2> QED BY <1>4, <1>5, <2>1, AtShape DEF Complete, Item, TurnInv, TurnAt
<1>6. ASSUME NEW h \in Channels, CompleteConfirmed(h)
      PROVE  RowAt(i)'
  BY <1>1, <1>4, <1>6 DEF CompleteConfirmed, Skipped, Item, staging
<1> QED
  BY <1>1, <1>2, <1>3, <1>5, <1>6
     DEF Next, Stage, Work, Discord, ConfirmFirst, Load, CheckOrder, Begin,
     BeginTried, Send, Timeout, AnswerLost, Confirm, AlreadyConfirmed, RecordError,
     Accept, Reject, Echo, EchoLost, Crash, vars, staging, discord

\* Only the start of an attempt gives a chunk its receipt.
LEMMA FirstTry ==
    ASSUME OutboxInv, [Next]_vars, NEW x \in Chunks, receipt[x] = "none", receipt'[x] # "none"
    PROVE  \E h \in Channels : Begin(h) /\ x = Chunk(h)
<1> USE TypeParts DEF OutboxInv
<1>1. ASSUME NEW h \in Channels, Begin(h)
      PROVE  x = Chunk(h)
  BY <1>1 DEF Begin, TablesOK
<1>2. ASSUME NEW h \in Channels, Confirm(h)
      PROVE  FALSE
  <2>1. Chunk(h) = x
    BY <1>2 DEF Confirm, TablesOK
  <2> QED BY <1>2, <2>1, AtShape DEF Confirm, HandInv, PostInv, TablesOK
<1>3. ASSUME NEW h \in Channels, RecordError(h)
      PROVE  FALSE
  <2>1. Chunk(h) = x
    BY <1>3 DEF RecordError, TablesOK
  <2> QED BY <1>3, <2>1, AtShape DEF RecordError, HandInv
<1>4. ASSUME NEW y \in Chunks, Echo(y)
      PROVE  FALSE
  BY <1>4 DEF Echo, TablesOK
<1> QED
  BY <1>1, <1>2, <1>3, <1>4
     DEF Next, Stage, Work, Discord, StageNote, StageFinal, ConfirmFirst, Load,
     CompleteConfirmed, CheckOrder, BeginTried, Complete, Send, Timeout, AnswerLost,
     AlreadyConfirmed, Accept, Reject, EchoLost, Crash, vars, staging, discord

\* An item in its turn stays so.
LEMMA InTurnKept ==
    ASSUME OutboxInv, [Next]_vars, NEW i \in Items, born[i] # 0, InTurn(i)
    PROVE  InTurn(i)'
<1>1. Earlier(i)' = Earlier(i) /\ \A n \in Earlier(i) : n \in Items
  BY PlaceKept, OwnerShape DEF Earlier
<1> QED BY <1>1, Kept, FinishedKept DEF InTurn

\* What was tried was tried in its turn.
LEMMA TriedStep ==
    ASSUME OutboxInv, [Next]_vars
    PROVE  TriedInv'
<1> USE TypeParts DEF OutboxInv
<1> SUFFICES ASSUME NEW x \in Chunks, receipt'[x] # "none"
             PROVE  /\ born'[x[1]] # 0 /\ InTurn(x[1])'
                    /\ \A y \in Parts(x[1]) : y[2] < x[2] => receipt'[y] = "delivered"
  BY DEF TriedInv
<1>1. x[1] \in Items /\ \A y \in Parts(x[1]) : y \in Chunks
  BY ChunkShape
<1>2. /\ born[x[1]] # 0 /\ InTurn(x[1])
      /\ \A y \in Parts(x[1]) : y[2] < x[2] => receipt[y] = "delivered"
  <2>1. CASE receipt[x] # "none"
    BY <2>1 DEF TriedInv
  <2>2. CASE receipt[x] = "none"
    <3>1. PICK h \in Channels : Begin(h) /\ x = Chunk(h)
      BY <2>2, FirstTry
    <3>2. x[1] = lane[h].item /\ x[2] = lane[h].part /\ lane[h].pc = "begin"
      BY <3>1 DEF Begin, Chunk
    <3> QED BY <1>1, <3>2 DEF TurnInv, TurnAt, LaneInv, RowInv, RowAt
  <2> QED BY <2>1, <2>2
<1>3. born'[x[1]] # 0 /\ InTurn(x[1])'
  BY <1>1, <1>2, PlaceKept, InTurnKept
<1> QED BY <1>1, <1>2, <1>3, Kept

\* A lane that rests, stays, or moves on with its chunk stays in its turn.
LEMMA TurnCarried ==
    ASSUME OutboxInv, [Next]_vars, NEW h \in Channels,
           \/ lane'[h].pc = "idle"
           \/ lane'[h] = lane[h]
           \/ /\ lane[h].pc # "idle"
              /\ lane'[h].item = lane[h].item /\ lane'[h].part = lane[h].part
              /\ lane[h].pc \notin {"check", "order"} \/ lane'[h].pc \in {"check", "order"}
    PROVE  TurnAt(h)'
<1> USE TypeParts DEF OutboxInv
<1>1. CASE lane'[h].pc = "idle"
  BY <1>1 DEF TurnAt
<1>2. CASE /\ lane[h].pc # "idle"
           /\ lane'[h].item = lane[h].item /\ lane'[h].part = lane[h].part
           /\ lane[h].pc \notin {"check", "order"} \/ lane'[h].pc \in {"check", "order"}
  <2> SUFFICES ASSUME NEW i \in Items, lane[h].item = i
               PROVE  /\ \A y \in Parts(i) : y[2] < lane[h].part => receipt'[y] = "delivered"
                      /\ lane[h].pc \notin {"check", "order"} => InTurn(i)'
    BY <1>2 DEF TurnAt
  <2>1. /\ \A y \in Parts(i) : y[2] < lane[h].part => receipt[y] = "delivered"
        /\ lane[h].pc \notin {"check", "order"} => InTurn(i)
    BY <1>2 DEF TurnInv, TurnAt
  <2>2. born[i] # 0
    BY <1>2 DEF LaneInv, RowInv, RowAt
  <2> QED BY <2>1, <2>2, ChunkShape, Kept, InTurnKept
<1>3. CASE lane'[h] = lane[h]
  BY <1>1, <1>2, <1>3
<1> QED BY <1>1, <1>2, <1>3

\* A lane whose chunk is delivered goes on to the next one.
LEMMA TurnAdvanced ==
    ASSUME OutboxInv, [Next]_vars, NEW h \in Channels, NextPart(h),
           lane[h].pc \notin {"idle", "check", "order"},
           lane[h].part <= PartsOf[lane[h].item], receipt'[Chunk(h)] = "delivered"
    PROVE  TurnAt(h)'
<1> USE TypeParts DEF OutboxInv
<1>1. /\ lane'[h].pc = "begin" /\ lane'[h].item = lane[h].item
      /\ lane'[h].part = lane[h].part + 1
  BY NextPartShape
<1> SUFFICES ASSUME NEW i \in Items, lane[h].item = i
             PROVE  /\ \A y \in Parts(i) : y[2] < lane[h].part + 1 => receipt'[y] = "delivered"
                    /\ InTurn(i)'
  BY <1>1 DEF TurnAt
<1>2. InTurn(i) /\ \A y \in Parts(i) : y[2] < lane[h].part => receipt[y] = "delivered"
  BY DEF TurnInv, TurnAt
<1>3. born[i] # 0
  BY DEF LaneInv, RowInv, RowAt
<1>4. \A y \in Parts(i) : y \in Chunks /\ y[2] \in Nat /\ (y[2] = lane[h].part => y = Chunk(h))
  BY ChunkShape DEF Chunk
<1>5. ASSUME NEW y \in Parts(i), y[2] < lane[h].part + 1
      PROVE  receipt'[y] = "delivered"
  <2>1. y[2] < lane[h].part \/ y[2] = lane[h].part
    BY <1>4, <1>5, AtShape
  <2> QED BY <1>2, <1>4, <2>1, Kept
<1> QED BY <1>2, <1>3, <1>5, InTurnKept

\* The check of the order: commentary before the item that is still in its outbox was
\* staged again after it was delivered.
LEMMA ReadyInTurn ==
    ASSUME OutboxInv, NEW i \in Items, Pending(i), Ready(i)
    PROVE  InTurn(i)
<1> USE TypeParts DEF OutboxInv
<1> SUFFICES ASSUME NEW n \in Earlier(i)
             PROVE  Finished(n)
  BY DEF InTurn, Ready
<1>1. /\ n \in NotesOf(Owner(i)) /\ n \in Items
      /\ born[n] # 0 /\ (i \in Jobs \/ born[n] < born[i])
  BY OwnerShape DEF Earlier
<1>2. rank[n] # born[n]
  <2>1. CASE rank[n] = 0
    BY <1>1, <2>1
  <2>2. CASE rank[n] # 0
    <3>1. i \in Notes /\ rank[n] >= rank[i]
      BY <1>1, <2>2 DEF Ready, Pending
    <3>2. born[n] < born[i] /\ born[i] <= rank[i]
      BY <1>1, <3>1, OwnerShape DEF RowInv, RowAt, Pending
    <3> QED BY <1>1, <3>1, <3>2 DEF StagingOK
  <2> QED BY <2>1, <2>2
<1> QED BY <1>1, <1>2 DEF RowInv, RowAt

\* A lane works in the turn of its item.
LEMMA TurnStep ==
    ASSUME OutboxInv, [Next]_vars
    PROVE  TurnInv'
<1> USE TypeParts DEF OutboxInv
<1> SUFFICES ASSUME NEW k \in Channels
             PROVE  TurnAt(k)'
  BY DEF TurnInv
<1>1. CASE UNCHANGED lane
  BY <1>1, TurnCarried
<1>2. CASE Crash
  BY <1>2, TurnCarried, IdleShape DEF Crash
<1>3. ASSUME NEW i \in Items, Load(i)
      PROVE  TurnAt(k)'
  <2>1. CASE k # ChannelFor(i)
    BY <1>3, <2>1, LoadShape, TurnCarried
  <2>2. CASE k = ChannelFor(i)
    BY <1>3, <2>2, LoadShape, ChunkShape DEF TurnAt
  <2> QED BY <2>1, <2>2
<1>4. ASSUME NEW h \in Channels, Rest(h)
      PROVE  TurnAt(k)'
  BY <1>4, RestShape, TurnCarried
<1>5. ASSUME NEW h \in Channels, NEW p \in Places, Goto(h, p), lane[h].pc # "idle",
             lane[h].pc \notin {"check", "order"} \/ p \in {"check", "order"}
      PROVE  TurnAt(k)'
  BY <1>5, GotoShape, TurnCarried
<1>6. ASSUME NEW h \in Channels, NextPart(h), lane[h].pc \notin {"idle", "check", "order"},
             lane[h].part <= PartsOf[lane[h].item], receipt'[Chunk(h)] = "delivered"
      PROVE  TurnAt(k)'
  BY <1>6, NextPartShape, TurnCarried, TurnAdvanced
<1>7. ASSUME NEW h \in Channels, CheckOrder(h)
      PROVE  TurnAt(k)'
  <2>1. CASE Rest(h)
    BY <1>4, <2>1
  <2>2. CASE Ready(lane[h].item) /\ Goto(h, "begin")
    <3>1. /\ lane'[h].pc = "begin" /\ lane'[h].item = lane[h].item
          /\ lane'[h].part = lane[h].part
          /\ \A g \in Channels : g # h => lane'[g] = lane[g]
      BY <2>2, GotoShape DEF Places
    <3>2. CASE k # h
      BY <3>1, <3>2, TurnCarried
    <3>3. CASE k = h
      <4>0. lane[h].pc = "order" /\ lane[h].item \in Items /\ lane[h].part = 1
        BY <1>7, AtShape DEF CheckOrder, LaneInv
      <4> SUFFICES ASSUME NEW i \in Items, lane[h].item = i
                   PROVE  InTurn(i)' /\ \A y \in Parts(i) : ~ (y[2] < 1)
        BY <3>1, <3>3, <4>0 DEF TurnAt
      <4>1. Pending(i) /\ born[i] # 0
        BY <4>0 DEF LaneInv, Pending, RowInv, RowAt
      <4>2. InTurn(i)
        BY <2>2, <4>1, ReadyInTurn
      <4> QED BY <4>1, <4>2, InTurnKept, ChunkShape
    <3> QED BY <3>2, <3>3
  <2> QED BY <1>7, <2>1, <2>2 DEF CheckOrder, Item
<1>8. ASSUME NEW h \in Channels, Work(h)
      PROVE  TurnAt(k)'
  <2>1. CASE CompleteConfirmed(h)
    BY <1>4, <1>5, <2>1 DEF CompleteConfirmed, Places
  <2>2. CASE Begin(h) \/ Send(h) \/ AnswerLost(h)
    BY <1>5, <2>2 DEF Begin, Send, AnswerLost, Places
  <2>3. CASE Complete(h) \/ Timeout(h) \/ RecordError(h)
    BY <1>4, <2>3 DEF Complete, Timeout, RecordError
  <2>4. CASE BeginTried(h)
    BY <1>4, <1>6, <2>4 DEF BeginTried, Skipped, Item
  <2>5. CASE Confirm(h)
    <3>1. lane[h].part <= PartsOf[lane[h].item] /\ Chunk(h) \in Chunks
      BY <2>5, AtShape DEF Confirm, LaneInv
    <3>2. receipt'[Chunk(h)] = "delivered"
      BY <2>5, <3>1 DEF Confirm, TablesOK
    <3> QED BY <1>6, <2>5, <3>1, <3>2 DEF Confirm
  <2>6. CASE AlreadyConfirmed(h)
    BY <1>6, <2>6 DEF AlreadyConfirmed, LaneInv
  <2> QED BY <1>7, <1>8, <2>1, <2>2, <2>3, <2>4, <2>5, <2>6 DEF Work
<1>9. ASSUME NEW x \in Chunks, NEW p \in Places, Answer(x, p), p # "check"
      PROVE  TurnAt(k)'
  <2> DEFINE g == ChannelFor(x[1])
  <2>1. g \in Channels /\ lane[g].pc = "await" /\ Goto(g, p)
    BY <1>9, ChunkShape, OwnerShape DEF Answer
  <2> QED BY <1>5, <2>1
<1>10. ASSUME NEW x \in Chunks, Accept(x) \/ Reject(x)
       PROVE  TurnAt(k)'
  BY <1>1, <1>9, <1>10 DEF Accept, Reject, Places
<1> QED
  BY <1>1, <1>2, <1>3, <1>8, <1>10
     DEF Next, Stage, Discord, StageNote, StageFinal, ConfirmFirst, Echo, EchoLost, vars

-----------------------------------------------------------------------------
(* The theorems.                                                              *)

\* Initially nothing is staged, tried or shown.
LEMMA InitInv == Init => OutboxInv
<1> SUFFICES ASSUME Init
             PROVE  OutboxInv
  OBVIOUS
<1>1. TypeOK
  BY IdleShape, ChunkShape DEF Init, TypeOK, Receipts, LaneState
<1>2. LaneInv /\ TurnInv
  BY IdleShape DEF Init, LaneInv, TurnInv, TurnAt
<1>3. PostInv /\ TriedInv
  BY DEF Init, PostInv, TriedInv
<1>4. HandInv
  BY IdleShape DEF Init, HandInv
<1>5. RowInv
  BY OwnerShape DEF Init, RowInv, RowAt
<1> QED BY <1>1, <1>2, <1>3, <1>4, <1>5 DEF OutboxInv

\* Every step keeps the invariant.
LEMMA NextInv == OutboxInv /\ [Next]_vars => OutboxInv'
<1> SUFFICES ASSUME OutboxInv, [Next]_vars
             PROVE  OutboxInv'
  OBVIOUS
<1>1. TypeOK'
  BY LanesStep, StagingStep, TablesStep DEF TypeOK, LanesOK, StagingOK, TablesOK
<1> QED
  BY <1>1, LaneStep, PostStep, HandStep, RowStep, TriedStep, TurnStep DEF OutboxInv

\* The outboxes, the receipts and the lanes keep the invariant whatever is lost or late.
THEOREM Invariance == Spec => []OutboxInv
BY InitInv, NextInv, PTL DEF Spec

\* The rows, the receipts and the lanes keep their types, and a lane never leaves the
\* chunks of its item.
THEOREM TypeCorrect == Spec => []TypeOK
<1>1. OutboxInv => TypeOK
  BY DEF OutboxInv
<1> QED BY <1>1, Invariance, PTL

\* No chunk of a reply is shown twice: an attempt whose outcome is unknown is never
\* repeated (begin_guarded, release_rejected).
THEOREM ShownAtMostOnce == Spec => []ShownOnce
<1>1. OutboxInv => ShownOnce
  BY TypeParts DEF OutboxInv, PostInv, ShownOnce, TablesOK
<1> QED BY <1>1, Invariance, PTL

\* The output of a request is read in order (ensure_delivery_order, final_preflight).
THEOREM OutputIsReadInOrder == Spec => []ReadInOrder
<1>1. OutboxInv => ReadInOrder
  <2> USE TypeParts DEF OutboxInv
  <2> SUFFICES ASSUME OutboxInv, NEW i \in Items, NEW c \in 1 .. PartsOf[i],
                      shown[<<i, c>>] > 0
               PROVE  /\ Owner(i) \in first
                      /\ \A d \in 1 .. (c - 1) : shown[<<i, d>>] > 0
                      /\ \A n \in Earlier(i) : \A x \in Parts(n) : shown[x] > 0
    BY DEF ReadInOrder
  <2> DEFINE x == <<i, c>>
  <2>1. x \in Chunks /\ x[1] = i /\ x[2] = c
    BY ChunkShape
  <2>2. receipt[x] # "none"
    BY <2>1 DEF PostInv, TablesOK
  <2>3. /\ InTurn(i)
        /\ \A y \in Parts(i) : y[2] < c => receipt[y] = "delivered"
    BY <2>1, <2>2 DEF TriedInv
  <2>4. ASSUME NEW d \in 1 .. (c - 1)
        PROVE  shown[<<i, d>>] > 0
    <3>1. d \in 1 .. PartsOf[i] /\ d < c
      BY ChunkShape
    <3>2. <<i, d>> \in Chunks /\ <<i, d>> \in Parts(i) /\ <<i, d>>[2] = d
      BY <3>1, ChunkShape
    <3> QED BY <2>3, <3>1, <3>2 DEF PostInv
  <2> QED BY <2>3, <2>4 DEF InTurn, Finished
<1> QED BY <1>1, Invariance, PTL

\* A staged reply leaves its outbox only when all of it is visible (Complete,
\* complete_confirmed).
THEOREM NothingIsDropped == Spec => []NothingDropped
<1>1. OutboxInv => NothingDropped
  BY DEF OutboxInv, RowInv, RowAt, NothingDropped, Finished, Pending
<1> QED BY <1>1, Invariance, PTL

=============================================================================
