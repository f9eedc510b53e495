------------------------- MODULE MessageIngressProofs -------------------------
(***************************************************************************)
(* A message is executed at most once, whatever the lanes, the poll and a  *)
(* restart do with it; what the full lane dropped stays under the gap; and *)
(* what was admitted and decided stays accounted for.                      *)
(***************************************************************************)
EXTENDS MessageIngress, SequenceTheorems, TLAPS

-----------------------------------------------------------------------------
(* The inductive invariant *)

JournalRow == [state : {"staged", "executing", "completed", "owned", "held"}, owner : BOOLEAN,
               confirmed : BOOLEAN, notice : BOOLEAN, runtime : Nat]
TaskState == [msg : Messages, pc : {"admitted", "executing", "recorded"}]
CursorState == [phase : {"none", "priming", "active"}, at : Nat]
WalkState == [pc : {"idle", "gapFetch", "gapClaim", "pollFetch", "pollClaim"},
              items : Seq(1..posted), mark : Nat, revision : Nat, reached : BOOLEAN]

NoLaneOn(m) == \A l \in Lanes : task[l].msg # m
Ended(row) == row.confirmed \/ row.owner \/ (row.state = "held" /\ row.notice)

\* A row leaves "staged" once and is executed then; a row that no lane works on has ended.
RowInv(m) ==
  /\ executed[m] <= 1
  /\ journal[m] = NoRow \/ journal[m].state = "staged" => executed[m] = 0
  /\ journal[m] # NoRow =>
       /\ journal[m].runtime <= runtime
       /\ journal[m].state = "owned" => journal[m].owner
       /\ journal[m].state = "held" => journal[m].notice
       /\ m \notin unheld /\ NoLaneOn(m) => Ended(journal[m])

DurableInv ==
  /\ runtime \in Nat
  /\ processed \subseteq 1..posted
  /\ journal \in [Messages -> JournalRow \cup {NoRow}]
  /\ executed \in [Messages -> Nat]
  /\ task \in [Lanes -> TaskState \cup {NoTask}]
  /\ \A m \in Messages : RowInv(m)
  /\ \A l \in Lanes : task[l] # NoTask => journal[task[l].msg] # NoRow

\* A dropped message lies in the gap, where the poll does not discard it, until it is
\* journaled.
CoverInv ==
  \A m \in dropped : journal[m] = NoRow =>
    gap.floor # 0 /\ gap.floor <= m /\ m \notin processed

\* The recovery of the gap, while nothing was dropped since it began: what it has left
\* to claim holds every dropped message that has no row.
WalkInv ==
  walk.pc \in {"gapFetch", "gapClaim"} =>
    /\ walk.mark # 0
    /\ walk.revision <= gap.revision
    /\ walk.revision = gap.revision =>
         /\ gap.floor = walk.mark
         /\ walk.pc = "gapClaim" /\ walk.reached =>
              \A m \in dropped : journal[m] = NoRow => \E i \in 1..Len(walk.items) : walk.items[i] = m

GatewayTypes ==
  /\ posted \in 0..MaxMessages /\ published \in 0..posted
  /\ lane \in Seq(1..posted) /\ Len(lane) <= LaneCapacity
  /\ gap \in [revision : Nat, floor : 0..posted]
  /\ cursor \in CursorState
  /\ walk \in WalkState
  /\ dropped \subseteq 1..published

IngressInv == DurableInv /\ GatewayTypes /\ CoverInv /\ WalkInv

-----------------------------------------------------------------------------
(* Rows *)

LEMMA Numbers ==
  ASSUME GatewayTypes
  PROVE  /\ posted \in Nat /\ published \in Nat /\ 1..posted \subseteq Messages /\ 0 \notin Messages
         /\ 1..published \subseteq 1..posted /\ Messages \subseteq Nat
  BY IngressConstants DEF GatewayTypes, Messages

LEMMA NoRows ==
  /\ NoRow \notin JournalRow /\ NoTask \notin TaskState /\ NoTask.msg = 0 /\ NoTask.pc = "none"
  /\ \A r \in JournalRow : r # NoRow
<1>1. NoRow.state = "none" BY DEF NoRow
<1>2. \A r \in JournalRow : r.state # "none" BY DEF JournalRow
<1>3. NoTask.pc = "none" /\ NoTask.msg = 0 BY DEF NoTask
<1>4. \A t \in TaskState : t.pc # "none" BY DEF TaskState
<1>5. QED BY <1>1, <1>2, <1>3, <1>4

\* The rows go on: none is taken back, and what is newly claimed has one.
RowsGo ==
  /\ \A m \in Messages : journal[m] # NoRow => journal'[m] # NoRow
  /\ processed \subseteq processed'
  /\ \A m \in processed' : m \notin processed => journal'[m] # NoRow

\* A step of one lane writes the row of its message.
LEMMA OneWrite ==
  ASSUME DurableInv, NEW l \in Lanes, NEW m \in Messages,
         NEW r \in JournalRow, journal' = [journal EXCEPT ![m] = r],
         NEW e \in {0, 1}, executed' = [executed EXCEPT ![m] = e],
         NEW t \in TaskState \cup {NoTask}, task' = [task EXCEPT ![l] = t],
         task[l] = NoTask \/ task[l].msg = m, t = NoTask \/ t.msg = m,
         m # 0,
         r.state = "staged" => e = 0,
         r.runtime <= runtime, r.state = "owned" => r.owner, r.state = "held" => r.notice,
         t = NoTask => Ended(r),
         UNCHANGED <<runtime, unheld, posted>>, processed' \subseteq 1..posted,
         processed \subseteq processed', \A n \in processed' : n \notin processed => n = m
  PROVE  DurableInv' /\ RowsGo
<1>1. /\ journal' \in [Messages -> JournalRow \cup {NoRow}] /\ journal'[m] = r
      /\ \A n \in Messages : n # m => journal'[n] = journal[n]
      /\ executed' \in [Messages -> Nat] /\ executed'[m] = e
      /\ \A n \in Messages : n # m => executed'[n] = executed[n]
      /\ task' \in [Lanes -> TaskState \cup {NoTask}] /\ task'[l] = t
      /\ \A k \in Lanes : k # l => task'[k] = task[k]
  BY DEF DurableInv
<1>2. r # NoRow BY NoRows
<1>3. RowInv(m)'
  <2>1. t # NoTask => ~NoLaneOn(m)' BY <1>1 DEF NoLaneOn
  <2>2. QED BY <1>1, <1>2, <2>1 DEF RowInv, Ended
<1>4. ASSUME NEW n \in Messages, n # m PROVE RowInv(n)'
  <2>1. NoLaneOn(n)' => NoLaneOn(n)
    <3> SUFFICES ASSUME NoLaneOn(n)', NEW k \in Lanes PROVE task[k].msg # n BY DEF NoLaneOn
    <3>1. CASE k = l
      <4>1. CASE task[l] = NoTask
        <5>1. n # 0 BY DEF Messages
        <5>2. QED BY <3>1, <4>1, <5>1, NoRows
      <4>2. CASE task[l].msg = m BY <1>4, <3>1, <4>2
      <4>3. QED BY <4>1, <4>2
    <3>2. CASE k # l BY <1>1, <3>2 DEF NoLaneOn
    <3>3. QED BY <3>1, <3>2
  <2>2. RowInv(n) BY DEF DurableInv
  <2>3. QED BY <1>1, <1>4, <2>1, <2>2 DEF RowInv, Ended
<1>5. ASSUME NEW k \in Lanes, task'[k] # NoTask PROVE journal'[task'[k].msg] # NoRow
  <2>1. CASE k = l BY <1>1, <1>2, <1>5, <2>1
  <2>2. CASE k # l
    <3>1. task'[k] = task[k] /\ task[k].msg \in Messages BY <1>1, <1>5, <2>2 DEF TaskState, DurableInv
    <3>2. journal[task[k].msg] # NoRow BY <1>5, <3>1 DEF DurableInv
    <3>3. QED BY <1>1, <1>2, <3>1, <3>2
  <2>3. QED BY <2>1, <2>2
<1>6. RowsGo BY <1>1, <1>2 DEF RowsGo
<1>7. QED BY <1>1, <1>3, <1>4, <1>5, <1>6 DEF DurableInv

\* Only the lane that creates the row gets the message.
LEMMA AdmitWrites ==
  ASSUME DurableInv, GatewayTypes, NEW l \in Lanes, NEW m \in 1..posted, task[l] = NoTask,
         Admit(l, m), UNCHANGED <<executed, runtime, unheld, posted>>
  PROVE  /\ DurableInv' /\ RowsGo
         /\ journal'[m] # NoRow \/ m \in processed
<1>1. m \in Messages /\ m # 0 BY Numbers
<1>2. CASE Claimed(m)
  <2>1. UNCHANGED <<processed, journal, task>> BY <1>2 DEF Admit
  <2>2. DurableInv' BY <2>1 DEF DurableInv, RowInv, NoLaneOn, Ended
  <2>3. QED BY <1>2, <2>1, <2>2 DEF Claimed, RowsGo
<1>3. CASE ~Claimed(m)
  <2>1. /\ processed' = processed \cup {m}
        /\ journal' = [journal EXCEPT ![m] = StagedRow]
        /\ task' = [task EXCEPT ![l] = [msg |-> m, pc |-> "admitted"]]
    BY <1>3 DEF Admit
  <2>2. StagedRow \in JournalRow /\ StagedRow.state = "staged" /\ StagedRow.runtime = runtime
    BY DEF StagedRow, JournalRow, DurableInv
  <2>3. executed[m] = 0 BY <1>1, <1>3 DEF Claimed, DurableInv, RowInv
  <2>4. executed' = [executed EXCEPT ![m] = 0] BY <2>3 DEF DurableInv
  <2>5. DEFINE t == [msg |-> m, pc |-> "admitted"]
  <2>6. t \in TaskState /\ t.msg = m BY <1>1 DEF TaskState
  <2>7. processed' \subseteq 1..posted BY <2>1 DEF DurableInv
  <2>8. t # NoTask BY <2>6, NoRows
  <2>9. runtime <= runtime BY DEF DurableInv
  <2> HIDE DEF t
  <2>10. DurableInv' /\ RowsGo
    BY <1>1, <2>1, <2>2, <2>4, <2>6, <2>7, <2>8, <2>9, OneWrite DEF t
  <2>11. journal'[m] = StagedRow BY <1>1, <2>1 DEF DurableInv
  <2>12. QED BY <2>2, <2>10, <2>11, NoRows
<1>4. QED BY <1>2, <1>3

-----------------------------------------------------------------------------
(* The steps of a lane on its message *)

\* What was decided about a message stands.
Decided ==
  /\ \A m \in processed : journal[m] = NoRow => journal'[m] = NoRow
  /\ \A m \in Messages :
       journal[m] # NoRow => (journal[m].state = "owned" => journal'[m].state = "owned")

LEMMA SameDecisions ==
  ASSUME UNCHANGED journal
  PROVE  Decided
  BY DEF Decided

LEMMA AdmitDecides ==
  ASSUME DurableInv, NEW l \in Lanes, NEW m \in Messages, Admit(l, m)
  PROVE  Decided
<1>1. CASE Claimed(m) BY <1>1, SameDecisions DEF Admit
<1>2. CASE ~Claimed(m)
  <2>1. /\ journal[m] = NoRow /\ m \notin processed
        /\ \A n \in Messages : n # m => journal'[n] = journal[n]
    BY <1>2 DEF Admit, Claimed, DurableInv
  <2>2. \A n \in processed : journal[n] = NoRow => journal'[n] = NoRow
    <3> SUFFICES ASSUME NEW n \in processed, journal[n] = NoRow PROVE journal'[n] = NoRow OBVIOUS
    <3>1. CASE n \in Messages BY <2>1, <3>1
    <3>2. CASE n \notin Messages
      <4>1. journal' = [journal EXCEPT ![m] = StagedRow] BY <1>2 DEF Admit
      <4>2. n # m BY <2>1
      <4>3. journal'[n] = journal[n] BY <3>2, <4>1, <4>2 DEF DurableInv
      <4>4. QED BY <4>3
    <3>3. QED BY <3>1, <3>2
  <2>3. QED BY <2>1, <2>2 DEF Decided
<1>3. QED BY <1>1, <1>2

\* A lane that works on a message has its row, which is written in place.
LEMMA Working ==
  ASSUME DurableInv, NEW l \in Lanes, task[l] # NoTask
  PROVE  /\ task[l] \in TaskState /\ task[l].msg \in Messages /\ task[l].msg # 0
         /\ journal[task[l].msg] \in JournalRow
         /\ executed[task[l].msg] \in {0, 1}
         /\ executed = [executed EXCEPT ![task[l].msg] = executed[task[l].msg]]
         /\ task = [task EXCEPT ![l] = task[l]]
         /\ RowInv(task[l].msg)
<1>1. task[l] \in TaskState /\ task[l].msg \in Messages BY DEF DurableInv, TaskState
<1>2. PICK m \in Messages : m = task[l].msg BY <1>1
<1>3. m # 0 /\ RowInv(m) /\ executed[m] \in Nat BY DEF Messages, DurableInv
<1>4. journal[m] \in JournalRow BY <1>2, <1>3 DEF DurableInv
<1>5. executed[m] <= 1 BY <1>3 DEF RowInv
<1>6. executed[m] \in {0, 1} BY <1>3, <1>5
<1>7. executed = [executed EXCEPT ![m] = executed[m]] BY DEF DurableInv
<1>8. task = [task EXCEPT ![l] = task[l]] BY DEF DurableInv
<1>9. QED BY <1>1, <1>2, <1>3, <1>4, <1>6, <1>7, <1>8

\* A write of a row that has one already decides nothing, unless it takes an owned one away.
LEMMA WriteDecides ==
  ASSUME DurableInv, NEW m \in Messages, NEW r \in JournalRow, journal[m] # NoRow,
         journal' = [journal EXCEPT ![m] = r],
         journal[m].state = "owned" => r.state = "owned"
  PROVE  Decided
<1>1. journal'[m] = r /\ \A n \in Messages : n # m => journal'[n] = journal[n] BY DEF DurableInv
<1>2. ASSUME NEW n \in processed, journal[n] = NoRow PROVE journal'[n] = NoRow
  <2>1. n # m BY <1>2
  <2>2. journal'[n] = journal[n] BY <2>1 DEF DurableInv
  <2>3. QED BY <1>2, <2>2
<1>3. QED BY <1>1, <1>2 DEF Decided

LEMMA ProcessStep ==
  ASSUME DurableInv, GatewayTypes, NEW l \in Lanes, Process(l)
  PROVE  DurableInv' /\ RowsGo /\ Decided
<1>0. task[l] # NoTask
  <2>1. NoTask.pc = "none" BY NoRows
  <2>2. QED BY <2>1 DEF Process, BeginExecution, HandOff, RecordResult, Confirm, AbandonCustody,
                        AbandonUnheld
<1>1. PICK m \in Messages : m = task[l].msg BY <1>0, Working
<1>2. /\ task[l] \in TaskState /\ m # 0 /\ journal[m] \in JournalRow /\ journal[m] # NoRow
      /\ executed[m] \in {0, 1} /\ executed = [executed EXCEPT ![m] = executed[m]]
      /\ task = [task EXCEPT ![l] = task[l]] /\ RowInv(m)
  BY <1>0, <1>1, Working, NoRows
<1>3. PICK row \in JournalRow : row = journal[m] BY <1>2
<1>4. /\ row.runtime <= runtime /\ (row.state = "staged" => executed[m] = 0)
      /\ (row.state = "owned" => row.owner) /\ (row.state = "held" => row.notice)
  BY <1>2, <1>3 DEF RowInv
<1>5. processed \subseteq 1..posted BY DEF DurableInv
<1>6. CASE BeginExecution(l)
  <2>1. PICK r \in JournalRow : r = [row EXCEPT !.state = "executing"] BY DEF JournalRow
  <2>2. r.state = "executing" /\ r.runtime = row.runtime BY <2>1 DEF JournalRow
  <2>3. PICK t \in TaskState : t = [task[l] EXCEPT !.pc = "executing"] BY <1>2 DEF TaskState
  <2>4. t.msg = m /\ t # NoTask BY <1>1, <1>2, <2>3, NoRows DEF TaskState
  <2>5. row.state = "staged" BY <1>1, <1>3, <1>6 DEF BeginExecution
  <2>6. executed[m] = 0 BY <1>4, <2>5
  <2>7. /\ journal' = [journal EXCEPT ![m] = r] /\ executed' = [executed EXCEPT ![m] = 1]
        /\ task' = [task EXCEPT ![l] = t]
        /\ UNCHANGED <<runtime, unheld, posted, processed>>
    BY <1>1, <1>3, <1>6, <2>1, <2>3, <2>6 DEF BeginExecution, gateway
  <2>8. DurableInv' /\ RowsGo
    <3>1. /\ (r.state = "staged" => 1 = 0) /\ r.runtime <= runtime
          /\ (r.state = "owned" => r.owner) /\ (r.state = "held" => r.notice)
      BY <1>4, <2>2
    <3>2. (t = NoTask => Ended(r)) /\ task[l].msg = m /\ t \in TaskState \cup {NoTask} BY <1>1, <2>4
    <3>3. /\ processed' \subseteq 1..posted /\ processed \subseteq processed'
          /\ \A n \in processed' : n \notin processed => n = m
      BY <1>5, <2>7
    <3>4. (task[l] = NoTask \/ task[l].msg = m) /\ (t = NoTask \/ t.msg = m) /\ m # 0 BY <1>2, <2>4, <3>2
    <3>5. PICK u \in TaskState \cup {NoTask} : u = t BY <3>2
    <3>6. PICK e \in {0, 1} : e = 1 BY <1>2
    <3>7. executed' = [executed EXCEPT ![m] = e] /\ task' = [task EXCEPT ![l] = u] BY <2>7, <3>5, <3>6
    <3>8. DurableInv' /\ RowsGo BY <2>7, <3>1, <3>2, <3>3, <3>4, <3>5, <3>6, <3>7, OneWrite
    <3>9. QED BY <3>8
  <2>9. Decided BY <1>2, <1>3, <2>5, <2>7, WriteDecides
  <2>10. QED BY <2>8, <2>9
<1>7. CASE HandOff(l)
  <2>1. PICK r \in JournalRow : r = [row EXCEPT !.state = "owned", !.owner = TRUE] BY DEF JournalRow
  <2>2. r.state = "owned" /\ r.owner /\ r.runtime = row.runtime BY <2>1 DEF JournalRow
  <2>3. /\ journal' = [journal EXCEPT ![m] = r] /\ executed' = [executed EXCEPT ![m] = executed[m]]
        /\ task' = [task EXCEPT ![l] = task[l]]
        /\ UNCHANGED <<runtime, unheld, posted, processed>>
    <3>1. journal' = [journal EXCEPT ![m].state = "owned", ![m].owner = TRUE] BY <1>1, <1>7 DEF HandOff
    <3>2. journal' = [journal EXCEPT ![m] = r] BY <1>3, <2>1, <3>1 DEF DurableInv
    <3>3. QED BY <1>2, <1>7, <3>2 DEF HandOff, gateway
  <2>4. DurableInv' /\ RowsGo
    <3>1. /\ (r.state = "staged" => executed[m] = 0) /\ r.runtime <= runtime
          /\ (r.state = "owned" => r.owner) /\ (r.state = "held" => r.notice)
      BY <1>4, <2>2
    <3>2. /\ (task[l] = NoTask => Ended(r)) /\ task[l].msg = m /\ task[l] \in TaskState \cup {NoTask}
      BY <1>0, <1>1, <1>2
    <3>3. processed' \subseteq 1..posted /\ processed \subseteq processed'
      BY <1>5, <2>3
    <3>4. QED BY <1>2, <2>3, <3>1, <3>2, <3>3, OneWrite
  <2>5. Decided BY <1>2, <2>2, <2>3, WriteDecides
  <2>6. QED BY <2>4, <2>5
<1>8. CASE RecordResult(l)
  <2>1. PICK r \in JournalRow : r = [row EXCEPT !.state = IF @ = "owned" THEN "owned" ELSE "completed"]
    BY DEF JournalRow
  <2>2. /\ r.state \in {"owned", "completed"} /\ r.owner = row.owner /\ r.runtime = row.runtime
        /\ r.state = "owned" <=> row.state = "owned"
    BY <2>1 DEF JournalRow
  <2>3. PICK t \in TaskState : t = [task[l] EXCEPT !.pc = "recorded"] BY <1>2 DEF TaskState
  <2>4. t.msg = m /\ t # NoTask BY <1>1, <1>2, <2>3, NoRows DEF TaskState
  <2>5. /\ journal' = [journal EXCEPT ![m] = r] /\ executed' = [executed EXCEPT ![m] = executed[m]]
        /\ task' = [task EXCEPT ![l] = t]
        /\ UNCHANGED <<runtime, unheld, posted, processed>>
    BY <1>1, <1>2, <1>3, <1>8, <2>1, <2>3 DEF RecordResult, gateway
  <2>6. r.state # "staged" /\ r.state # "held" /\ (r.state = "owned" => r.owner) BY <1>4, <2>2
  <2>7. DurableInv' /\ RowsGo
    <3>1. /\ (r.state = "staged" => executed[m] = 0) /\ r.runtime <= runtime
          /\ (r.state = "owned" => r.owner) /\ (r.state = "held" => r.notice)
      BY <1>4, <2>2, <2>6
    <3>2. (t = NoTask => Ended(r)) /\ task[l].msg = m /\ t \in TaskState \cup {NoTask} BY <1>1, <2>4
    <3>3. /\ processed' \subseteq 1..posted /\ processed \subseteq processed'
          /\ \A n \in processed' : n \notin processed => n = m
      BY <1>5, <2>5
    <3>4. (task[l] = NoTask \/ task[l].msg = m) /\ (t = NoTask \/ t.msg = m) /\ m # 0 BY <1>2, <2>4, <3>2
    <3>5. PICK u \in TaskState \cup {NoTask} : u = t BY <3>2
    <3>6. PICK e \in {0, 1} : e = executed[m] BY <1>2
    <3>7. /\ executed' = [executed EXCEPT ![m] = e] /\ task' = [task EXCEPT ![l] = u]
          /\ journal' = [journal EXCEPT ![m] = r] /\ UNCHANGED <<runtime, unheld, posted>>
          /\ (r.state = "staged" => e = 0) /\ (u = NoTask => Ended(r)) /\ (u = NoTask \/ u.msg = m)
      BY <2>5, <3>1, <3>2, <3>4, <3>5, <3>6
    <3>8. DurableInv' /\ RowsGo BY <3>1, <3>3, <3>4, <3>7, OneWrite
    <3>9. QED BY <3>8
  <2>8. Decided BY <1>2, <1>3, <2>2, <2>5, WriteDecides
  <2>9. QED BY <2>7, <2>8
<1>9. CASE Confirm(l)
  <2>1. PICK r \in JournalRow : r = [row EXCEPT !.confirmed = TRUE] BY DEF JournalRow
  <2>2. /\ r.state = row.state /\ r.owner = row.owner /\ r.runtime = row.runtime
        /\ r.notice = row.notice /\ r.confirmed
    BY <2>1 DEF JournalRow
  <2>3. /\ journal' = [journal EXCEPT ![m] = r] /\ executed' = [executed EXCEPT ![m] = executed[m]]
        /\ task' = [task EXCEPT ![l] = NoTask]
        /\ UNCHANGED <<runtime, unheld, posted, processed>>
    BY <1>1, <1>2, <1>3, <1>9, <2>1 DEF Confirm, gateway
  <2>4. Ended(r) BY <2>2 DEF Ended
  <2>5. DurableInv' /\ RowsGo
    BY <1>1, <1>4, <1>5, <1>2, <2>2, <2>3, <2>4, OneWrite
  <2>6. Decided BY <1>2, <1>3, <2>2, <2>3, WriteDecides
  <2>7. QED BY <2>5, <2>6
<1>10. CASE AbandonCustody(l)
  <2>1. PICK r \in JournalRow : r = HeldRow(row) BY DEF JournalRow, HeldRow
  <2>2. CASE row.owner
    <3>1. r = row BY <2>1, <2>2 DEF HeldRow
    <3>2. QED
      <4>1. /\ journal' = [journal EXCEPT ![m] = r] /\ executed' = [executed EXCEPT ![m] = executed[m]]
            /\ task' = [task EXCEPT ![l] = NoTask]
            /\ UNCHANGED <<runtime, unheld, posted, processed>>
        BY <1>1, <1>2, <1>3, <1>10, <2>1 DEF AbandonCustody, gateway
      <4>2. Ended(r) BY <2>2, <3>1 DEF Ended
      <4>3. DurableInv' /\ RowsGo BY <1>1, <1>2, <1>4, <1>5, <3>1, <4>1, <4>2, OneWrite
      <4>4. Decided BY <1>2, <1>3, <3>1, <4>1, WriteDecides
      <4>5. QED BY <4>3, <4>4
  <2>3. CASE ~row.owner
    <3>1. r = [row EXCEPT !.state = "held", !.notice = TRUE] BY <2>1, <2>3 DEF HeldRow
    <3>2. r.state = "held" /\ r.notice /\ r.runtime = row.runtime BY <3>1 DEF JournalRow
    <3>3. /\ journal' = [journal EXCEPT ![m] = r] /\ executed' = [executed EXCEPT ![m] = executed[m]]
          /\ task' = [task EXCEPT ![l] = NoTask]
          /\ UNCHANGED <<runtime, unheld, posted, processed>>
      BY <1>1, <1>2, <1>3, <1>10, <2>1 DEF AbandonCustody, gateway
    <3>4. Ended(r) BY <3>2 DEF Ended
    <3>5. DurableInv' /\ RowsGo BY <1>1, <1>2, <1>4, <1>5, <3>2, <3>3, <3>4, OneWrite
    <3>6. row.state # "owned" BY <1>4, <2>3
    <3>7. Decided BY <1>2, <1>3, <3>3, <3>6, WriteDecides
    <3>8. QED BY <3>5, <3>7
  <2>4. QED BY <2>2, <2>3
<1>11. CASE AbandonUnheld(l)
  <2>1. /\ UNCHANGED <<processed, journal, runtime, executed, posted>>
        /\ unheld' = unheld \cup {m} /\ task' = [task EXCEPT ![l] = NoTask]
    BY <1>1, <1>11 DEF AbandonUnheld, gateway
  <2>2. RowsGo /\ Decided BY <2>1 DEF RowsGo, Decided
  <2>3. task' \in [Lanes -> TaskState \cup {NoTask}] /\ \A k \in Lanes : task'[k] # NoTask => task'[k] = task[k]
    BY <2>1 DEF DurableInv
  <2>4. ASSUME NEW n \in Messages PROVE RowInv(n)'
    <3>1. n \notin unheld' /\ NoLaneOn(n)' => n \notin unheld /\ NoLaneOn(n)
      <4> SUFFICES ASSUME n \notin unheld', NoLaneOn(n)', NEW k \in Lanes PROVE task[k].msg # n
        BY <2>1 DEF NoLaneOn
      <4>1. n # m BY <2>1
      <4>2. CASE k = l BY <1>1, <4>1, <4>2
      <4>3. CASE k # l
        <5>1. task'[k] = task[k] BY <2>1, <4>3 DEF DurableInv
        <5>2. QED BY <5>1 DEF NoLaneOn
      <4>4. QED BY <4>2, <4>3
    <3>2. RowInv(n) BY DEF DurableInv
    <3>3. QED BY <2>1, <3>1, <3>2 DEF RowInv, Ended
  <2>5. \A k \in Lanes : task'[k] # NoTask => journal'[task'[k].msg] # NoRow BY <2>1, <2>3 DEF DurableInv
  <2>6. DurableInv' BY <2>1, <2>3, <2>4, <2>5 DEF DurableInv
  <2>7. QED BY <2>2, <2>6
<1>12. QED BY <1>6, <1>7, <1>8, <1>9, <1>10, <1>11 DEF Process

-----------------------------------------------------------------------------
(* The rows, when no lane writes, and at a restart *)

LEMMA SameRows ==
  ASSUME DurableInv, UNCHANGED <<durable, task, runtime>>, posted \in Nat, posted' \in Nat,
         posted <= posted'
  PROVE  DurableInv' /\ RowsGo /\ Decided
<1>1. UNCHANGED <<processed, journal, executed, unheld, task, runtime>> BY DEF durable
<1>2. processed' \subseteq 1..posted' BY <1>1 DEF DurableInv
<1>3. \A m \in Messages : RowInv(m)' BY <1>1 DEF DurableInv, RowInv, NoLaneOn, Ended
<1>4. DurableInv' BY <1>1, <1>2, <1>3 DEF DurableInv
<1>5. QED BY <1>1, <1>4 DEF RowsGo, Decided

\* Whatever the ended process left unfinished is held with its notice.
LEMMA RestartRows ==
  ASSUME DurableInv, GatewayTypes, Restart
  PROVE  DurableInv' /\ Decided
<1>1. /\ runtime' = runtime + 1 /\ journal' = RecoveredJournal(runtime + 1)
      /\ task' = [l \in Lanes |-> NoTask] /\ unheld' = {}
      /\ UNCHANGED <<posted, processed, executed>>
      /\ runtime \in Nat
  BY DEF Restart, DurableInv
<1>2. ASSUME NEW m \in Messages
      PROVE  /\ journal'[m] \in JournalRow \cup {NoRow} /\ RowInv(m)'
             /\ journal[m] = NoRow => journal'[m] = NoRow
             /\ journal[m] # NoRow => (journal[m].state = "owned" => journal'[m].state = "owned")
  <2>1. /\ journal[m] \in JournalRow \cup {NoRow} /\ RowInv(m)
        /\ executed'[m] = executed[m] /\ m \notin unheld'
    BY <1>1 DEF DurableInv
  <2>2. journal'[m] = IF Unfinished(journal[m], runtime + 1) THEN HeldRow(journal[m]) ELSE journal[m]
    BY <1>1 DEF RecoveredJournal
  <2>3. CASE journal[m] = NoRow
    <3>1. journal'[m] = NoRow BY <2>2, <2>3 DEF Unfinished
    <3>2. QED BY <2>1, <2>3, <3>1 DEF RowInv
  <2>4. CASE journal[m] # NoRow
    <3>1. PICK row \in JournalRow : row = journal[m] BY <2>1, <2>4
    <3>2. /\ row.runtime \in Nat /\ row.runtime <= runtime /\ executed[m] <= 1
          /\ (row.state = "owned" => row.owner) /\ (row.state = "held" => row.notice)
          /\ (row.state = "staged" => executed[m] = 0)
          /\ row.state \in {"staged", "executing", "completed", "owned", "held"}
      BY <2>1, <2>4, <3>1 DEF RowInv, JournalRow
    <3>3. row.runtime # runtime + 1 /\ row.runtime <= runtime + 1 BY <1>1, <3>2
    <3>4. CASE Unfinished(row, runtime + 1)
      <4>1. ~row.owner BY <3>4 DEF Unfinished
      <4>2. PICK r \in JournalRow : r = [row EXCEPT !.state = "held", !.notice = TRUE] BY DEF JournalRow
      <4>3. r.state = "held" /\ r.notice /\ r.runtime = row.runtime BY <4>2 DEF JournalRow
      <4>4. journal'[m] = r BY <2>2, <3>1, <3>4, <4>1, <4>2 DEF HeldRow
      <4>5. r # NoRow BY NoRows
      <4>6. RowInv(m)' BY <1>1, <2>1, <3>2, <3>3, <4>3, <4>4, <4>5 DEF RowInv, Ended
      <4>7. row.state # "owned" BY <3>2, <4>1
      <4>8. QED BY <2>4, <3>1, <4>4, <4>6, <4>7
    <3>5. CASE ~Unfinished(row, runtime + 1)
      <4>1. journal'[m] = row BY <2>2, <3>1, <3>5
      <4>2. row # NoRow BY NoRows
      <4>3. row.owner \/ row.confirmed \/ row.state \in {"owned", "held"}
        BY <3>2, <3>3, <3>5, <4>2 DEF Unfinished
      <4>4. Ended(row) BY <3>2, <4>3 DEF Ended
      <4>5. RowInv(m)' BY <1>1, <2>1, <3>2, <3>3, <4>1, <4>2, <4>4 DEF RowInv, Ended
      <4>6. QED BY <2>4, <3>1, <4>1, <4>5
    <3>6. QED BY <3>4, <3>5
  <2>5. QED BY <2>3, <2>4
<1>3. journal' \in [Messages -> JournalRow \cup {NoRow}]
  <2>1. journal' = [m \in Messages |-> journal'[m]] BY <1>1 DEF RecoveredJournal
  <2>2. QED BY <1>2, <2>1
<1>4. task' \in [Lanes -> TaskState \cup {NoTask}] /\ \A l \in Lanes : task'[l] = NoTask BY <1>1
<1>5. DurableInv' BY <1>1, <1>2, <1>3, <1>4 DEF DurableInv
<1>6. processed \subseteq Messages BY Numbers DEF DurableInv
<1>7. QED BY <1>2, <1>5, <1>6 DEF Decided

-----------------------------------------------------------------------------
(* The page *)

LEMMA PageHolds ==
  ASSUME posted \in Nat, NEW from \in Nat \ {0}
  PROVE  /\ Page(from) \in Seq(1..posted)
         /\ \A m \in from..posted : \E i \in 1..Len(Page(from)) : Page(from)[i] = m
<1>1. CASE from <= posted + 1
  <2>1. PICK n \in Nat : n = posted - from + 1 BY <1>1
  <2>2. Page(from) = [i \in 1..n |-> from + i - 1] BY <2>1 DEF Page
  <2>3. \A i \in 1..n : from + i - 1 \in 1..posted BY <2>1
  <2>4. Page(from) \in [1..n -> 1..posted] BY <2>2, <2>3
  <2>5. Page(from) \in Seq(1..posted) BY <2>4, SeqDef
  <2>6. DOMAIN Page(from) = 1..n BY <2>4
  <2>7. Len(Page(from)) = n BY <2>5, <2>6, LenProperties
  <2>8. ASSUME NEW m \in from..posted PROVE \E i \in 1..Len(Page(from)) : Page(from)[i] = m
    <3>1. m - from + 1 \in 1..n BY <2>1
    <3>2. Page(from)[m - from + 1] = from + (m - from + 1) - 1 BY <2>2, <3>1
    <3>3. from + (m - from + 1) - 1 = m OBVIOUS
    <3>4. QED BY <2>7, <3>1, <3>2, <3>3
  <2>9. QED BY <2>5, <2>8
<1>2. CASE ~(from <= posted + 1)
  <2>1. 1..(posted - from + 1) = 1..0 /\ from..posted = {} BY <1>2
  <2>2. Page(from) \in [1..0 -> 1..posted] BY <2>1 DEF Page
  <2>3. QED BY <2>1, <2>2, SeqDef
<1>3. QED BY <1>1, <1>2

LEMMA Floors ==
  ASSUME posted \in Nat
  PROVE  /\ PageFloor \in Nat \ {0}
         /\ posted < PageLimit => PageFloor = 1
         /\ \A a \in Nat \ {0} : /\ Later(PageFloor, a) \in Nat \ {0}
                                 /\ PageFloor <= a => Later(PageFloor, a) = a
  BY IngressConstants DEF PageFloor, Later

-----------------------------------------------------------------------------
(* The gap covers what was dropped *)

LEMMA CoverStays ==
  ASSUME GatewayTypes, CoverInv, RowsGo, UNCHANGED <<gap, dropped>>
  PROVE  CoverInv'
<1> SUFFICES ASSUME NEW m \in dropped, journal'[m] = NoRow
             PROVE  gap.floor # 0 /\ gap.floor <= m /\ m \notin processed'
  BY DEF CoverInv
<1>1. m \in Messages BY Numbers DEF GatewayTypes
<1>2. journal[m] = NoRow /\ (m \in processed' => m \in processed) BY <1>1 DEF RowsGo
<1>3. QED BY <1>2 DEF CoverInv

LEMMA WalkStays ==
  ASSUME GatewayTypes, WalkInv, RowsGo, UNCHANGED <<gap, dropped, walk>>
  PROVE  WalkInv'
<1>1. \A m \in dropped : journal'[m] = NoRow => journal[m] = NoRow BY Numbers DEF GatewayTypes, RowsGo
<1>2. QED BY <1>1 DEF WalkInv

LEMMA NoGapWalk ==
  ASSUME walk'.pc \notin {"gapFetch", "gapClaim"}
  PROVE  WalkInv'
  BY DEF WalkInv

LEMMA IdleWalk ==
  /\ Idle.pc = "idle" /\ Idle.items = << >> /\ Idle.mark = 0 /\ Idle.revision = 0 /\ Idle.reached = FALSE
  /\ Idle \in WalkState
<1>1. << >> \in Seq(1..posted) BY EmptySeq
<1>2. QED BY <1>1 DEF Idle, WalkState

\* Steps that leave the gateway and the history lane alone.
LEMMA QuietStep ==
  ASSUME IngressInv, RowsGo, UNCHANGED <<gateway, poller, dropped>>
  PROVE  GatewayTypes' /\ CoverInv' /\ WalkInv'
<1>1. UNCHANGED <<posted, published, lane, gap, cursor, walk, dropped>> BY DEF gateway, poller
<1>2. GatewayTypes' BY <1>1 DEF IngressInv, GatewayTypes, WalkState
<1>3. QED BY <1>1, <1>2, CoverStays, WalkStays DEF IngressInv

LEMMA PostStep ==
  ASSUME IngressInv, Post
  PROVE  IngressInv' /\ Decided
<1>1. /\ posted' = posted + 1 /\ posted < MaxMessages
      /\ UNCHANGED <<published, lane, gap, cursor, walk, dropped, durable, task, runtime>>
  BY DEF Post, poller
<1>2. posted \in Nat /\ posted' \in Nat /\ posted <= posted' /\ 1..posted \subseteq 1..posted'
  BY <1>1, Numbers DEF IngressInv
<1>3. DurableInv' /\ RowsGo /\ Decided BY <1>1, <1>2, SameRows DEF IngressInv
<1>4. lane' \in Seq(1..posted') BY <1>1, <1>2, SeqMonotonic DEF IngressInv, GatewayTypes
<1>5. walk' \in WalkState'
  <2>1. walk \in WalkState BY DEF IngressInv, GatewayTypes
  <2>2. walk.items \in Seq(1..posted') BY <1>2, <2>1, SeqMonotonic DEF WalkState
  <2>3. QED BY <1>1, <2>1, <2>2 DEF WalkState
<1>6. posted' \in 0..MaxMessages /\ published' \in 0..posted' BY <1>1, IngressConstants DEF IngressInv, GatewayTypes
<1>7. gap' \in [revision : Nat, floor : 0..posted']
  <2>1. gap \in [revision : Nat, floor : 0..posted] BY DEF IngressInv, GatewayTypes
  <2>2. 0..posted \subseteq 0..posted' BY <1>1, <1>2
  <2>3. QED BY <1>1, <2>1, <2>2
<1>8. GatewayTypes' BY <1>1, <1>4, <1>5, <1>6, <1>7 DEF IngressInv, GatewayTypes, CursorState
<1>9. QED BY <1>1, <1>3, <1>8, CoverStays, WalkStays DEF IngressInv

\* A dropped message is newer than the one before and joins the gap; the gap's revision moves on.
LEMMA PublishStep ==
  ASSUME IngressInv, Publish
  PROVE  IngressInv' /\ Decided
<1>1. /\ published' = published + 1 /\ published < posted
      /\ UNCHANGED <<posted, cursor, walk, durable, task, runtime>>
  BY DEF Publish, poller
<1>2. PICK m \in 1..posted : m = published + 1 BY <1>1, Numbers DEF IngressInv
<1>3. posted \in Nat /\ posted' \in Nat /\ posted <= posted' BY <1>1, Numbers DEF IngressInv
<1>4. DurableInv' /\ RowsGo /\ Decided BY <1>1, <1>3, SameRows DEF IngressInv
<1>5. walk' \in WalkState' BY <1>1 DEF IngressInv, GatewayTypes, WalkState
<1>6. published' \in 0..posted' /\ 1..published \subseteq 1..published' /\ m \in 1..published'
  BY <1>1, <1>2, Numbers DEF IngressInv, GatewayTypes
<1>7. CASE LaneHasRoom
  <2>1. lane' = Append(lane, m) /\ UNCHANGED <<gap, dropped>> BY <1>2, <1>7 DEF Publish
  <2>2. lane' \in Seq(1..posted) /\ Len(lane') <= LaneCapacity
    <3>1. lane \in Seq(1..posted) BY DEF IngressInv, GatewayTypes
    <3>2. Len(lane) \in Nat /\ Len(lane) < LaneCapacity BY <1>7, <3>1, LenProperties DEF LaneHasRoom
    <3>3. Len(lane') = Len(lane) + 1 /\ lane' \in Seq(1..posted) BY <2>1, <3>1
    <3>4. QED BY <3>2, <3>3, IngressConstants
  <2>3. GatewayTypes' BY <1>1, <1>5, <1>6, <2>1, <2>2 DEF IngressInv, GatewayTypes
  <2>4. QED BY <1>1, <1>4, <2>1, <2>3, CoverStays, WalkStays DEF IngressInv
<1>8. CASE ~LaneHasRoom
  <2>1. gap' = WithGap(m) /\ dropped' = dropped \cup ({m} \ processed) /\ lane' = lane
    BY <1>2, <1>8 DEF Publish
  <2>2. gap.revision \in Nat /\ gap.floor \in 0..posted /\ m \in Nat /\ m # 0
    BY <1>2, Numbers DEF IngressInv, GatewayTypes
  <2>3. /\ gap'.revision = gap.revision + 1 /\ gap'.floor # 0 /\ gap'.floor <= m
        /\ gap.floor # 0 => gap'.floor <= gap.floor
        /\ gap' \in [revision : Nat, floor : 0..posted]
    BY <1>2, <2>1, <2>2, Numbers DEF WithGap, Earlier, IngressInv
  <2>4. GatewayTypes' BY <1>1, <1>5, <1>6, <2>1, <2>3 DEF IngressInv, GatewayTypes
  <2>5. CoverInv'
    <3> SUFFICES ASSUME NEW n \in dropped', journal'[n] = NoRow
                 PROVE  gap'.floor # 0 /\ gap'.floor <= n /\ n \notin processed'
      BY DEF CoverInv
    <3>1. UNCHANGED <<journal, processed>> BY <1>1 DEF durable
    <3>2. CASE n \in dropped
      <4>1. gap.floor # 0 /\ gap.floor <= n /\ n \notin processed BY <3>1, <3>2 DEF IngressInv, CoverInv
      <4>2. n \in Nat BY <3>2, Numbers DEF IngressInv, GatewayTypes
      <4>3. gap'.floor <= gap.floor /\ gap'.floor \in Nat /\ gap.floor \in Nat
        BY <1>3, <2>2, <2>3, <4>1
      <4>4. QED BY <2>3, <3>1, <4>1, <4>2, <4>3
    <3>3. CASE n \notin dropped BY <2>1, <2>3, <3>1, <3>3
    <3>4. QED BY <3>2, <3>3
  <2>6. WalkInv'
    <3> SUFFICES ASSUME walk'.pc \in {"gapFetch", "gapClaim"}
                 PROVE  walk'.mark # 0 /\ walk'.revision <= gap'.revision /\ walk'.revision # gap'.revision
      BY DEF WalkInv
    <3>1. walk.revision \in Nat /\ walk.revision <= gap.revision /\ walk.mark # 0
      BY <1>1 DEF IngressInv, WalkInv, GatewayTypes, WalkState
    <3>2. QED BY <1>1, <2>2, <2>3, <3>1
  <2>7. QED BY <1>4, <2>4, <2>5, <2>6 DEF IngressInv
<1>9. QED BY <1>7, <1>8

\* What the live lane takes from the gateway's lane.
LEMMA LiveStep ==
  ASSUME IngressInv, LiveReceive \/ LiveRefuse
  PROVE  IngressInv' /\ Decided
<1>1. /\ lane # << >> /\ lane' = Tail(lane)
      /\ UNCHANGED <<posted, published, gap, cursor, walk, dropped, runtime, executed, unheld>>
  BY DEF LiveReceive, LiveRefuse, poller, durable
<1>2. Head(lane) \in 1..posted /\ lane' \in Seq(1..posted) /\ Len(lane') <= LaneCapacity
  <2>1. lane \in Seq(1..posted) /\ Len(lane) <= LaneCapacity BY DEF IngressInv, GatewayTypes
  <2>2. Len(lane) \in Nat /\ Head(lane) \in 1..posted /\ lane' \in Seq(1..posted) /\ Len(lane') = Len(lane) - 1
    BY <1>1, <2>1, HeadTailProperties, LenProperties
  <2>3. QED BY <2>1, <2>2, IngressConstants
<1>3. GatewayTypes' BY <1>1, <1>2 DEF IngressInv, GatewayTypes, WalkState
<1>4. DurableInv' /\ RowsGo /\ Decided
  <2>1. CASE LiveReceive
    <3>1. task["live"] = NoTask /\ Admit("live", Head(lane)) /\ "live" \in Lanes
      BY <2>1 DEF LiveReceive, Lanes
    <3>2. DurableInv' /\ RowsGo BY <1>1, <1>2, <3>1, AdmitWrites DEF IngressInv
    <3>3. Head(lane) \in Messages BY <1>2, Numbers DEF IngressInv
    <3>4. QED BY <3>1, <3>2, <3>3, AdmitDecides DEF IngressInv
  <2>2. CASE LiveRefuse
    <3>1. UNCHANGED <<durable, task>> BY <2>2 DEF LiveRefuse
    <3>2. QED BY <1>1, <3>1, Numbers, SameRows DEF IngressInv
  <2>3. QED BY <2>1, <2>2
<1>5. QED BY <1>1, <1>3, <1>4, CoverStays, WalkStays DEF IngressInv

-----------------------------------------------------------------------------
(* The history lane *)

\* Its steps that claim nothing and acknowledge nothing leave the rows and the gap alone.
HistoryFrame == UNCHANGED <<posted, published, lane, gap, task, durable, runtime, dropped>>

LEMMA FrameStep ==
  ASSUME IngressInv, HistoryFrame, cursor' \in CursorState, walk' \in WalkState, WalkInv'
  PROVE  IngressInv' /\ Decided
<1>1. DurableInv' /\ RowsGo /\ Decided BY Numbers, SameRows DEF IngressInv, HistoryFrame
<1>2. GatewayTypes' BY DEF IngressInv, GatewayTypes, WalkState, CursorState, HistoryFrame
<1>3. CoverInv' BY <1>1, CoverStays DEF IngressInv, HistoryFrame
<1>4. QED BY <1>1, <1>2, <1>3 DEF IngressInv

LEMMA IdleStep ==
  ASSUME IngressInv, HistoryFrame, cursor' \in CursorState, walk' = Idle
  PROVE  IngressInv' /\ Decided
<1>1. WalkInv' BY IdleWalk, NoGapWalk
<1>2. QED BY <1>1, IdleWalk, FrameStep

LEMMA WakeStep ==
  ASSUME IngressInv, Wake
  PROVE  IngressInv' /\ Decided
<1>1. HistoryFrame /\ UNCHANGED <<cursor, walk>> /\ walk = Idle BY DEF Wake, HistoryFrame
<1>2. cursor' \in CursorState BY <1>1 DEF IngressInv, GatewayTypes
<1>3. QED BY <1>1, <1>2, IdleStep

\* The recovery begins at the gap as it is.
LEMMA GapStartStep ==
  ASSUME IngressInv, GapStart
  PROVE  IngressInv' /\ Decided
<1>1. HistoryFrame /\ UNCHANGED cursor /\ walk = Idle BY DEF GapStart, HistoryFrame, gateway
<1>2. cursor' \in CursorState BY <1>1 DEF IngressInv, GatewayTypes
<1>3. CASE gap.floor = 0 \/ sealed
  <2>1. walk' = Idle BY <1>1, <1>3 DEF GapStart
  <2>2. QED BY <1>1, <1>2, <2>1, IdleStep
<1>4. CASE ~(gap.floor = 0 \/ sealed)
  <2>1. walk' = [Idle EXCEPT !.pc = "gapFetch", !.mark = gap.floor, !.revision = gap.revision]
    BY <1>4 DEF GapStart
  <2>2. gap.floor \in Nat /\ gap.revision \in Nat BY Numbers DEF IngressInv, GatewayTypes
  <2>3. /\ walk' \in WalkState /\ walk'.pc = "gapFetch" /\ walk'.mark = gap.floor
        /\ walk'.revision = gap.revision
    BY <2>1, <2>2, IdleWalk DEF WalkState
  <2>4. gap' = gap BY <1>1 DEF HistoryFrame
  <2>5. WalkInv' BY <1>4, <2>2, <2>3, <2>4 DEF WalkInv
  <2>6. QED BY <1>1, <1>2, <2>3, <2>5, FrameStep
<1>5. QED BY <1>3, <1>4

\* A page that reaches the gap's floor holds every message dropped since.
LEMMA GapFetchStep ==
  ASSUME IngressInv, GapFetch
  PROVE  IngressInv' /\ Decided
<1>1. HistoryFrame /\ UNCHANGED cursor /\ walk.pc = "gapFetch" BY DEF GapFetch, HistoryFrame, gateway
<1>2. cursor' \in CursorState BY <1>1 DEF IngressInv, GatewayTypes
<1>3. walk \in WalkState /\ posted \in Nat BY Numbers DEF IngressInv, GatewayTypes
<1>4. walk.mark \in Nat \ {0} BY <1>1, <1>3 DEF WalkState, IngressInv, WalkInv
<1>5. GapItems \in Seq(1..posted) BY <1>3, <1>4, Floors, PageHolds DEF GapItems
<1>6. PICK b \in BOOLEAN : b = (posted < PageLimit \/ PageFloor <= walk.mark) OBVIOUS
<1>7. walk' = [walk EXCEPT !.pc = "gapClaim", !.items = GapItems, !.reached = b] BY <1>6 DEF GapFetch
<1>8. /\ walk' \in WalkState /\ walk'.pc = "gapClaim" /\ walk'.items = GapItems /\ walk'.reached = b
      /\ walk'.mark = walk.mark /\ walk'.revision = walk.revision
  BY <1>3, <1>5, <1>7 DEF WalkState
<1>9. WalkInv'
  <2>1. gap' = gap /\ dropped' = dropped /\ journal' = journal BY <1>1 DEF HistoryFrame, durable
  <2>2. /\ walk.revision <= gap.revision
        /\ walk.revision = gap.revision => gap.floor = walk.mark
    BY <1>1 DEF IngressInv, WalkInv
  <2>3. ASSUME walk.revision = gap.revision, b, NEW m \in dropped, journal[m] = NoRow
        PROVE  \E i \in 1..Len(GapItems) : GapItems[i] = m
    <3>1. walk.mark <= m /\ m \in 1..posted
      BY <2>2, <2>3, Numbers DEF IngressInv, CoverInv, GatewayTypes
    <3>2. PageFloor \in Nat \ {0} /\ PageFloor <= walk.mark
      <4>1. PageFloor \in Nat \ {0} /\ (posted < PageLimit => PageFloor = 1) BY <1>3, Floors
      <4>2. posted < PageLimit \/ PageFloor <= walk.mark BY <1>6, <2>3
      <4>3. QED BY <1>4, <4>1, <4>2
    <3>3. Later(PageFloor, walk.mark) = walk.mark BY <1>3, <1>4, <3>2, Floors
    <3>4. m \in walk.mark..posted BY <1>3, <1>4, <3>1
    <3>5. QED BY <1>3, <1>4, <3>3, <3>4, PageHolds DEF GapItems
  <2>4. QED BY <1>4, <1>8, <2>1, <2>2, <2>3 DEF WalkInv
<1>10. QED BY <1>1, <1>2, <1>8, <1>9, FrameStep

\* What both claims of the history lane do: the head of the page has its row, or is none to it.
LEMMA ClaimStep ==
  ASSUME IngressInv, walk.items # << >>, task["history"] = NoTask,
         walk' = [walk EXCEPT !.items = Tail(@)], Admit("history", Head(walk.items)),
         UNCHANGED <<gateway, cursor, due, runtime, sealed, executed, dropped, unheld>>
  PROVE  IngressInv' /\ Decided
<1>1. UNCHANGED <<posted, published, lane, gap, cursor, dropped, executed, runtime, unheld>> BY DEF gateway
<1>2. walk \in WalkState /\ walk.items \in Seq(1..posted)
  BY DEF IngressInv, GatewayTypes, WalkState
<1>3. PICK h \in 1..posted : h = Head(walk.items) BY <1>2, HeadTailProperties
<1>4. Tail(walk.items) \in Seq(1..posted) /\ Len(Tail(walk.items)) = Len(walk.items) - 1
      /\ Len(walk.items) \in Nat
  BY <1>2, HeadTailProperties, LenProperties
<1>5. "history" \in Lanes /\ h \in Messages BY <1>3, Numbers DEF Lanes, IngressInv
<1>6. DurableInv' /\ RowsGo /\ (journal'[h] # NoRow \/ h \in processed)
  BY <1>1, <1>3, <1>5, AdmitWrites DEF IngressInv
<1>7. Decided BY <1>3, <1>5, AdmitDecides DEF IngressInv
<1>8. /\ walk' \in WalkState /\ walk'.items = Tail(walk.items) /\ walk'.pc = walk.pc
      /\ walk'.mark = walk.mark /\ walk'.revision = walk.revision /\ walk'.reached = walk.reached
  BY <1>2, <1>4 DEF WalkState
<1>9. GatewayTypes' BY <1>1, <1>8 DEF IngressInv, GatewayTypes, WalkState, CursorState
<1>10. CoverInv' BY <1>1, <1>6, CoverStays DEF IngressInv
<1>11. WalkInv'
  <2>1. ASSUME walk.pc = "gapClaim", walk.revision = gap.revision, walk.reached,
               NEW m \in dropped, journal'[m] = NoRow
        PROVE  \E i \in 1..Len(Tail(walk.items)) : Tail(walk.items)[i] = m
    <3>1. m \in Messages BY Numbers DEF IngressInv, GatewayTypes
    <3>2. journal[m] = NoRow BY <2>1, <3>1, <1>6 DEF RowsGo
    <3>3. PICK i \in 1..Len(walk.items) : walk.items[i] = m BY <2>1, <3>2 DEF IngressInv, WalkInv
    <3>4. m \notin processed BY <2>1, <3>2 DEF IngressInv, CoverInv
    <3>5. h # m BY <1>6, <2>1, <3>4
    <3>6. Head(walk.items) = walk.items[1] BY <1>2
    <3>7. i # 1 BY <1>3, <3>3, <3>5, <3>6
    <3>8. i - 1 \in 1..Len(Tail(walk.items)) BY <1>4, <3>7
    <3>9. Tail(walk.items)[i - 1] = walk.items[i]
      <4>1. Tail(walk.items)[i - 1] = walk.items[(i - 1) + 1] BY <1>2, <1>4, <3>8
      <4>2. (i - 1) + 1 = i OBVIOUS
      <4>3. QED BY <4>1, <4>2
    <3>10. QED BY <3>3, <3>8, <3>9
  <2>2. /\ walk.pc \in {"gapFetch", "gapClaim"} =>
             /\ walk.mark # 0 /\ walk.revision <= gap.revision
             /\ walk.revision = gap.revision => gap.floor = walk.mark
    BY DEF IngressInv, WalkInv
  <2>3. QED BY <1>1, <1>8, <2>1, <2>2 DEF WalkInv
<1>12. QED BY <1>6, <1>7, <1>9, <1>10, <1>11 DEF IngressInv

\* The gap is cleared only at the revision that was recovered, when nothing dropped is left.
LEMMA GapEndStep ==
  ASSUME IngressInv, GapEnd
  PROVE  IngressInv' /\ Decided
<1>1. /\ walk.pc = "gapClaim" /\ walk.items = << >> /\ walk' = Idle
      /\ gap' = IF walk.reached THEN Acknowledged(gap, walk.revision) ELSE gap
      /\ UNCHANGED <<posted, published, lane, cursor, task, durable, runtime, dropped>>
  BY DEF GapEnd
<1>2. DurableInv' /\ RowsGo /\ Decided BY <1>1, Numbers, SameRows DEF IngressInv
<1>3. WalkInv' BY <1>1, IdleWalk, NoGapWalk
<1>4. gap \in [revision : Nat, floor : 0..posted] BY DEF IngressInv, GatewayTypes
<1>5. CASE gap' = gap
  <2>1. GatewayTypes' BY <1>1, <1>5, IdleWalk DEF IngressInv, GatewayTypes, WalkState
  <2>2. QED BY <1>1, <1>2, <1>3, <1>5, <2>1, CoverStays DEF IngressInv
<1>6. CASE gap' # gap
  <2>1. /\ walk.reached /\ gap.revision = walk.revision
        /\ gap' = [gap EXCEPT !.floor = 0]
    BY <1>1, <1>6 DEF Acknowledged
  <2>2. gap' \in [revision : Nat, floor : 0..posted]
    <3>1. 0 \in 0..posted BY Numbers DEF IngressInv
    <3>2. QED BY <1>4, <2>1, <3>1
  <2>3. GatewayTypes' BY <1>1, <2>2, IdleWalk DEF IngressInv, GatewayTypes, WalkState
  <2>4. ASSUME NEW m \in dropped PROVE journal[m] # NoRow
    <3>1. 1..Len(walk.items) = {} BY <1>1
    <3>2. QED BY <1>1, <2>1, <3>1 DEF IngressInv, WalkInv
  <2>5. CoverInv' BY <1>1, <2>4 DEF CoverInv, durable
  <2>6. QED BY <1>2, <1>3, <2>3, <2>5 DEF IngressInv
<1>7. QED BY <1>5, <1>6

\* The poll discards nothing while a gap is open, so nothing that was dropped.
LEMMA PollDiscardStep ==
  ASSUME IngressInv, PollDiscard
  PROVE  IngressInv' /\ Decided
<1>1. /\ walk.pc = "pollClaim" /\ walk.items # << >>
      /\ UNCHANGED <<posted, published, lane, gap, cursor, task, journal, runtime, executed,
                     dropped, unheld>>
  BY DEF PollDiscard, gateway
<1>2. cursor' \in CursorState BY <1>1 DEF IngressInv, GatewayTypes
<1>3. CASE ~FenceHolds
  <2>1. HistoryFrame /\ walk' = Idle BY <1>1, <1>3 DEF PollDiscard, PollOver, HistoryFrame, durable
  <2>2. QED BY <1>2, <2>1, IdleStep
<1>4. CASE FenceHolds
  <2>1. /\ processed' = processed \cup {Head(walk.items)}
        /\ walk' = [walk EXCEPT !.items = Tail(@)] /\ gap.floor = 0
    BY <1>4 DEF PollDiscard, FenceHolds
  <2>2. walk \in WalkState BY DEF IngressInv, GatewayTypes
  <2>3. Head(walk.items) \in 1..posted /\ Tail(walk.items) \in Seq(1..posted)
    BY <1>1, <2>2, HeadTailProperties DEF WalkState
  <2>4. walk' \in WalkState /\ walk'.pc = "pollClaim" BY <1>1, <2>1, <2>2, <2>3 DEF WalkState
  <2>5. GatewayTypes' BY <1>1, <2>4 DEF IngressInv, GatewayTypes, WalkState, CursorState
  <2>6. \A m \in Messages : RowInv(m)' BY <1>1 DEF IngressInv, DurableInv, RowInv, NoLaneOn, Ended
  <2>7. DurableInv' BY <1>1, <2>1, <2>3, <2>6 DEF IngressInv, DurableInv
  <2>8. CoverInv' BY <1>1, <2>1 DEF IngressInv, CoverInv
  <2>9. WalkInv' BY <2>4, NoGapWalk
  <2>10. Decided BY <1>1, SameDecisions
  <2>11. QED BY <2>5, <2>7, <2>8, <2>9, <2>10 DEF IngressInv
<1>5. QED BY <1>3, <1>4

LEMMA PollStartStep ==
  ASSUME IngressInv, PollStart
  PROVE  IngressInv' /\ Decided
<1>1. HistoryFrame /\ walk' = [Idle EXCEPT !.pc = "pollFetch", !.revision = gap.revision]
  BY DEF PollStart, HistoryFrame, gateway
<1>2. walk' \in WalkState /\ walk'.pc = "pollFetch"
  <2>1. gap.revision \in Nat BY DEF IngressInv, GatewayTypes
  <2>2. QED BY <1>1, <2>1, IdleWalk DEF WalkState
<1>3. PICK skew \in -ClockSkew..ClockSkew :
        cursor' = IF cursor = NoCursor THEN [phase |-> "priming", at |-> Later(0, posted + skew)] ELSE cursor
  BY DEF PollStart
<1>4. cursor' \in CursorState
  <2>1. Later(0, posted + skew) \in Nat BY Numbers, IngressConstants DEF Later, IngressInv
  <2>2. cursor \in CursorState BY DEF IngressInv, GatewayTypes
  <2>3. QED BY <1>3, <2>1, <2>2 DEF CursorState
<1>5. WalkInv' BY <1>2, NoGapWalk
<1>6. QED BY <1>1, <1>2, <1>4, <1>5, FrameStep

LEMMA PollFetchStep ==
  ASSUME IngressInv, PollFetch
  PROVE  IngressInv' /\ Decided
<1>1. /\ HistoryFrame /\ walk.pc = "pollFetch" /\ UNCHANGED cursor
      /\ walk' = [walk EXCEPT !.pc = "pollClaim", !.items = Page(PageFloor), !.mark = Later(cursor.at, posted)]
  BY DEF PollFetch, HistoryFrame, gateway
<1>2. walk \in WalkState /\ cursor \in CursorState /\ posted \in Nat BY Numbers DEF IngressInv, GatewayTypes
<1>3. Page(PageFloor) \in Seq(1..posted) BY <1>2, Floors, PageHolds
<1>4. Later(cursor.at, posted) \in Nat BY <1>2 DEF Later, CursorState
<1>5. walk' \in WalkState' /\ walk'.pc = "pollClaim"
  <2>1. posted' = posted BY <1>1 DEF HistoryFrame
  <2>2. QED BY <1>1, <1>2, <1>3, <1>4, <2>1 DEF WalkState
<1>6. walk' \in WalkState BY <1>1, <1>2, <1>3, <1>4 DEF WalkState
<1>7. WalkInv' BY <1>5, NoGapWalk
<1>8. QED BY <1>1, <1>2, <1>6, <1>7, FrameStep

LEMMA PollCommitStep ==
  ASSUME IngressInv, PollCommit
  PROVE  IngressInv' /\ Decided
<1>1. HistoryFrame /\ walk' = Idle /\ cursor' = [phase |-> "active", at |-> walk.mark]
  BY DEF PollCommit, PollOver, HistoryFrame, gateway
<1>2. cursor' \in CursorState BY <1>1 DEF IngressInv, GatewayTypes, WalkState, CursorState
<1>3. QED BY <1>1, <1>2, IdleStep

LEMMA PollForgetStep ==
  ASSUME IngressInv, PollForget
  PROVE  IngressInv' /\ Decided
<1>1. HistoryFrame /\ walk' = Idle /\ cursor' = NoCursor
  BY DEF PollForget, PollOver, HistoryFrame, gateway
<1>2. cursor' \in CursorState BY <1>1 DEF NoCursor, CursorState
<1>3. QED BY <1>1, <1>2, IdleStep

LEMMA EndOfWalkStep ==
  ASSUME IngressInv, GapFails \/ PollSkip \/ PollFails
  PROVE  IngressInv' /\ Decided
<1>1. HistoryFrame /\ walk' = Idle /\ UNCHANGED cursor
  BY DEF GapFails, PollSkip, PollFails, PollOver, HistoryFrame, gateway
<1>2. cursor' \in CursorState BY <1>1 DEF IngressInv, GatewayTypes
<1>3. QED BY <1>1, <1>2, IdleStep

LEMMA HistoryStep ==
  ASSUME IngressInv, HistoryLane
  PROVE  IngressInv' /\ Decided
<1>1. CASE GapClaim BY <1>1, ClaimStep DEF GapClaim
<1>2. CASE PollClaim BY <1>2, ClaimStep DEF PollClaim
<1>3. QED
  BY <1>1, <1>2, GapStartStep, GapFetchStep, GapEndStep, PollForgetStep, PollStartStep, PollFetchStep,
     PollDiscardStep, PollCommitStep, EndOfWalkStep
  DEF HistoryLane

-----------------------------------------------------------------------------
(* The theorems *)

LEMMA RestartStep ==
  ASSUME IngressInv, Restart
  PROVE  IngressInv' /\ Decided
<1>1. /\ published' = posted /\ lane' = << >> /\ gap' = [revision |-> 0, floor |-> 0]
      /\ cursor' = NoCursor /\ walk' = Idle /\ dropped' = {} /\ posted' = posted
  BY DEF Restart
<1>2. DurableInv' /\ Decided BY RestartRows DEF IngressInv
<1>3. lane' \in Seq(1..posted) /\ Len(lane') = 0 BY <1>1, EmptySeq
<1>4. cursor' \in CursorState BY <1>1 DEF NoCursor, CursorState
<1>5. 0 \in 0..posted /\ posted \in 0..posted BY Numbers DEF IngressInv
<1>6. posted \in 0..MaxMessages BY DEF IngressInv, GatewayTypes
<1>7. walk' \in WalkState BY <1>1, IdleWalk
<1>8. gap' \in [revision : Nat, floor : 0..posted] BY <1>1, <1>5
<1>9. posted' \in 0..MaxMessages /\ published' \in 0..posted' /\ lane' \in Seq(1..posted')
      /\ Len(lane') <= LaneCapacity /\ gap' \in [revision : Nat, floor : 0..posted'] /\ walk' \in WalkState'
      /\ dropped' \subseteq 1..published'
  BY <1>1, <1>3, <1>5, <1>6, <1>7, <1>8, IngressConstants DEF WalkState
<1>10. GatewayTypes' BY <1>4, <1>9 DEF GatewayTypes, CursorState
<1>11. CoverInv' BY <1>1 DEF CoverInv
<1>12. WalkInv' BY <1>1, IdleWalk, NoGapWalk
<1>13. QED BY <1>2, <1>10, <1>11, <1>12 DEF IngressInv

LEMMA InitInv == Init => IngressInv
<1> SUFFICES ASSUME Init PROVE IngressInv OBVIOUS
<1>1. \A l \in Lanes : task[l] = NoTask BY DEF Init
<1>2. \A m \in Messages : journal[m] = NoRow /\ executed[m] = 0 BY DEF Init
<1>3. DurableInv BY <1>1, <1>2 DEF Init, DurableInv, RowInv
<1>4. << >> \in Seq(1..posted) /\ Len(<< >>) = 0 BY EmptySeq
<1>5. GatewayTypes
  BY <1>4, IdleWalk, IngressConstants DEF Init, GatewayTypes, NoCursor, CursorState
<1>6. CoverInv /\ WalkInv BY IdleWalk DEF Init, CoverInv, WalkInv
<1>7. QED BY <1>3, <1>5, <1>6 DEF IngressInv

LEMMA StepInv == IngressInv /\ [Next]_vars => IngressInv' /\ (Decided \/ UNCHANGED vars)
<1> SUFFICES ASSUME IngressInv, [Next]_vars PROVE IngressInv' /\ (Decided \/ UNCHANGED vars)
  OBVIOUS
<1>1. CASE UNCHANGED vars
  <2>1. HistoryFrame /\ UNCHANGED <<cursor, walk>> BY <1>1 DEF vars, HistoryFrame, durable
  <2>2. cursor' \in CursorState /\ walk' \in WalkState BY <2>1 DEF IngressInv, GatewayTypes
  <2>3. WalkInv' BY <1>1 DEF vars, IngressInv, WalkInv
  <2>4. QED BY <1>1, <2>1, <2>2, <2>3, FrameStep
<1>2. CASE Post BY <1>2, PostStep
<1>3. CASE Publish BY <1>3, PublishStep
<1>4. CASE LiveReceive \/ LiveRefuse BY <1>4, LiveStep
<1>5. ASSUME NEW l \in Lanes, Process(l) PROVE IngressInv' /\ Decided
  <2>1. DurableInv' /\ RowsGo /\ Decided BY <1>5, ProcessStep DEF IngressInv
  <2>2. UNCHANGED <<gateway, poller, dropped>>
    BY <1>5 DEF Process, BeginExecution, HandOff, RecordResult, Confirm, AbandonCustody, AbandonUnheld
  <2>3. QED BY <2>1, <2>2, QuietStep DEF IngressInv
<1>6. CASE Wake BY <1>6, WakeStep
<1>7. CASE HistoryLane BY <1>7, HistoryStep
<1>8. CASE Seal
  <2>1. HistoryFrame /\ UNCHANGED <<cursor, walk>> BY <1>8 DEF Seal, HistoryFrame, gateway, poller
  <2>2. cursor' \in CursorState /\ walk' \in WalkState BY <2>1 DEF IngressInv, GatewayTypes
  <2>3. WalkInv' BY <2>1 DEF HistoryFrame, durable, IngressInv, WalkInv
  <2>4. QED BY <2>1, <2>2, <2>3, FrameStep
<1>9. CASE Restart BY <1>9, RestartStep
<1>10. QED BY <1>1, <1>2, <1>3, <1>4, <1>5, <1>6, <1>7, <1>8, <1>9 DEF Next

LEMMA Invariance == Spec => []IngressInv
<1>1. IngressInv /\ [Next]_vars => IngressInv' BY StepInv
<1>2. QED BY InitInv, <1>1, PTL DEF Spec

\* Whichever of the gateway, the gap recovery, the poll and a restart bring a message up
\* again, the row that admit_recorded_in created leaves "staged" once, in
\* MessageCustody::begin: the message is executed at most once.
THEOREM ExecutedOnce == Spec => []ExecutedAtMostOnce
<1>1. IngressInv => ExecutedAtMostOnce BY DEF IngressInv, DurableInv, RowInv, ExecutedAtMostOnce
<1>2. QED BY Invariance, <1>1, PTL

\* A message the full lane dropped lies in the recorded gap until it has a journal row: the
\* recovery acknowledges only a revision whose page it claimed completely, and the poll
\* discards nothing while a gap is open.
THEOREM DroppedStaysCovered == Spec => []DroppedIsCovered
<1>1. IngressInv => DroppedIsCovered
  <2> SUFFICES ASSUME IngressInv PROVE DroppedIsCovered OBVIOUS
  <2>1. \A m \in dropped : journal[m] = NoRow => gap.floor # 0 /\ gap.floor <= m
    BY DEF IngressInv, CoverInv
  <2>2. \A m \in Messages : journal[m] # NoRow =>
          journal[m].state \in {"staged", "executing", "completed", "owned", "held"}
    BY DEF IngressInv, DurableInv, JournalRow
  <2>3. \A l \in Lanes : task[l].pc \in {"none", "admitted", "executing", "recorded"}
    BY NoRows DEF IngressInv, DurableInv, TaskState
  <2>4. TypeOK BY <2>2, <2>3 DEF IngressInv, DurableInv, GatewayTypes, CursorState, TypeOK
  <2>5. QED BY <2>1, <2>4 DEF DroppedIsCovered
<1>2. QED BY Invariance, <1>1, PTL

\* A row no lane works on was confirmed by MessageCustody::finish, belongs to a durable
\* prompt, or was held with a notice, by the dropped custody or by recover_prior_runtime.
THEOREM AdmittedStaysAccounted == Spec => []AdmittedIsAccounted
<1>1. IngressInv => AdmittedIsAccounted
  BY DEF IngressInv, DurableInv, RowInv, NoLaneOn, Ended, AdmittedIsAccounted
<1>2. QED BY Invariance, <1>1, PTL

\* No step admits a message the poll claimed to discard, and no hold takes an owned message
\* away from its prompt.
THEOREM DecisionsAreKept == Spec => DecisionsStand
<1>1. IngressInv /\ [Next]_vars =>
        [/\ \A m \in processed: journal[m] = NoRow => journal'[m] = NoRow
         /\ \A m \in Messages:
              journal[m] # NoRow => (journal[m].state = "owned" => journal'[m].state = "owned")]_vars
  BY StepInv DEF Decided
<1>2. QED BY Invariance, <1>1, PTL DEF Spec, DecisionsStand
=============================================================================
