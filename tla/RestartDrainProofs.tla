------------------------- MODULE RestartDrainProofs -------------------------
(* Proofs about RestartDrain for any set of rows and any number of processes, *)
(* restarts, permits and faults.                                              *)
EXTENDS RestartDrain, TLAPS

Drained == {"durable", "live", "durable2", "live2"}
Finishing == {"cleanup", "ack", "confirm", "acked"}

\* A process that is gone keeps nothing; a drain runs under this process's own fence.
ProcessInv ==
    /\ (phase = "down") <=> (rt = 0)
    /\ rt = 0 => gate = Open /\ ~server
    /\ phase \notin {"down", "open"} => Sealed /\ gate.sealed.run = rt
    /\ phase \in {"ack", "confirm", "acked"} => ~server

\* The final inspection and everything after it run with the controls closed.
ControlInv ==
    /\ stage = "final" => ~gate.controls /\ phase \notin {"down", "open"}
    /\ phase \in Finishing => stage = "final"

\* Permits: none for new work once they were all returned, none at all at the end.
PermitInv ==
    /\ phase \in Drained \cup Finishing => gate.work = 0 /\ InFlight = {}
    /\ stage = "final" /\ phase \in Drained \cup Finishing => gate.ctl = 0

\* Rows: the final inspection found none in progress, and then no turn either.
RowInv ==
    /\ stage = "final" /\ phase \in (Drained \cup Finishing) \ {"durable"} => Busy = {}
    /\ stage = "final" /\ phase \in {"durable2", "live2"} \cup Finishing => Quiet

\* Markers: an acknowledgement is the live process's own and matches prepare, which
\* the script changes only where this cannot hurt.
MarkerInv ==
    /\ rt # 0 /\ files.ack # NoKey =>
          /\ phase \in {"confirm", "acked"}
          /\ files.ack = gate.sealed /\ files.ack = files.prepare
    /\ wpc = "clear" /\ rt # 0 => files.prepare = NoKey /\ files.ack = NoKey
    /\ wpc = "publish" => files.prepare \in {NoKey, wkey}
    /\ files.ack # NoKey => files.ack \in drained

\* Where the script is tells how far the journal has come.
JournalInv ==
    /\ journal.phase # "none" => journal.key # NoKey
    /\ wpc \in {"prepare", "publish", "await", "quiet", "marker"} =>
          journal.phase = "none" \/ (journal.phase = "preparing" /\ journal.key = wkey)
    /\ wpc = "complete" => journal.phase = "preparing" /\ journal.key = wkey
    /\ wpc \in {"exit", "claim", "clear", "clear2", "ready"} => Launchable
    /\ wpc = "launch" => journal.phase \in {"none", "prepared"}
    /\ wpc = "mark" => journal.phase = "prepared"
    /\ wpc \in {"spawn", "bind"} => journal.phase \in {"none", "launching"}
    /\ wpc = "child" => journal.phase = "launching"
    /\ LaunchWasAuthorised

\* The inductive invariant.
DrainInv ==
    TypeOK /\ ProcessInv /\ ControlInv /\ PermitInv /\ RowInv /\ MarkerInv /\ JournalInv

-----------------------------------------------------------------------------
\* The part of TypeOK that a process carries with it.
InsideOK ==
    /\ rt \in Nat /\ phase \in Phases /\ stage \in {"first", "final"} /\ server \in BOOLEAN
    /\ gate \in GateState
    /\ seen \in [Jobs -> RowStates] /\ rows \in [Jobs -> RowStates]
    /\ turn \in [Jobs -> {"idle", "active", "asking", "answered"}]

\* A fault is counted.
LEMMA FaultTyped == TypeOK /\ Fault => faults' \in Nat
BY DEF TypeOK, Fault

\* close_controls and open_controls.
LEMMA ControlsTyped ==
    \A g \in GateState, b \in BOOLEAN : [g EXCEPT !.controls = b] \in GateState
BY DEF GateState

\* The end of a process.
LEMMA GoneTyped == TypeOK /\ Gone => InsideOK'
<1> SUFFICES ASSUME TypeOK, Gone PROVE InsideOK'
  OBVIOUS
<1>1. Open \in GateState
  BY DEF Open, GateState, Key, NoKey
<1>2. turn' \in [Jobs -> {"idle", "active", "asking", "answered"}]
  BY DEF Gone
<1>3. rows' \in [Jobs -> RowStates]
  BY DEF Gone, TypeOK, RowStates
<1> QED BY <1>1, <1>2, <1>3 DEF TypeOK, InsideOK, Gone, Phases

\* An orderly end also writes the identity file.
LEMMA LeaveTyped == TypeOK /\ Leave => files' \in Markers
BY DEF TypeOK, Leave, Markers

\* The start of a process, or its refusal.
LEMMA StartedTyped ==
    TypeOK /\ Started => InsideOK' /\ files' \in Markers /\ runs' \in Nat
<1> SUFFICES ASSUME TypeOK, Started
             PROVE InsideOK' /\ files' \in Markers /\ runs' \in Nat
  OBVIOUS
<1>1. Open \in GateState
  BY DEF Open, GateState, Key, NoKey
<1>2. \A f \in Markers : [f EXCEPT !.identity = runs + 1] \in Markers
  BY DEF TypeOK, Markers
<1>3. CASE rt = 0 /\ MayInitialize
  BY <1>1, <1>2, <1>3 DEF TypeOK, InsideOK, Started, Phases, work
<1>4. CASE ~(rt = 0 /\ MayInitialize)
  BY <1>4 DEF TypeOK, InsideOK, Started, inside, work
<1> QED BY <1>3, <1>4

\* Every step of the script leaves the runtime and the rows alone, except the creation
\* of a process and the killing of one.
LEMMA ScriptStaysOutside ==
    \/ WatchPrepare \/ WatchResume \/ WatchComplete \/ Identify
    \/ PublishPrepare \/ AwaitAck \/ CheckQuiet \/ PublishRestart \/ CompletePreparation
    \/ WatchTransaction \/ AwaitExit \/ ClaimRestart \/ ClearPrepare \/ ClearAck
    \/ LaunchStarting \/ MarkLaunching \/ LaunchRefused \/ Bind \/ LaunchFails
    \/ RecordChild \/ Complete \/ ForgetJournal \/ WatchStop
    \/ StopDone \/ WatchStart \/ Throw \/ WatchCheck \/ ScriptDies
    => Apart
BY DEF Outside, WatchPrepare, WatchResume, WatchComplete, Identify, PublishPrepare,
    AwaitAck, CheckQuiet, PublishRestart, CompletePreparation,
    WatchTransaction, AwaitExit, ClaimRestart, ClearPrepare, ClearAck,
    LaunchStarting, MarkLaunching, LaunchRefused, Bind, LaunchFails,
    RecordChild, Complete, ForgetJournal, WatchStop, StopDone,
    WatchStart, Throw, WatchCheck, ScriptDies

\* Type correctness is preserved by every step.
LEMMA TypeStep ==
    TypeOK /\ [Next]_vars => TypeOK'
<1> SUFFICES ASSUME TypeOK, [Next]_vars
             PROVE  TypeOK'
  OBVIOUS
<1> USE DEF TypeOK, RowStates, OnlyRows, inside, work, script, counts, Apart, Outside, Tally
<1>1a. ASSUME NEW j \in Jobs, Accept(j) PROVE TypeOK'
  BY <1>1a DEF Accept
<1>1b. ASSUME NEW j \in Jobs, Start(j) PROVE TypeOK'
  BY <1>1b DEF Start, GateState, Key
<1>1c. ASSUME NEW j \in Jobs, Acknowledged(j) PROVE TypeOK'
  BY <1>1c DEF Acknowledged, Answered
<1>1d. ASSUME NEW j \in Jobs, Rejected(j) PROVE TypeOK'
  BY <1>1d DEF Rejected, Answered, Fault
<1>1e. ASSUME NEW j \in Jobs, AnswerLost(j) PROVE TypeOK'
  BY <1>1e DEF AnswerLost, Answered, Fault
<1>2. ASSUME NEW j \in Jobs, Ask(j) PROVE TypeOK'
  BY <1>2 DEF Ask
<1>3. ASSUME NEW j \in Jobs, Answer(j) PROVE TypeOK'
  BY <1>3 DEF Answer
<1>4. ASSUME NEW j \in Jobs, TurnEnds(j) PROVE TypeOK'
  BY <1>4 DEF TurnEnds
<1>5. ASSUME NEW j \in Jobs, FinishRow(j) PROVE TypeOK'
  BY <1>5 DEF FinishRow
<1>5a. ASSUME NEW j \in Jobs, Recover(j) PROVE TypeOK'
  BY <1>5a DEF Recover
<1>5b. ASSUME NEW j \in Jobs, Resolve(j) PROVE TypeOK'
  BY <1>5b DEF Resolve
<1>6. CASE EnterWork
  BY <1>6 DEF EnterWork, WorkOpen, Sealed, GateState, Key, NoKey
<1>7. CASE EnterControl
  BY <1>7 DEF EnterControl, ControlOpen, Sealed, GateState, Key, NoKey
<1>8. CASE ClonePermit
  BY <1>8 DEF ClonePermit, GateState, Key
<1>9. CASE LeavePermit
  BY <1>9 DEF LeavePermit, Returned, GateState, Key
<1>10. CASE ClaimPrepare
  BY <1>10 DEF ClaimPrepare, SealedBy, Here, Sealed, GateState, Markers, Key,
    NoKey, Phases
<1>11. CASE WaitDrained
  BY <1>11 DEF WaitDrained, Here, Phases
<1>12. CASE ReadRows
  <2>1. gate' \in GateState
    BY <1>12, ControlsTyped DEF ReadRows, Retry
  <2> QED
    BY <1>12, <2>1 DEF ReadRows, Blocked, Retry, Phases
<1>13. CASE ObserveServer
  <2>1. gate' \in GateState
    BY <1>13, ControlsTyped DEF ObserveServer,
      Retry, Here
  <2> QED
    BY <1>13, <2>1 DEF ObserveServer, Retry, Here, Phases
<1>14. CASE ReadRowsAgain
  <2>1. gate' \in GateState
    BY <1>14, ControlsTyped DEF ReadRowsAgain,
      Retry, Here
  <2> QED
    BY <1>14, <2>1 DEF ReadRowsAgain, Retry, Here, Phases
<1>15. CASE ObserveServerAgain
  <2>1. gate' \in GateState
    BY <1>15, ControlsTyped DEF
      ObserveServerAgain, AfterInspection, Retry, Here
  <2> QED
    BY <1>15, <2>1 DEF ObserveServerAgain, AfterInspection, Retry,
      Here, Phases
<1>16. CASE Cleanup
  <2>1. CASE phase' = "ack"
    BY <1>16, <2>1 DEF Cleanup, Leave, Gone, Phases
  <2>2. CASE Fault /\ Leave /\ UNCHANGED <<journal, script, runs,
                                             nonces, entries, drained>>
    BY <2>2, GoneTyped, LeaveTyped, FaultTyped DEF InsideOK, Leave
  <2> QED BY <1>16, <2>1, <2>2 DEF Cleanup
<1>17. CASE Acknowledge
  BY <1>17 DEF Acknowledge, MayAcknowledge, Markers, Key, Phases
<1>18. CASE ConfirmAck
  BY <1>18 DEF ConfirmAck, Markers, Key, NoKey, Phases
<1>19. CASE RestartExit
  BY <1>19 DEF RestartExit, Leave, Gone, GateState, Markers, Key, NoKey, Open,
    Phases
<1>20. CASE StopExit
  BY <1>20 DEF StopExit, Leave, Gone, GateState, Markers, Key, NoKey, Open,
    Phases
<1>21. CASE WatchPrepare
  BY <1>21 DEF WatchPrepare, NewFence, NoOperation, Identified, Journals,
    Markers, Key, NoKey, Places
<1>22. CASE WatchResume
  BY <1>22 DEF WatchResume, Journals, Key, NoKey, Places
<1>23. CASE WatchComplete
  BY <1>23 DEF WatchComplete, Authorised, Journals, Key, NoKey
<1>24. CASE Identify
  BY <1>24 DEF Identify, NoKey, Places
<1>25. CASE PublishPrepare
  BY <1>25 DEF PublishPrepare, Markers, Key, Places
<1>26. CASE AwaitAck
  BY <1>26 DEF AwaitAck, Places
<1>27. CASE CheckQuiet
  BY <1>27 DEF CheckQuiet, Places
<1>28. CASE PublishRestart
  BY <1>28 DEF PublishRestart, Bound, Markers, Key, NoKey, Places
<1>29. CASE CompletePreparation
  BY <1>29 DEF CompletePreparation, Authorised, Journals, Key, Places
<1>30. CASE WatchTransaction
  BY <1>30 DEF WatchTransaction, Launchable, Journals, Key, Places
<1>31. CASE AwaitExit
  BY <1>31 DEF AwaitExit, Places
<1>32. CASE ClaimRestart
  BY <1>32 DEF ClaimRestart, Markers, Key, NoKey, Places
<1>33. CASE ClearPrepare
  BY <1>33 DEF ClearPrepare, Markers, Key, NoKey, Places
<1>34. CASE ClearAck
  BY <1>34 DEF ClearAck, ClearDead, Markers, Journals, Key, NoKey, Places
<1>35. CASE LaunchStarting
  BY <1>35 DEF LaunchStarting, Launches, Places
<1>36. CASE RecordChild
  BY <1>36 DEF RecordChild, Journals, Key, Places
<1>37. CASE Complete
  BY <1>37 DEF Complete, Markers, Key, NoKey, Places
<1>38. CASE ForgetJournal
  BY <1>38 DEF ForgetJournal, Journals, Key, NoKey, NoJournal, Places
<1>39. CASE WatchStop
  <2>1. \A f \in Markers : [f EXCEPT !.prepare = NoKey, !.ack = NoKey, !.identity = 0,
                                        !.stop = FALSE] \in Markers
    BY DEF Markers, Key, NoKey
  <2>2. files \in Markers
    OBVIOUS
  <2>3. files' \in Markers
    BY <1>39, <2>1, <2>2 DEF WatchStop
  <2> QED
    BY <1>39, <2>3 DEF WatchStop, Places
<1>40. CASE StopDone
  BY <1>40 DEF StopDone, Markers, Key, Places
<1>41. CASE WatchStart
  BY <1>41 DEF WatchStart, ClearDead, NoOperation, Markers, Key, NoKey, Places
<1>42. CASE Spawn
  BY <1>42, StartedTyped DEF InsideOK, Spawn, Places
<1>43. CASE Throw
  BY <1>43 DEF Throw, Places
<1>44. CASE Quarantine
  <2>1. gate' \in GateState
    BY <1>44 DEF GateState, Key, NoKey, Quarantine, SealedBy, Untrusted
  <2> QED
    BY <1>44, <2>1, FaultTyped DEF Quarantine, SealedBy, Untrusted,
      Sealed, Phases
<1>45. CASE FinalTimeout
  BY <1>45 DEF FinalTimeout, Retry, Here, GateState, Key, Phases
<1>46. CASE InspectionFails
  <2>1. gate' \in GateState
    BY <1>46, ControlsTyped DEF InspectionFails,
      Retry
  <2> QED
    BY <1>46, <2>1, FaultTyped DEF InspectionFails, Retry, Phases
<1>47. CASE Crash
  BY <1>47, GoneTyped, FaultTyped DEF InsideOK, Crash
<1>48. CASE RequestStop
  <2>1. \A f \in Markers : [f EXCEPT !.stop = TRUE] \in Markers
    BY DEF Markers, Key, NoKey
  <2>2. files \in Markers
    OBVIOUS
  <2>3. files' \in Markers
    BY <1>48, <2>1, <2>2 DEF RequestStop
  <2> QED
    BY <1>48, <2>3, FaultTyped DEF RequestStop, Places
<1>49. CASE WatchCheck
  BY <1>49 DEF WatchCheck, NewFence, NoOperation, Identified, Markers, Key,
    NoKey, Places
<1>50. CASE WatchUnhealthy
  BY <1>50, GoneTyped, FaultTyped DEF InsideOK, WatchUnhealthy, Places, Key,
      NoKey
<1>51. CASE ManualStart
  BY <1>51, StartedTyped, FaultTyped DEF InsideOK, ManualStart, Places
<1>52. CASE ScriptDies
  BY <1>52 DEF ScriptDies, Fault, Places
<1>53. CASE MarkLaunching
  BY <1>53 DEF MarkLaunching, Journals, Key, Places
<1>54. CASE LaunchRefused
  BY <1>54 DEF LaunchRefused, Launches, Places
<1>55. CASE Bind
  BY <1>55 DEF Bind, Launches, Places
<1>56. CASE LaunchFails
  BY <1>56, FaultTyped DEF LaunchFails, Launches, Places
<1>57. CASE UNCHANGED vars
  BY <1>57 DEF vars
<1> QED
  BY <1>1a, <1>1b, <1>1c, <1>1d, <1>1e, <1>5a, <1>5b, <1>2, <1>3, <1>4, <1>5, <1>6, <1>7, <1>8, <1>9, <1>10, <1>11,
     <1>12, <1>13, <1>14, <1>15, <1>16, <1>17, <1>18, <1>19, <1>20, <1>21,
     <1>22, <1>23, <1>24, <1>25, <1>26, <1>27, <1>28, <1>29, <1>30, <1>31,
     <1>32, <1>33, <1>34, <1>35, <1>36, <1>37, <1>38, <1>39, <1>40, <1>41,
     <1>42, <1>43, <1>44, <1>45, <1>46, <1>47, <1>48, <1>49, <1>50, <1>51,
     <1>52, <1>53, <1>54, <1>55, <1>56, <1>57
  DEF Next, Row, Request, Launching, Admission, Gateway, Script, Preparing,
      Restarting, Watching, Disturbance

\* A process, its gate and its app-server come and go together.
LEMMA ProcessStep ==
    TypeOK /\ ProcessInv /\ [Next]_vars => ProcessInv'
<1> SUFFICES ASSUME TypeOK /\ ProcessInv, [Next]_vars
             PROVE  ProcessInv'
  OBVIOUS
<1> USE DEF TypeOK, GateState, Markers, Journals, Key, NoKey, Open, Sealed,
    ProcessInv, Phases, inside, work, script, counts, Apart, Outside, Tally
<1>1a. ASSUME NEW j \in Jobs, Accept(j) PROVE ProcessInv'
  BY <1>1a DEF Accept, OnlyRows
<1>1b. ASSUME NEW j \in Jobs, Start(j) PROVE ProcessInv'
  BY <1>1b DEF Start, OnlyRows
<1>1c. ASSUME NEW j \in Jobs, Acknowledged(j) PROVE ProcessInv'
  BY <1>1c DEF Acknowledged, Answered, OnlyRows
<1>1d. ASSUME NEW j \in Jobs, Rejected(j) PROVE ProcessInv'
  BY <1>1d DEF Rejected, Answered, Fault, OnlyRows
<1>1e. ASSUME NEW j \in Jobs, AnswerLost(j) PROVE ProcessInv'
  BY <1>1e DEF AnswerLost, Answered, Fault, OnlyRows
<1>2. ASSUME NEW j \in Jobs, Ask(j) PROVE ProcessInv'
  BY <1>2 DEF Ask, OnlyRows
<1>3. ASSUME NEW j \in Jobs, Answer(j) PROVE ProcessInv'
  BY <1>3 DEF Answer, OnlyRows
<1>4. ASSUME NEW j \in Jobs, TurnEnds(j) PROVE ProcessInv'
  BY <1>4 DEF TurnEnds, OnlyRows
<1>5. ASSUME NEW j \in Jobs, FinishRow(j) PROVE ProcessInv'
  BY <1>5 DEF FinishRow, OnlyRows
<1>5a. ASSUME NEW j \in Jobs, Recover(j) PROVE ProcessInv'
  BY <1>5a DEF Recover, OnlyRows
<1>5b. ASSUME NEW j \in Jobs, Resolve(j) PROVE ProcessInv'
  BY <1>5b DEF Resolve, OnlyRows
<1>6. CASE EnterWork
  BY <1>6 DEF EnterWork, WorkOpen
<1>7. CASE EnterControl
  BY <1>7 DEF EnterControl, ControlOpen
<1>8. CASE ClonePermit
  BY <1>8 DEF ClonePermit
<1>9. CASE LeavePermit
  BY <1>9 DEF LeavePermit, Returned
<1>10. CASE ClaimPrepare
  BY <1>10 DEF ClaimPrepare, SealedBy, Here
<1>11. CASE WaitDrained
  BY <1>11 DEF WaitDrained, Here
<1>12. CASE ReadRows
  BY <1>12 DEF ReadRows, Blocked, Retry
<1>13. CASE ObserveServer
  BY <1>13 DEF ObserveServer, Retry, Here
<1>14. CASE ReadRowsAgain
  BY <1>14 DEF ReadRowsAgain, Retry, Here
<1>15. CASE ObserveServerAgain
  BY <1>15 DEF ObserveServerAgain, AfterInspection, Retry, Here
<1>16. CASE Cleanup
  BY <1>16 DEF Cleanup, Fault, Leave, Gone
<1>17. CASE Acknowledge
  BY <1>17 DEF Acknowledge, MayAcknowledge
<1>18. CASE ConfirmAck
  BY <1>18 DEF ConfirmAck
<1>19. CASE RestartExit
  BY <1>19 DEF RestartExit, Leave, Gone
<1>20. CASE StopExit
  BY <1>20 DEF StopExit, Leave, Gone
<1>21. CASE Quarantine
  BY <1>21 DEF Quarantine, SealedBy, Untrusted, Fault
<1>22. CASE FinalTimeout
  BY <1>22 DEF FinalTimeout, Retry, Here
<1>23. CASE InspectionFails
  BY <1>23 DEF InspectionFails, Fault, Retry
<1>24. CASE Crash
  BY <1>24 DEF Crash, Fault, Gone
<1>25. CASE RequestStop
  BY <1>25 DEF RequestStop, Fault
<1>26. CASE WatchUnhealthy
  BY <1>26 DEF WatchUnhealthy, Fault, Gone, NoOperation
<1>27. CASE Spawn
  BY <1>27 DEF Spawn, Started, MayInitialize
<1>28. CASE ManualStart
  BY <1>28 DEF ManualStart, Fault, Started, MayInitialize
<1>29. CASE Apart
  BY <1>29
<1>30. CASE UNCHANGED vars
  BY <1>30 DEF vars
<1> QED
  BY <1>1a, <1>1b, <1>1c, <1>1d, <1>1e, <1>2, <1>3, <1>4, <1>5, <1>5a, <1>5b,
     <1>6, <1>7, <1>8, <1>9, <1>10, <1>11, <1>12, <1>13, <1>14, <1>15, <1>16,
     <1>17, <1>18, <1>19, <1>20, <1>21, <1>22, <1>23, <1>24, <1>25, <1>26,
     <1>27, <1>28, <1>29, <1>30, ScriptStaysOutside
  DEF Next, Row, Request, Launching, Admission, Gateway, Script, Preparing,
      Restarting, Watching, Disturbance

\* The controls stay closed from the final inspection on.
LEMMA ControlStep ==
    TypeOK /\ ProcessInv /\ ControlInv /\ [Next]_vars => ControlInv'
<1> SUFFICES ASSUME TypeOK /\ ProcessInv /\ ControlInv, [Next]_vars
             PROVE  ControlInv'
  OBVIOUS
<1> USE DEF TypeOK, GateState, Markers, Journals, Key, NoKey, Open, Sealed,
    ProcessInv, ControlInv, Drained, Finishing, inside, work, script, counts,
    Apart, Outside, Tally
<1>1a. ASSUME NEW j \in Jobs, Accept(j) PROVE ControlInv'
  BY <1>1a DEF Accept, OnlyRows
<1>1b. ASSUME NEW j \in Jobs, Start(j) PROVE ControlInv'
  BY <1>1b DEF Start, OnlyRows
<1>1c. ASSUME NEW j \in Jobs, Acknowledged(j) PROVE ControlInv'
  BY <1>1c DEF Acknowledged, Answered, OnlyRows
<1>1d. ASSUME NEW j \in Jobs, Rejected(j) PROVE ControlInv'
  BY <1>1d DEF Rejected, Answered, Fault, OnlyRows
<1>1e. ASSUME NEW j \in Jobs, AnswerLost(j) PROVE ControlInv'
  BY <1>1e DEF AnswerLost, Answered, Fault, OnlyRows
<1>2. ASSUME NEW j \in Jobs, Ask(j) PROVE ControlInv'
  BY <1>2 DEF Ask, OnlyRows
<1>3. ASSUME NEW j \in Jobs, Answer(j) PROVE ControlInv'
  BY <1>3 DEF Answer, OnlyRows
<1>4. ASSUME NEW j \in Jobs, TurnEnds(j) PROVE ControlInv'
  BY <1>4 DEF TurnEnds, OnlyRows
<1>5. ASSUME NEW j \in Jobs, FinishRow(j) PROVE ControlInv'
  BY <1>5 DEF FinishRow, OnlyRows
<1>5a. ASSUME NEW j \in Jobs, Recover(j) PROVE ControlInv'
  BY <1>5a DEF Recover, OnlyRows
<1>5b. ASSUME NEW j \in Jobs, Resolve(j) PROVE ControlInv'
  BY <1>5b DEF Resolve, OnlyRows
<1>6. CASE EnterWork
  BY <1>6 DEF EnterWork, WorkOpen
<1>7. CASE EnterControl
  BY <1>7 DEF EnterControl, ControlOpen
<1>8. CASE ClonePermit
  BY <1>8 DEF ClonePermit
<1>9. CASE LeavePermit
  BY <1>9 DEF LeavePermit, Returned
<1>10. CASE ClaimPrepare
  BY <1>10 DEF ClaimPrepare, SealedBy, Here
<1>11. CASE WaitDrained
  BY <1>11 DEF WaitDrained, Here
<1>12. CASE ReadRows
  BY <1>12 DEF ReadRows, Blocked, Retry
<1>13. CASE ObserveServer
  BY <1>13 DEF ObserveServer, Retry, Here
<1>14. CASE ReadRowsAgain
  BY <1>14 DEF ReadRowsAgain, Retry, Here
<1>15. CASE ObserveServerAgain
  BY <1>15 DEF ObserveServerAgain, AfterInspection, Retry, Here
<1>16. CASE Cleanup
  BY <1>16 DEF Cleanup, Fault, Leave, Gone
<1>17. CASE Acknowledge
  BY <1>17 DEF Acknowledge, MayAcknowledge
<1>18. CASE ConfirmAck
  BY <1>18 DEF ConfirmAck
<1>19. CASE RestartExit
  BY <1>19 DEF RestartExit, Leave, Gone
<1>20. CASE StopExit
  BY <1>20 DEF StopExit, Leave, Gone
<1>21. CASE Quarantine
  BY <1>21 DEF Quarantine, SealedBy, Untrusted, Fault
<1>22. CASE FinalTimeout
  BY <1>22 DEF FinalTimeout, Retry, Here
<1>23. CASE InspectionFails
  BY <1>23 DEF InspectionFails, Fault, Retry
<1>24. CASE Crash
  BY <1>24 DEF Crash, Fault, Gone
<1>25. CASE RequestStop
  BY <1>25 DEF RequestStop, Fault
<1>26. CASE WatchUnhealthy
  BY <1>26 DEF WatchUnhealthy, Fault, Gone, NoOperation
<1>27. CASE Spawn
  BY <1>27 DEF Spawn, Started, MayInitialize
<1>28. CASE ManualStart
  BY <1>28 DEF ManualStart, Fault, Started, MayInitialize
<1>29. CASE Apart
  BY <1>29
<1>30. CASE UNCHANGED vars
  BY <1>30 DEF vars
<1> QED
  BY <1>1a, <1>1b, <1>1c, <1>1d, <1>1e, <1>2, <1>3, <1>4, <1>5, <1>5a, <1>5b,
     <1>6, <1>7, <1>8, <1>9, <1>10, <1>11, <1>12, <1>13, <1>14, <1>15, <1>16,
     <1>17, <1>18, <1>19, <1>20, <1>21, <1>22, <1>23, <1>24, <1>25, <1>26,
     <1>27, <1>28, <1>29, <1>30, ScriptStaysOutside
  DEF Next, Row, Request, Launching, Admission, Gateway, Script, Preparing,
      Restarting, Watching, Disturbance

\* A sealed gate with its controls closed gives out no permit.
LEMMA PermitStep ==
    TypeOK /\ ProcessInv /\ ControlInv /\ PermitInv /\ [Next]_vars => PermitInv'
<1> SUFFICES ASSUME TypeOK /\ ProcessInv /\ ControlInv /\ PermitInv, [Next]_vars
             PROVE  PermitInv'
  OBVIOUS
<1> USE DEF TypeOK, GateState, Markers, Journals, Key, NoKey, Open, Sealed,
    ProcessInv, ControlInv, PermitInv, Drained, Finishing, ControlOpen,
    NoPermits, InFlight, RowStates, inside, work, script, counts, Apart, Outside, Tally
<1>1a. ASSUME NEW j \in Jobs, Accept(j) PROVE PermitInv'
  BY <1>1a DEF Accept, OnlyRows
<1>1b. ASSUME NEW j \in Jobs, Start(j) PROVE PermitInv'
  BY <1>1b DEF Start, OnlyRows
<1>1c. ASSUME NEW j \in Jobs, Acknowledged(j) PROVE PermitInv'
  BY <1>1c DEF Acknowledged, Answered, OnlyRows
<1>1d. ASSUME NEW j \in Jobs, Rejected(j) PROVE PermitInv'
  BY <1>1d DEF Rejected, Answered, Fault, OnlyRows
<1>1e. ASSUME NEW j \in Jobs, AnswerLost(j) PROVE PermitInv'
  BY <1>1e DEF AnswerLost, Answered, Fault, OnlyRows
<1>2. ASSUME NEW j \in Jobs, Ask(j) PROVE PermitInv'
  BY <1>2 DEF Ask, OnlyRows
<1>3. ASSUME NEW j \in Jobs, Answer(j) PROVE PermitInv'
  BY <1>3 DEF Answer, OnlyRows
<1>4. ASSUME NEW j \in Jobs, TurnEnds(j) PROVE PermitInv'
  BY <1>4 DEF TurnEnds, OnlyRows
<1>5. ASSUME NEW j \in Jobs, FinishRow(j) PROVE PermitInv'
  BY <1>5 DEF FinishRow, OnlyRows
<1>5a. ASSUME NEW j \in Jobs, Recover(j) PROVE PermitInv'
  BY <1>5a DEF Recover, OnlyRows
<1>5b. ASSUME NEW j \in Jobs, Resolve(j) PROVE PermitInv'
  BY <1>5b DEF Resolve, OnlyRows
<1>6. CASE EnterWork
  BY <1>6 DEF EnterWork, WorkOpen
<1>7. CASE EnterControl
  BY <1>7 DEF EnterControl
<1>8. CASE ClonePermit
  BY <1>8 DEF ClonePermit
<1>9. CASE LeavePermit
  BY <1>9 DEF LeavePermit, Returned
<1>10. CASE ClaimPrepare
  BY <1>10 DEF ClaimPrepare, SealedBy, Here
<1>11. CASE WaitDrained
  BY <1>11 DEF WaitDrained, Here
<1>12. CASE ReadRows
  BY <1>12 DEF ReadRows, Blocked, Retry
<1>13. CASE ObserveServer
  BY <1>13 DEF ObserveServer, Retry, Here
<1>14. CASE ReadRowsAgain
  BY <1>14 DEF ReadRowsAgain, Retry, Here
<1>15. CASE ObserveServerAgain
  BY <1>15 DEF ObserveServerAgain, AfterInspection, Retry, Here
<1>16. CASE Cleanup
  BY <1>16 DEF Cleanup, Fault, Leave, Gone
<1>17. CASE Acknowledge
  BY <1>17 DEF Acknowledge, MayAcknowledge
<1>18. CASE ConfirmAck
  BY <1>18 DEF ConfirmAck
<1>19. CASE RestartExit
  BY <1>19 DEF RestartExit, Leave, Gone
<1>20. CASE StopExit
  BY <1>20 DEF StopExit, Leave, Gone
<1>21. CASE Quarantine
  BY <1>21 DEF Quarantine, SealedBy, Untrusted, Fault
<1>22. CASE FinalTimeout
  BY <1>22 DEF FinalTimeout, Retry, Here
<1>23. CASE InspectionFails
  BY <1>23 DEF InspectionFails, Fault, Retry
<1>24. CASE Crash
  BY <1>24 DEF Crash, Fault, Gone
<1>25. CASE RequestStop
  BY <1>25 DEF RequestStop, Fault
<1>26. CASE WatchUnhealthy
  BY <1>26 DEF WatchUnhealthy, Fault, Gone, NoOperation
<1>27. CASE Spawn
  BY <1>27 DEF Spawn, Started, MayInitialize
<1>28. CASE ManualStart
  BY <1>28 DEF ManualStart, Fault, Started, MayInitialize
<1>29. CASE Apart
  BY <1>29
<1>30. CASE UNCHANGED vars
  BY <1>30 DEF vars
<1> QED
  BY <1>1a, <1>1b, <1>1c, <1>1d, <1>1e, <1>2, <1>3, <1>4, <1>5, <1>5a, <1>5b,
     <1>6, <1>7, <1>8, <1>9, <1>10, <1>11, <1>12, <1>13, <1>14, <1>15, <1>16,
     <1>17, <1>18, <1>19, <1>20, <1>21, <1>22, <1>23, <1>24, <1>25, <1>26,
     <1>27, <1>28, <1>29, <1>30, ScriptStaysOutside
  DEF Next, Row, Request, Launching, Admission, Gateway, Script, Preparing,
      Restarting, Watching, Disturbance

\* Without a permit no row is started, so the final inspection stays true.
LEMMA RowStep ==
    TypeOK /\ ControlInv /\ PermitInv /\ RowInv /\ [Next]_vars => RowInv'
<1> SUFFICES ASSUME TypeOK /\ ControlInv /\ PermitInv /\ RowInv, [Next]_vars
             PROVE  RowInv'
  OBVIOUS
<1> USE DEF TypeOK, RowStates, GateState, ControlInv, PermitInv, RowInv, Drained,
    Finishing, InFlight, BusyIn, Busy, Quiet, Blocked, inside, work, script, counts, Apart, Outside, Tally
<1>1a. ASSUME NEW j \in Jobs, Accept(j) PROVE RowInv'
  BY <1>1a DEF Accept, OnlyRows
<1>1b. ASSUME NEW j \in Jobs, Start(j) PROVE RowInv'
  BY <1>1b DEF Start, OnlyRows
<1>1c. ASSUME NEW j \in Jobs, Acknowledged(j) PROVE RowInv'
  BY <1>1c DEF Acknowledged, Answered, OnlyRows
<1>1d. ASSUME NEW j \in Jobs, Rejected(j) PROVE RowInv'
  BY <1>1d DEF Rejected, Answered, Fault, OnlyRows
<1>1e. ASSUME NEW j \in Jobs, AnswerLost(j) PROVE RowInv'
  BY <1>1e DEF AnswerLost, Answered, Fault, OnlyRows
<1>2. ASSUME NEW j \in Jobs, Ask(j) PROVE RowInv'
  BY <1>2 DEF Ask, OnlyRows
<1>3. ASSUME NEW j \in Jobs, Answer(j) PROVE RowInv'
  BY <1>3 DEF Answer, OnlyRows
<1>4. ASSUME NEW j \in Jobs, TurnEnds(j) PROVE RowInv'
  BY <1>4 DEF TurnEnds, OnlyRows
<1>5. ASSUME NEW j \in Jobs, FinishRow(j) PROVE RowInv'
  BY <1>5 DEF FinishRow, OnlyRows
<1>5a. ASSUME NEW j \in Jobs, Recover(j) PROVE RowInv'
  BY <1>5a DEF Recover, OnlyRows
<1>5b. ASSUME NEW j \in Jobs, Resolve(j) PROVE RowInv'
  BY <1>5b DEF Resolve, OnlyRows
<1>6. CASE EnterWork
  BY <1>6 DEF EnterWork, WorkOpen, Sealed
<1>7. CASE EnterControl
  BY <1>7 DEF EnterControl, ControlOpen, Sealed
<1>8. CASE ClonePermit
  BY <1>8 DEF ClonePermit
<1>9. CASE LeavePermit
  BY <1>9 DEF LeavePermit, Returned
<1>10. CASE ClaimPrepare
  BY <1>10 DEF ClaimPrepare, SealedBy, Here, Sealed
<1>11. CASE WaitDrained
  BY <1>11 DEF WaitDrained, Here
<1>12. CASE ReadRows
  BY <1>12 DEF ReadRows, Retry
<1>13. CASE ObserveServer
  BY <1>13 DEF ObserveServer, Retry, Here
<1>14. CASE ReadRowsAgain
  BY <1>14 DEF ReadRowsAgain, Retry, Here
<1>15. CASE ObserveServerAgain
  BY <1>15 DEF ObserveServerAgain, AfterInspection, Retry, Here
<1>16. CASE Cleanup
  BY <1>16 DEF Cleanup, Fault, Leave, Gone
<1>17. CASE Acknowledge
  BY <1>17 DEF Acknowledge, MayAcknowledge
<1>18. CASE ConfirmAck
  BY <1>18 DEF ConfirmAck
<1>19. CASE RestartExit
  BY <1>19 DEF RestartExit, Leave, Gone
<1>20. CASE StopExit
  BY <1>20 DEF StopExit, Leave, Gone
<1>21. CASE Quarantine
  BY <1>21 DEF Quarantine, SealedBy, Untrusted, Sealed, Fault
<1>22. CASE FinalTimeout
  BY <1>22 DEF FinalTimeout, Retry, Here
<1>23. CASE InspectionFails
  BY <1>23 DEF InspectionFails, Fault, Retry
<1>24. CASE Crash
  BY <1>24 DEF Crash, Fault, Gone
<1>25. CASE RequestStop
  BY <1>25 DEF RequestStop, Fault
<1>26. CASE WatchUnhealthy
  BY <1>26 DEF WatchUnhealthy, Fault, Gone, NoOperation
<1>27. CASE Spawn
  BY <1>27 DEF Spawn, Started, MayInitialize
<1>28. CASE ManualStart
  BY <1>28 DEF ManualStart, Fault, Started, MayInitialize
<1>29. CASE Apart
  BY <1>29
<1>30. CASE UNCHANGED vars
  BY <1>30 DEF vars
<1> QED
  BY <1>1a, <1>1b, <1>1c, <1>1d, <1>1e, <1>2, <1>3, <1>4, <1>5, <1>5a, <1>5b,
     <1>6, <1>7, <1>8, <1>9, <1>10, <1>11, <1>12, <1>13, <1>14, <1>15, <1>16,
     <1>17, <1>18, <1>19, <1>20, <1>21, <1>22, <1>23, <1>24, <1>25, <1>26,
     <1>27, <1>28, <1>29, <1>30, ScriptStaysOutside
  DEF Next, Row, Request, Launching, Admission, Gateway, Script, Preparing,
      Restarting, Watching, Disturbance

\* An acknowledgement is published by a drained process and read as that process's.
LEMMA MarkerStep ==
    TypeOK /\ ProcessInv /\ ControlInv /\ RowInv /\ MarkerInv /\ [Next]_vars => MarkerInv'
<1> SUFFICES ASSUME TypeOK /\ ProcessInv /\ ControlInv /\ RowInv /\ MarkerInv, [Next]_vars
             PROVE  MarkerInv'
  OBVIOUS
<1> USE DEF TypeOK, GateState, Markers, Journals, Key, NoKey, Open, Sealed,
    MarkerInv, ProcessInv, ControlInv, RowInv, Drained, Finishing, inside,
    work, script, counts, Apart, Outside, Tally
<1>1. CASE Row
  BY <1>1 DEF Row, Request, Accept, Start, Acknowledged, Rejected, AnswerLost, Answered,
     Ask, Answer, TurnEnds, FinishRow, Recover, Resolve, OnlyRows
<1>2. CASE Admission
  BY <1>2 DEF Admission, EnterWork, EnterControl, ClonePermit, LeavePermit
<1>3. CASE ClaimPrepare
  BY <1>3 DEF ClaimPrepare, SealedBy, Here
<1>4. CASE WaitDrained
  BY <1>4 DEF WaitDrained, Here
<1>5. CASE ReadRows
  BY <1>5 DEF ReadRows, Blocked, Retry
<1>6. CASE ObserveServer
  BY <1>6 DEF ObserveServer, Retry, Here
<1>7. CASE ReadRowsAgain
  BY <1>7 DEF ReadRowsAgain, Retry, Here
<1>8. CASE ObserveServerAgain
  BY <1>8 DEF ObserveServerAgain, AfterInspection, Retry, Here
<1>9. CASE Cleanup
  BY <1>9 DEF Cleanup, Fault, Leave, Gone
<1>10. CASE Acknowledge
  BY <1>10 DEF Acknowledge, MayAcknowledge
<1>11. CASE ConfirmAck
  BY <1>11 DEF ConfirmAck
<1>12. CASE RestartExit
  BY <1>12 DEF RestartExit, Leave, Gone
<1>13. CASE StopExit
  BY <1>13 DEF StopExit, Leave, Gone
<1>14. CASE WatchPrepare
  BY <1>14 DEF WatchPrepare, NewFence, NoOperation, Identified
<1>15. CASE WatchResume
  BY <1>15 DEF WatchResume
<1>16. CASE WatchComplete
  BY <1>16 DEF WatchComplete, Authorised
<1>17. CASE Identify
  BY <1>17 DEF Identify
<1>18. CASE PublishPrepare
  BY <1>18 DEF PublishPrepare
<1>19. CASE AwaitAck
  BY <1>19 DEF AwaitAck
<1>20. CASE CheckQuiet
  BY <1>20 DEF CheckQuiet
<1>21. CASE PublishRestart
  BY <1>21 DEF PublishRestart, Bound
<1>22. CASE CompletePreparation
  BY <1>22 DEF CompletePreparation, Authorised
<1>23. CASE WatchTransaction
  BY <1>23 DEF WatchTransaction, Launchable
<1>24. CASE AwaitExit
  BY <1>24 DEF AwaitExit
<1>25. CASE ClaimRestart
  BY <1>25 DEF ClaimRestart
<1>26. CASE ClearPrepare
  BY <1>26 DEF ClearPrepare
<1>27. CASE ClearAck
  BY <1>27 DEF ClearAck, ClearDead
<1>28. CASE LaunchStarting
  BY <1>28 DEF LaunchStarting
<1>29. CASE RecordChild
  BY <1>29 DEF RecordChild
<1>30. CASE Complete
  BY <1>30 DEF Complete
<1>31. CASE ForgetJournal
  BY <1>31 DEF ForgetJournal
<1>32. CASE WatchStop
  BY <1>32 DEF WatchStop
<1>33. CASE StopDone
  BY <1>33 DEF StopDone
<1>34. CASE WatchStart
  BY <1>34 DEF WatchStart, ClearDead, NoOperation
<1>35. CASE Spawn
  BY <1>35 DEF Spawn, Started, MayInitialize
<1>36. CASE Throw
  BY <1>36 DEF Throw
<1>37. CASE Quarantine
  BY <1>37 DEF Quarantine, SealedBy, Untrusted, Fault
<1>38. CASE FinalTimeout
  BY <1>38 DEF FinalTimeout, Retry, Here
<1>39. CASE InspectionFails
  BY <1>39 DEF InspectionFails, Fault, Retry
<1>40. CASE Crash
  BY <1>40 DEF Crash, Fault, Gone
<1>41. CASE RequestStop
  BY <1>41 DEF RequestStop, Fault
<1>42. CASE WatchCheck
  BY <1>42 DEF WatchCheck, NewFence, NoOperation, Identified
<1>43. CASE WatchUnhealthy
  BY <1>43 DEF WatchUnhealthy, Fault, Gone, NoOperation
<1>44. CASE ManualStart
  BY <1>44 DEF ManualStart, Fault, Started, MayInitialize
<1>45. CASE ScriptDies
  BY <1>45 DEF ScriptDies, Fault
<1>46. CASE MarkLaunching
  BY <1>46 DEF MarkLaunching
<1>47. CASE LaunchRefused
  BY <1>47 DEF LaunchRefused
<1>48. CASE Bind
  BY <1>48 DEF Bind
<1>49. CASE LaunchFails
  BY <1>49 DEF LaunchFails
<1>50. CASE UNCHANGED vars
  BY <1>50 DEF vars
<1> QED
  BY <1>1, <1>2, <1>3, <1>4, <1>5, <1>6, <1>7, <1>8, <1>9, <1>10, <1>11,
     <1>12, <1>13, <1>14, <1>15, <1>16, <1>17, <1>18, <1>19, <1>20, <1>21,
     <1>22, <1>23, <1>24, <1>25, <1>26, <1>27, <1>28, <1>29, <1>30, <1>31,
     <1>32, <1>33, <1>34, <1>35, <1>36, <1>37, <1>38, <1>39, <1>40, <1>41,
     <1>42, <1>43, <1>44, <1>45, <1>46, <1>47, <1>48, <1>49, <1>50
  DEF Next, Gateway, Script, Preparing, Restarting, Launching, Watching, Disturbance

\* Nothing but the script touches its state and its journal.
LEMMA RuntimeStaysInside ==
    (Row \/ Admission \/ Gateway \/ Quarantine \/ FinalTimeout \/ InspectionFails
       \/ Crash \/ RequestStop \/ ManualStart)
    => UNCHANGED <<journal, script>> /\ drained \subseteq drained'
BY DEF Row, Request, Accept, Start, Acknowledged, Rejected, AnswerLost, Answered, Ask,
    Answer, TurnEnds, FinishRow, Recover, Resolve, OnlyRows, Admission, EnterWork,
    EnterControl, ClonePermit, LeavePermit, Gateway, ClaimPrepare,
    WaitDrained, ReadRows, ObserveServer, ReadRowsAgain, ObserveServerAgain,
    Cleanup, Acknowledge, ConfirmAck, RestartExit, StopExit, Quarantine,
    FinalTimeout, InspectionFails, Crash, RequestStop, ManualStart, Here

\* The journal reaches a launch only through an acknowledgement.
LEMMA JournalStep ==
    TypeOK /\ MarkerInv /\ JournalInv /\ [Next]_vars => JournalInv'
<1> SUFFICES ASSUME TypeOK /\ MarkerInv /\ JournalInv, [Next]_vars
             PROVE  JournalInv'
  OBVIOUS
<1> USE DEF TypeOK, Markers, Journals, Key, NoKey, NoJournal, MarkerInv,
    JournalInv, LaunchWasAuthorised, Launchable, inside, work, script, counts,
    Apart, Outside, Tally
<1>1. CASE UNCHANGED <<journal, script>> /\ drained \subseteq drained'
  BY <1>1
<1>2. CASE WatchPrepare
  BY <1>2 DEF WatchPrepare, NewFence, NoOperation, Identified
<1>3. CASE WatchResume
  BY <1>3 DEF WatchResume
<1>4. CASE WatchComplete
  BY <1>4 DEF WatchComplete, Authorised
<1>5. CASE Identify
  BY <1>5 DEF Identify
<1>6. CASE PublishPrepare
  BY <1>6 DEF PublishPrepare
<1>7. CASE AwaitAck
  BY <1>7 DEF AwaitAck
<1>8. CASE CheckQuiet
  BY <1>8 DEF CheckQuiet
<1>9. CASE PublishRestart
  BY <1>9 DEF PublishRestart, Bound
<1>10. CASE CompletePreparation
  BY <1>10 DEF CompletePreparation, Authorised
<1>11. CASE WatchTransaction
  BY <1>11 DEF WatchTransaction
<1>12. CASE AwaitExit
  BY <1>12 DEF AwaitExit
<1>13. CASE ClaimRestart
  BY <1>13 DEF ClaimRestart
<1>14. CASE ClearPrepare
  BY <1>14 DEF ClearPrepare
<1>15. CASE ClearAck
  BY <1>15 DEF ClearAck, ClearDead
<1>16. CASE LaunchStarting
  BY <1>16 DEF LaunchStarting
<1>17. CASE RecordChild
  BY <1>17 DEF RecordChild
<1>18. CASE Complete
  BY <1>18 DEF Complete
<1>19. CASE ForgetJournal
  BY <1>19 DEF ForgetJournal
<1>20. CASE WatchStop
  BY <1>20 DEF WatchStop
<1>21. CASE StopDone
  BY <1>21 DEF StopDone
<1>22. CASE WatchStart
  BY <1>22 DEF WatchStart, ClearDead, NoOperation
<1>23. CASE Spawn
  BY <1>23 DEF Spawn, Started, MayInitialize
<1>24. CASE Throw
  BY <1>24 DEF Throw
<1>25. CASE WatchCheck
  BY <1>25 DEF WatchCheck, NewFence, NoOperation, Identified
<1>26. CASE WatchUnhealthy
  BY <1>26 DEF WatchUnhealthy, Fault, Gone, NoOperation
<1>27. CASE ScriptDies
  BY <1>27 DEF ScriptDies, Fault
<1>28. CASE MarkLaunching
  BY <1>28 DEF MarkLaunching
<1>29. CASE LaunchRefused
  BY <1>29 DEF LaunchRefused
<1>30. CASE Bind
  BY <1>30 DEF Bind
<1>31. CASE LaunchFails
  BY <1>31 DEF LaunchFails
<1>32. CASE UNCHANGED vars
  BY <1>32 DEF vars
<1> QED
  BY <1>1, <1>2, <1>3, <1>4, <1>5, <1>6, <1>7, <1>8, <1>9, <1>10, <1>11,
     <1>12, <1>13, <1>14, <1>15, <1>16, <1>17, <1>18, <1>19, <1>20, <1>21,
     <1>22, <1>23, <1>24, <1>25, <1>26, <1>27, <1>28, <1>29, <1>30, <1>31, <1>32,
     RuntimeStaysInside
  DEF Next, Script, Preparing, Restarting, Launching, Watching, Disturbance

\* What the end of a process does to the rows.
RowsAfterEnd == [j \in Jobs |-> IF j \in InFlight THEN "unknown" ELSE rows[j]]

\* What writes a row: its request, its end, recovery, a person, the end of the process.
LEMMA RowsWritten ==
    [Next]_vars =>
        \/ UNCHANGED rows
        \/ rows' = RowsAfterEnd /\ rt' = 0
        \/ \E j \in Jobs : Request(j) \/ FinishRow(j) \/ Recover(j) \/ Resolve(j)
<1> DEFINE W == \/ UNCHANGED rows
                \/ rows' = RowsAfterEnd /\ rt' = 0
                \/ \E j \in Jobs : Request(j) \/ FinishRow(j) \/ Recover(j) \/ Resolve(j)
<1> SUFFICES ASSUME [Next]_vars PROVE W
  OBVIOUS
<1>1. CASE Apart
  BY <1>1 DEF Apart, work
<1>2. CASE Spawn \/ ManualStart
  BY <1>2 DEF Spawn, ManualStart, Started, work
<1>3. CASE Crash \/ WatchUnhealthy \/ RestartExit \/ StopExit
  BY <1>3 DEF Crash, WatchUnhealthy, RestartExit, StopExit, Leave, Gone, RowsAfterEnd
<1>4. CASE Cleanup
  BY <1>4 DEF Cleanup, Leave, Gone, RowsAfterEnd, work
<1>5. CASE Admission
  BY <1>5 DEF Admission, EnterWork, EnterControl, ClonePermit, LeavePermit, work
<1>6. CASE ClaimPrepare \/ WaitDrained \/ ReadRows \/ ObserveServer \/ ReadRowsAgain
           \/ ObserveServerAgain \/ Acknowledge \/ ConfirmAck \/ Quarantine
           \/ FinalTimeout \/ InspectionFails \/ RequestStop
  BY <1>6 DEF ClaimPrepare, WaitDrained, ReadRows, ObserveServer, ReadRowsAgain,
     ObserveServerAgain, Acknowledge, ConfirmAck, Quarantine, FinalTimeout,
     InspectionFails, RequestStop, Here, work
<1>7. CASE Row
  BY <1>7 DEF Row, Ask, Answer, TurnEnds
<1>8. CASE UNCHANGED vars
  BY <1>8 DEF vars, work
<1> QED
  BY <1>1, <1>2, <1>3, <1>4, <1>5, <1>6, <1>7, <1>8, ScriptStaysOutside
  DEF Next, Gateway, Script, Preparing, Restarting, Launching, Watching, Disturbance

\* The inductive invariant holds of every behaviour.
THEOREM DrainInvariant == Spec => []DrainInv
<1>1. Init => DrainInv
  <2> SUFFICES ASSUME Init PROVE DrainInv
    OBVIOUS
  <2>1. /\ Open \in GateState /\ NoJournal \in Journals
        /\ [NoFiles EXCEPT !.identity = 1] \in Markers
    BY DEF Open, NoJournal, NoFiles, GateState, Journals, Markers, Key, NoKey
  <2>2. TypeOK
    BY <2>1 DEF Init, TypeOK, RowStates, NeverLaunched, Launches, Phases, Places, Key,
       NoKey
  <2>3. ProcessInv /\ ControlInv /\ PermitInv /\ RowInv
    BY DEF Init, ProcessInv, ControlInv, PermitInv, RowInv, Drained, Finishing
  <2>4. files.ack = NoKey
    BY DEF Init, NoFiles, NoKey
  <2>5. MarkerInv
    BY <2>4 DEF Init, MarkerInv
  <2>6. JournalInv
    BY DEF Init, JournalInv, LaunchWasAuthorised, NoJournal
  <2> QED BY <2>2, <2>3, <2>5, <2>6 DEF DrainInv
<1>2. DrainInv /\ [Next]_vars => DrainInv'
  BY TypeStep, ProcessStep, ControlStep, PermitStep, RowStep, MarkerStep, JournalStep
     DEF DrainInv
<1> QED BY <1>1, <1>2, PTL DEF Spec

\* The gate's counts, the rows and every marker keep their shape.
THEOREM TypeCorrect == Spec => []TypeOK
<1>1. DrainInv => TypeOK
  BY DEF DrainInv
<1> QED BY <1>1, DrainInvariant, PTL

\* acknowledge: while a runtime lives, the acknowledgement on disk is its own, for the
\* published fence, and no permit, row, turn or app-server is left.
THEOREM AcknowledgementIsExact == Spec => []AckIsExact
<1>1. DrainInv => AckIsExact
  <2> SUFFICES ASSUME DrainInv, rt # 0, files.ack # NoKey
               PROVE /\ files.ack.run = rt /\ files.ack = gate.sealed
                     /\ files.ack = files.prepare
                     /\ NoPermits /\ Busy = {} /\ Quiet /\ ~server
    BY DEF AckIsExact
  <2>1. /\ phase \in {"confirm", "acked"}
        /\ files.ack = gate.sealed /\ files.ack = files.prepare
    BY DEF DrainInv, MarkerInv
  <2>2. stage = "final"
    BY <2>1 DEF DrainInv, ControlInv, Finishing
  <2>3. gate.work = 0 /\ gate.ctl = 0 /\ InFlight = {}
    BY <2>1, <2>2 DEF DrainInv, PermitInv, Drained, Finishing
  <2>4. gate.sealed.run = rt /\ ~server
    BY <2>1 DEF DrainInv, ProcessInv
  <2>5. Busy = {}
    BY <2>1, <2>2 DEF DrainInv, RowInv, Drained, Finishing
  <2>6. Quiet
    BY <2>1, <2>2 DEF DrainInv, RowInv, Finishing
  <2> QED BY <2>1, <2>3, <2>4, <2>5, <2>6 DEF NoPermits
<1> QED BY <1>1, DrainInvariant, PTL

\* Complete-CdrRestartPreparation: every launch follows an acknowledgement given with
\* nothing in progress, for the same fence.
THEOREM LaunchIsAuthorised == Spec => []LaunchWasAuthorised
<1>1. DrainInv => LaunchWasAuthorised
  BY DEF DrainInv, JournalInv
<1> QED BY <1>1, DrainInvariant, PTL

\* wait_drained: once it has returned, this process starts no row.
THEOREM DrainedStartsNothing == Spec => NothingStartsOnceDrained
<1>1. DrainInv /\ [Next]_vars =>
        [rt' = rt /\ phase \notin {"down", "open", "wait"} => BusyIn(rows') \subseteq Busy]_vars
  <2> SUFFICES ASSUME DrainInv, [Next]_vars, rt' = rt,
                      phase \notin {"down", "open", "wait"},
                      NEW j \in Jobs, j \in BusyIn(rows')
               PROVE j \in Busy
    BY DEF BusyIn
  <2> USE DEF Busy, BusyIn
  <2>1. gate.work = 0 /\ InFlight = {} /\ rt # 0
    BY DEF DrainInv, TypeOK, ProcessInv, PermitInv, Phases, Drained, Finishing
  <2>2. rows \in [Jobs -> RowStates]
    BY DEF DrainInv, TypeOK
  <2>3. ASSUME NEW i \in Jobs, Request(i) PROVE FALSE
    BY <2>1, <2>3 DEF Request, Accept, Start, Acknowledged, Rejected, AnswerLost, Answered,
       InFlight
  <2>4. ASSUME NEW i \in Jobs, FinishRow(i) \/ Recover(i) \/ Resolve(i) PROVE j \in Busy
    BY <2>2, <2>4 DEF FinishRow, Recover, Resolve
  <2>5. CASE UNCHANGED rows
    BY <2>5
  <2> QED
    BY <2>1, <2>3, <2>4, <2>5, RowsWritten
<1> QED BY <1>1, DrainInvariant, PTL DEF Spec, NothingStartsOnceDrained

=============================================================================
