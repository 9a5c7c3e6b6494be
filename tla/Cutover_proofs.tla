--------------------------- MODULE Cutover_proofs ---------------------------
(***************************************************************************)
(* What TLAPS proves of Cutover, for every value of its constants: any     *)
(* number of containers, ports, requests and faults.  The type invariant   *)
(* and Ownership are inductive; KeepsServing and StoppedIsDown follow.     *)
(* On them rest the invariants of the marker, the dial and the pointer.    *)
(***************************************************************************)
EXTENDS Cutover, TLAPS

---------------------------------------------------------------------------
(* The statements of ServiceRow return rows, and name the row's container. *)

LEMMA PoppedType ==
  ASSUME NEW r \in Row, NEW v \in Nat
  PROVE  MarkerPopped(r, v) \in Row
  BY DEF Row, Marker, MarkerPopped, NoMarker, MaybeCtr, MaybePort

LEMMA ArmedType ==
  ASSUME NEW r \in Row, NEW m \in Marker
  PROVE  MarkerArmed(r, m) \in Row
  BY DEF Row, MarkerArmed

LEMMA TerminalType ==
  ASSUME NEW r \in Row
  PROVE  SettledTerminal(r) \in Row
  BY DEF Row, SettledTerminal, Status, Desired, Terminal

LEMMA SettledType ==
  ASSUME NEW r \in Row, NEW v \in Nat, NEW e
  PROVE  SettleFailedGeneration(r, v, e) \in Row
<1>1. Reverted(r, v) \in Row
  BY DEF Row, Reverted, Status, Desired, Terminal
<1> QED
  BY <1>1, TerminalType DEF SettleFailedGeneration

LEMMA RedeployedType ==
  ASSUME NEW r \in Row, NEW v \in Nat, NEW q \in RequestMemory
  PROVE  Redeployed(r, v, q) \in Row
  BY DEF Redeployed, Row, Marker, NoMarker, MaybeCtr, MaybePort, Status, Desired,
    Terminal, RequestMemory

\* A patch of the config keeps the container and the status, ...
LEMMA PatchKeeps ==
  ASSUME NEW r \in Row
  PROVE  /\ \A v : MarkerPopped(r, v).cid = r.cid /\ MarkerPopped(r, v).status = r.status
         /\ \A m : MarkerArmed(r, m).cid = r.cid /\ MarkerArmed(r, m).status = r.status
  BY DEF Row, MarkerPopped, MarkerArmed

\* ... and a settle or a redeploy keeps the container and never writes `stopped'.
LEMMA SettleKeeps ==
  ASSUME NEW r \in Row
  PROVE  /\ SettledTerminal(r).cid = r.cid /\ SettledTerminal(r).status = "failed"
         /\ \A v, e : LET s == SettleFailedGeneration(r, v, e) IN
                      s.cid = r.cid /\ s.status \in {r.status, "failed", "running"}
         /\ \A v, q : Redeployed(r, v, q).cid = r.cid
                      /\ Redeployed(r, v, q).status = "restarting"
  BY DEF Row, SettledTerminal, SettleFailedGeneration, Reverted, Redeployed

---------------------------------------------------------------------------
(* Type correctness.                                                       *)

LEMMA NoSnapType == NoSnap \in Row
  BY DEF NoSnap, Row, Marker, NoMarker, MaybeCtr, MaybePort, Status, Terminal, Desired

LEMMA NoTickType == NoTick \in TickMemory
  BY NoSnapType DEF NoTick, MaybeCtr, MaybePort, TickMemory

LEMMA NoTaskType == NoTask \in TaskMemory
  BY DEF NoTask, MaybeCtr, MaybePort, TaskMemory

LEMMA NoCancelType == NoCancel \in CancelMemory
  BY NoSnapType DEF NoCancel, CancelMemory

LEMMA NoRequestType == NoRequest \in RequestMemory
  BY DEF NoRequest, RequestMemory

USE DEF stored, tickVars, taskVars, cancelVars, sweepVars, requestVars, envVars,
        ButTick, ButTask, ButCancel, ButRequest, TickPc, TaskPc, CancelPc

LEMMA InitType == ASSUME Init PROVE TypeOK
<1>1. row \in Row
  BY DEF Init, Row, Marker, NoMarker, MaybeCtr, MaybePort, Ports, Status, Desired, Terminal
<1>2. ep \in Endpoint /\ dial \in MaybePort
  BY DEF Init, Endpoint, MaybePort, Ports
<1>3. ctr \in [Containers -> Container]
  BY DEF Init, Container, Unborn, MaybePort, Ports
<1>4. /\ tpc \in TickPc /\ tk \in TickMemory /\ vpc \in TaskPc /\ vt \in TaskMemory
      /\ greenReg \in MaybeCtr /\ cpc \in CancelPc /\ cx \in CancelMemory
  BY NoTickType, NoTaskType, NoCancelType DEF Init, MaybeCtr
<1>5. /\ spc \in {"idle", "rows", "kill"} /\ prot \in SUBSET Containers
      /\ aged \in SUBSET Containers /\ draining \in BOOLEAN
      /\ dpc \in {"idle", "check", "write", "restart"} /\ dq \in RequestMemory
  BY NoRequestType DEF Init
<1>6. left \in [requests : Nat, faults : Nat]
  BY BoundAssumption DEF Init
<1> QED
  BY <1>1, <1>2, <1>3, <1>4, <1>5, <1>6 DEF TypeOK

LEMMA TickType == ASSUME TypeOK, Tick PROVE TypeOK'
<1>1. CASE TickFetch
  <2>1. tk' \in TickMemory
    BY <1>1, NoTickType DEF TypeOK, TickFetch, TickMemory, Live
  <2> QED
    BY <1>1, <2>1 DEF TypeOK, TickFetch
<1>2. CASE TickCancels
  <2>1. cx' \in CancelMemory
    BY <1>2, NoCancelType DEF TypeOK, TickCancels, CancelMemory, CancelTask, MaybeCtr
  <2> QED
    BY <1>2, <2>1, NoCancelType, NoTaskType DEF TypeOK, TickCancels, CancelTask,
      TaskDone, TickTo, MaybeCtr
<1>3. CASE TickRereads
  <2>1. tk' \in TickMemory
    BY <1>3, NoTickType DEF TypeOK, TickRereads, TickMemory, TickDone
  <2> QED
    BY <1>3, <2>1, NoTickType DEF TypeOK, TickRereads, TickDone
<1>4. CASE TickTeardown
  <2>1. tk' \in TickMemory
    BY <1>4 DEF TypeOK, TickTeardown, TickMemory, TickReleases
  <2>2. ctr' \in [Containers -> Container]
    BY <1>4 DEF TypeOK, TickTeardown, Container, Destroy
  <2> QED
    BY <1>4, <2>1, <2>2 DEF TypeOK, TickTeardown, TickReleases
<1>5. CASE TickDeregister
  <2>1. dial' \in MaybePort
    BY <1>5 DEF TypeOK, TickDeregister, MaybePort, Endpoint, Ports
  <2> QED
    BY <1>5, <2>1 DEF TypeOK, TickDeregister, TickTo
<1>6. CASE TickRelease
  <2>1. ep' \in Endpoint
    BY <1>6 DEF TypeOK, TickRelease, Endpoint, MaybePort, Ports, TickMemory, Row, Marker
  <2> QED
    BY <1>6, <2>1, NoTickType DEF TypeOK, TickRelease, TickDone, TickTo, TickMemory
<1>7. CASE TickStopped
  <2>1. row' \in Row
    BY <1>7 DEF TypeOK, TickStopped, Row, Status, Desired, Terminal
  <2> QED
    BY <1>7, <2>1, NoTickType DEF TypeOK, TickStopped, TickDone
<1>8. CASE TickYields
  BY <1>8, NoTickType DEF TypeOK, TickYields, TickDone
<1>9. CASE TickFindsMarker
  <2>1. tk' \in TickMemory
    BY <1>9, NoTickType DEF TypeOK, TickFindsMarker, TickMemory, TickDone
  <2> QED
    BY <1>9, <2>1, NoTickType DEF TypeOK, TickFindsMarker, TickDone
<1>10. CASE TickTail
  BY <1>10 DEF TypeOK, TickTail, TickTo
<1>11. CASE TickRestore
  <2>1. ep' \in Endpoint
    BY <1>11 DEF TypeOK, TickRestore, Endpoint, MaybePort, Ports, SetActive, TickMemory,
      Row, Marker
  <2> QED
    BY <1>11, <2>1 DEF TypeOK, TickRestore, TickTo
<1>12. CASE TickReap
  <2>1. ctr' \in [Containers -> Container]
    BY <1>12 DEF TypeOK, TickReap, Container, Destroy
  <2> QED
    BY <1>12, <2>1 DEF TypeOK, TickReap, TickTo
<1>13. CASE TickSettle
  <2>1. row' \in Row
    BY <1>13, SettledType DEF TypeOK, TickSettle, TickMemory, Row, Marker
  <2> QED
    BY <1>13, <2>1 DEF TypeOK, TickSettle, TickTo
<1>14. CASE TickPop
  <2>1. row' \in Row
    BY <1>14, PoppedType DEF TypeOK, TickPop, TickMemory, Row, Marker
  <2> QED
    BY <1>14, <2>1, NoTickType DEF TypeOK, TickPop, TickDone
<1>15. CASE TickGate
  BY <1>15 DEF TypeOK, TickGate, TickTo
<1>16. CASE TickIneligible
  BY <1>16 DEF TypeOK, TickIneligible, TickTo
<1>17. CASE TickStampVerifying
  BY <1>17 DEF TypeOK, TickStampVerifying, TickTo
<1>18. CASE TickArm
  <2>1. tk' \in TickMemory
    BY <1>18 DEF TypeOK, TickArm, TickMemory, Endpoint, TickTo
  <2> QED
    BY <1>18, <2>1 DEF TypeOK, TickArm, TickTo
<1>19. CASE TickMark
  <2>1. row' \in Row
    BY <1>19, ArmedType DEF TypeOK, TickMark, Marker, TickMemory, Row, MaybeCtr
  <2> QED
    BY <1>19, <2>1 DEF TypeOK, TickMark, TickTo
<1>20. CASE TickSpawn
  <2>1. vt' \in TaskMemory
    BY <1>20, NoTaskType DEF TypeOK, TickSpawn, TaskMemory, TickMemory, Row
  <2> QED
    BY <1>20, <2>1, NoTickType, NoTaskType DEF TypeOK, TickSpawn, TickDone
<1>21. CASE TickSwap
  <2>1. ctr' \in [Containers -> Container]
    BY <1>21 DEF TypeOK, TickSwap, Container, Destroy
  <2> QED
    BY <1>21, <2>1 DEF TypeOK, TickSwap, TickTo
<1>22. CASE TickWaits
  BY <1>22, NoTickType DEF TypeOK, TickWaits, TickDone
<1>23. CASE TickAcquire
  <2>1. ep' \in Endpoint
    BY <1>23 DEF TypeOK, TickAcquire, Endpoint, MaybePort, Ports, TickMemory, Row,
      Marker
  <2> QED
    BY <1>23, <2>1 DEF TypeOK, TickAcquire, TickTo
<1>24. CASE TickRefuses
  <2>1. tk' \in TickMemory
    BY <1>24 DEF TypeOK, TickRefuses, TickMemory, TickReleases
  <2> QED
    BY <1>24, <2>1 DEF TypeOK, TickRefuses, TickReleases
<1>25. CASE TickRefused
  <2>1. row' \in Row
    BY <1>25 DEF TypeOK, TickRefused, Row, Status, Desired, Terminal
  <2> QED
    BY <1>25, <2>1 DEF TypeOK, TickRefused, TickTo
<1>26. CASE TickBlames
  BY <1>26, NoTickType DEF TypeOK, TickBlames, TickDone
<1>27. CASE TickStampLaunching
  BY <1>27 DEF TypeOK, TickStampLaunching, TickTo
<1>28. CASE TickSchedule
  <2>1. row' \in Row
    BY <1>28 DEF TypeOK, TickSchedule, Row, Status, Desired, Terminal
  <2> QED
    BY <1>28, <2>1 DEF TypeOK, TickSchedule, TickTo
<1>29. CASE TickRun
  <2>1. tk' \in TickMemory
    BY <1>29 DEF TypeOK, TickRun, TickMemory, MaybeCtr, Endpoint
  <2>2. ctr' \in [Containers -> Container]
    BY <1>29 DEF TypeOK, TickRun, Container, Started, TickMemory, Row, Endpoint,
      MaybePort, Ports
  <2> QED
    BY <1>29, <2>1, <2>2 DEF TypeOK, TickRun
<1>30. CASE TickRunFails
  BY <1>30 DEF TypeOK, TickRunFails, TickTo
<1>31. CASE TickClearPointer
  <2>1. ep' \in Endpoint
    BY <1>31 DEF TypeOK, TickClearPointer, Endpoint, MaybePort, Ports, SetActive
  <2> QED
    BY <1>31, <2>1 DEF TypeOK, TickClearPointer, TickTo
<1>32. CASE TickAdopt
  <2>1. row' \in Row
    BY <1>32 DEF TypeOK, TickAdopt, Row, Status, Desired, Terminal, TickMemory
  <2> QED
    BY <1>32, <2>1 DEF TypeOK, TickAdopt, TickTo
<1>33. CASE TickRegister
  <2>1. dial' \in MaybePort
    BY <1>33 DEF TypeOK, TickRegister, MaybePort, Endpoint, Ports
  <2> QED
    BY <1>33, <2>1, NoTickType DEF TypeOK, TickRegister, TickDone
<1>34. CASE TickCrash
  <2>1. ctr' \in [Containers -> Container]
    BY <1>34 DEF TypeOK, TickCrash, Container, Destroy
  <2> QED
    BY <1>34, <2>1 DEF TypeOK, TickCrash, TickTo
<1>35. CASE TickExits
  <2>1. row' \in Row
    BY <1>35 DEF TypeOK, TickExits, Row, Status, Desired, Terminal
  <2>2. tk' \in TickMemory
    BY <1>35 DEF TypeOK, TickExits, TickMemory, TickReleases
  <2> QED
    BY <1>35, <2>1, <2>2 DEF TypeOK, TickExits, TickReleases
<1>36. CASE TickBacksOff
  <2>1. row' \in Row
    BY <1>36 DEF TypeOK, TickBacksOff, Row, Status, Desired, Terminal
  <2> QED
    BY <1>36, <2>1, NoTickType DEF TypeOK, TickBacksOff, TickDone
<1>37. CASE TickGivesUp
  <2>1. row' \in Row
    BY <1>37, TerminalType DEF TypeOK, TickGivesUp, TickMemory, Row, Marker
  <2>2. tk' \in TickMemory
    BY <1>37 DEF TypeOK, TickGivesUp, TickMemory, TickReleases
  <2> QED
    BY <1>37, <2>1, <2>2 DEF TypeOK, TickGivesUp, TickReleases
<1>38. CASE TickDefers
  BY <1>38, NoTickType DEF TypeOK, TickDefers, TickDone
<1>39. CASE TickStampHealthy
  BY <1>39 DEF TypeOK, TickStampHealthy, TickTo
<1>40. CASE TickRecover
  <2>1. row' \in Row
    BY <1>40 DEF TypeOK, TickRecover, Row, Status, Desired, Terminal, TickMemory
  <2> QED
    BY <1>40, <2>1, NoTickType DEF TypeOK, TickRecover, TickDone
<1>41. CASE TickDegrades
  <2>1. row' \in Row
    BY <1>41 DEF TypeOK, TickDegrades, Row, Status, Desired, Terminal, TickMemory
  <2> QED
    BY <1>41, <2>1, NoTickType DEF TypeOK, TickDegrades, TickDone
<1> QED
  BY <1>1, <1>2, <1>3, <1>4, <1>5, <1>6, <1>7, <1>8, <1>9, <1>10, <1>11, <1>12, <1>13,
    <1>14, <1>15, <1>16, <1>17, <1>18, <1>19, <1>20, <1>21, <1>22, <1>23, <1>24, <1>25,
    <1>26, <1>27, <1>28, <1>29, <1>30, <1>31, <1>32, <1>33, <1>34, <1>35, <1>36, <1>37,
    <1>38, <1>39, <1>40, <1>41 DEF Tick

LEMMA TaskType == ASSUME TypeOK, Task PROVE TypeOK'
<1>1. CASE TaskNotReady
  <2>1. row' \in Row
    BY <1>1, PoppedType DEF TypeOK, TaskNotReady, TaskMemory
  <2> QED
    BY <1>1, <2>1 DEF TypeOK, TaskNotReady, TaskTo
<1>2. CASE TaskRegress
  BY <1>2, NoTaskType DEF TypeOK, TaskRegress, TaskDone, MaybeCtr
<1>3. CASE TaskReserve
  <2>1. vt' \in TaskMemory
    BY <1>3 DEF TypeOK, TaskReserve, TaskMemory, MaybeCtr, MaybePort, Ports
  <2> QED
    BY <1>3, <2>1 DEF TypeOK, TaskReserve
<1>4. CASE TaskRefused
  BY <1>4 DEF TypeOK, TaskRefused, TaskTo
<1>5. CASE TaskRun
  <2>1. vt' \in TaskMemory
    BY <1>5 DEF TypeOK, TaskRun, TaskMemory, MaybeCtr, MaybePort, Ports
  <2>2. ctr' \in [Containers -> Container]
    BY <1>5 DEF TypeOK, TaskRun, Container, Started, TaskMemory, Row, Endpoint,
      MaybePort
  <2> QED
    BY <1>5, <2>1, <2>2 DEF TypeOK, TaskRun
<1>6. CASE TaskBind
  <2>1. greenReg' \in MaybeCtr
    BY <1>6 DEF TypeOK, TaskBind, TaskMemory
  <2> QED
    BY <1>6, <2>1 DEF TypeOK, TaskBind
<1>7. CASE TaskVerified
  BY <1>7 DEF TypeOK, TaskVerified, TaskTo
<1>8. CASE TaskUnverified
  <2>1. ctr' \in [Containers -> Container]
    BY <1>8 DEF TypeOK, TaskUnverified, Container, Destroy
  <2> QED
    BY <1>8, <2>1 DEF TypeOK, TaskUnverified, MaybeCtr
<1>9. CASE TaskPoint
  <2>1. ep' \in Endpoint
    BY <1>9 DEF TypeOK, TaskPoint, Endpoint, MaybePort, Ports, SetActive, TaskMemory,
      Row, Marker
  <2> QED
    BY <1>9, <2>1 DEF TypeOK, TaskPoint, TaskTo
<1>10. CASE TaskRepoint
  <2>1. dial' \in MaybePort
    BY <1>10 DEF TypeOK, TaskRepoint, MaybePort, Endpoint, Ports, TaskMemory
  <2> QED
    BY <1>10, <2>1 DEF TypeOK, TaskRepoint, TaskTo
<1>11. CASE TaskSeesDial
  BY <1>11 DEF TypeOK, TaskSeesDial, TaskTo
<1>12. CASE TaskTimesOut
  BY <1>12 DEF TypeOK, TaskTimesOut, TaskTo
<1>13. CASE TaskCheck
  BY <1>13 DEF TypeOK, TaskCheck, TaskTo
<1>14. CASE TaskPromote
  <2>1. row' \in Row
    BY <1>14 DEF TypeOK, TaskPromote, Row, Status, Desired, Terminal, TaskMemory
  <2> QED
    BY <1>14, <2>1 DEF TypeOK, TaskPromote, TaskTo
<1>15. CASE TaskTail
  BY <1>15 DEF TypeOK, TaskTail, TaskTo
<1>16. CASE TaskDisarm
  <2>1. row' \in Row
    BY <1>16, PoppedType DEF TypeOK, TaskDisarm, TaskMemory
  <2> QED
    BY <1>16, <2>1 DEF TypeOK, TaskDisarm, TaskTo
<1>17. CASE TaskRetire
  <2>1. ctr' \in [Containers -> Container]
    BY <1>17 DEF TypeOK, TaskRetire, Container, Destroy
  <2> QED
    BY <1>17, <2>1, NoTaskType DEF TypeOK, TaskRetire, TaskDone, MaybeCtr
<1>18. CASE TaskUndo
  <2>1. ep' \in Endpoint
    BY <1>18 DEF TypeOK, TaskUndo, Endpoint, MaybePort, Ports, SetActive, TaskMemory,
      Row, Marker
  <2> QED
    BY <1>18, <2>1 DEF TypeOK, TaskUndo, TaskTo
<1>19. CASE TaskDrop
  <2>1. ctr' \in [Containers -> Container]
    BY <1>19 DEF TypeOK, TaskDrop, Container, Destroy
  <2> QED
    BY <1>19, <2>1 DEF TypeOK, TaskDrop, MaybeCtr
<1>20. CASE TaskSettle
  <2>1. row' \in Row
    BY <1>20, SettledType DEF TypeOK, TaskSettle, TaskMemory
  <2> QED
    BY <1>20, <2>1 DEF TypeOK, TaskSettle, TaskTo
<1>21. CASE TaskPop
  <2>1. row' \in Row
    BY <1>21, PoppedType DEF TypeOK, TaskPop, TaskMemory
  <2> QED
    BY <1>21, <2>1, NoTaskType DEF TypeOK, TaskPop, TaskDone, MaybeCtr
<1> QED
  BY <1>1, <1>2, <1>3, <1>4, <1>5, <1>6, <1>7, <1>8, <1>9, <1>10, <1>11, <1>12, <1>13,
    <1>14, <1>15, <1>16, <1>17, <1>18, <1>19, <1>20, <1>21 DEF Task

LEMMA CancelType == ASSUME TypeOK, Cancel PROVE TypeOK'
<1>1. CASE CancelRead
  <2>1. cx' \in CancelMemory
    BY <1>1 DEF TypeOK, CancelRead, CancelMemory, MaybeCtr
  <2> QED
    BY <1>1, <2>1 DEF TypeOK, CancelRead, AfterGreens
<1>2. CASE CancelDestroy
  <2>1. ctr' \in [Containers -> Container]
    BY <1>2 DEF TypeOK, CancelDestroy, Container, Destroy
  <2> QED
    BY <1>2, <2>1 DEF TypeOK, CancelDestroy, CancelTo, AfterGreens
<1>3. CASE CancelTail
  BY <1>3 DEF TypeOK, CancelTail, CancelTo
<1>4. CASE CancelPoint
  <2>1. ep' \in Endpoint
    BY <1>4 DEF TypeOK, CancelPoint, Endpoint, MaybePort, Ports, SetActive,
      CancelMemory, Row, Marker
  <2> QED
    BY <1>4, <2>1 DEF TypeOK, CancelPoint, CancelTo
<1>5. CASE CancelPop
  <2>1. row' \in Row
    BY <1>5, PoppedType DEF TypeOK, CancelPop, CancelMemory, Row, Marker
  <2> QED
    BY <1>5, <2>1 DEF TypeOK, CancelPop, CancelTo
<1>6. CASE CancelEnd
  <2>1. cx' \in CancelMemory
    BY <1>6, NoCancelType DEF TypeOK, CancelEnd, CancelMemory, MaybeCtr, CancelDone
  <2> QED
    BY <1>6, <2>1, NoCancelType DEF TypeOK, CancelEnd, CancelDone
<1>7. CASE CancelKill
  <2>1. ctr' \in [Containers -> Container]
    BY <1>7 DEF TypeOK, CancelKill, Container, Destroy
  <2> QED
    BY <1>7, <2>1, NoCancelType DEF TypeOK, CancelKill, CancelDone
<1> QED
  BY <1>1, <1>2, <1>3, <1>4, <1>5, <1>6, <1>7 DEF Cancel

LEMMA SweepType == ASSUME TypeOK, Sweep PROVE TypeOK'
<1>1. CASE SweepHook
  <2>1. prot' \in SUBSET Containers /\ aged' \in SUBSET Containers
    BY <1>1 DEF TypeOK, SweepHook, MaybeCtr, Row
  <2> QED
    BY <1>1, <2>1 DEF TypeOK, SweepHook
<1>2. CASE SweepRows
  <2>1. prot' \in SUBSET Containers /\ aged' \in SUBSET Containers
    BY <1>2 DEF TypeOK, SweepRows, MaybeCtr, Row
  <2> QED
    BY <1>2, <2>1 DEF TypeOK, SweepRows
<1>3. CASE SweepKill
  <2>1. ctr' \in [Containers -> Container]
    BY <1>3 DEF TypeOK, SweepKill, Container, Destroy
  <2> QED
    BY <1>3, <2>1 DEF TypeOK, SweepKill
<1> QED
  BY <1>1, <1>2, <1>3 DEF Sweep

LEMMA RequestStepType == ASSUME TypeOK, RequestStep PROVE TypeOK'
<1>1. CASE StopService
  <2>1. row' \in Row
    BY <1>1 DEF TypeOK, StopService, Row, Status, Desired, Terminal
  <2> QED
    BY <1>1, <2>1 DEF TypeOK, StopService, Request
<1>2. CASE RestartDesires
  <2>1. row' \in Row
    BY <1>2 DEF TypeOK, RestartDesires, Row, Status, Desired, Terminal
  <2> QED
    BY <1>2, <2>1 DEF TypeOK, RestartDesires, Request
<1>3. CASE RestartMarks
  <2>1. row' \in Row
    BY <1>3 DEF TypeOK, RestartMarks, Row, Status, Desired, Terminal
  <2> QED
    BY <1>3, <2>1 DEF TypeOK, RestartMarks
<1>4. CASE DeployReads
  <2>1. dq' \in RequestMemory
    BY <1>4 DEF TypeOK, DeployReads, ReadFor, RequestMemory, Row, Armed
  <2> QED
    BY <1>4, <2>1 DEF TypeOK, DeployReads, Request
<1>5. CASE DeployChecks
  BY <1>5, NoRequestType DEF TypeOK, DeployChecks
<1>6. CASE RollbackReads
  <2>1. dq' \in RequestMemory
    BY <1>6 DEF TypeOK, RollbackReads, ReadFor, RequestMemory, Row, Armed
  <2> QED
    BY <1>6, <2>1 DEF TypeOK, RollbackReads, Request
<1>7. CASE DeployWrites
  <2>1. row' \in Row
    BY <1>7, RedeployedType DEF TypeOK, DeployWrites, GenerationOf, RequestMemory
  <2> QED
    BY <1>7, <2>1, NoRequestType DEF TypeOK, DeployWrites
<1>8. CASE DrainCancels
  <2>1. cx' \in CancelMemory
    BY <1>8, NoCancelType DEF TypeOK, DrainCancels, CancelMemory, CancelTask, MaybeCtr
  <2> QED
    BY <1>8, <2>1, NoCancelType, NoTaskType DEF TypeOK, DrainCancels, Request,
      CancelTask, TaskDone, MaybeCtr
<1> QED
  BY <1>1, <1>2, <1>3, <1>4, <1>5, <1>6, <1>7, <1>8 DEF RequestStep

LEMMA FailsType == ASSUME TypeOK, Fails PROVE TypeOK'
<1>1. CASE TaskRaises
  BY <1>1, NoTaskType DEF TypeOK, TaskRaises, TaskDone, MaybeCtr
<1>2. CASE ContainerExits
  <2>1. ctr' \in [Containers -> Container]
    BY <1>2 DEF TypeOK, ContainerExits, Container
  <2> QED
    BY <1>2, <2>1 DEF TypeOK, ContainerExits, Fault
<1>3. CASE DaemonCrashes
  <2>1. left' \in [requests : Nat, faults : Nat]
    BY <1>3 DEF TypeOK, DaemonCrashes, Fault
  <2> QED
    BY <1>3, <2>1, NoTickType, NoTaskType, NoCancelType, NoRequestType DEF TypeOK,
      DaemonCrashes, Fault, VolatileLost, TickDone, TaskDone, CancelDone, MaybeCtr
<1>4. CASE DaemonReexecs
  BY <1>4, NoTickType, NoTaskType, NoCancelType, NoRequestType DEF TypeOK, DaemonReexecs,
    VolatileLost, TickDone, TaskDone, CancelDone, MaybeCtr
<1> QED
  BY <1>1, <1>2, <1>3, <1>4 DEF Fails

LEMMA NextType == ASSUME TypeOK, [Next]_vars PROVE TypeOK'
<1>1. CASE ProxyReconcile
  <2>1. dial' \in MaybePort
    BY <1>1 DEF TypeOK, ProxyReconcile, RoutedPort, LivePort, Endpoint, MaybePort, Ports
  <2> QED
    BY <1>1, <2>1 DEF TypeOK, ProxyReconcile
<1>2. CASE UNCHANGED vars
  BY <1>2 DEF TypeOK, vars
<1> QED
  BY <1>1, <1>2, TickType, TaskType, CancelType, SweepType, RequestStepType, FailsType
  DEF Next

\* Every variable keeps its type for ever.
THEOREM TypeCorrect == Spec => []TypeOK
<1>1. Init => TypeOK
  BY InitType
<1>2. TypeOK /\ [Next]_vars => TypeOK'
  BY NextType
<1> QED
  BY <1>1, <1>2, PTL DEF Spec

---------------------------------------------------------------------------
(* Ownership.  Of the containers it only needs that an id is handed out    *)
(* once: it never becomes unborn again, and a dead one never lives again.  *)

OnceBorn == \A c : Known(c) => Known(c)' /\ (~Live(c) => ~Live(c)')

LEMMA DestroyOnce ==
  ASSUME TypeOK, NEW S, Destroy(S)
  PROVE  OnceBorn
  BY DEF TypeOK, Destroy, OnceBorn, Known, Live, Exists, Container

LEMMA InitOwnership == ASSUME Init PROVE Ownership
<1>1. HeldIsKnown
  BY ValueAssumption DEF Init, HeldIsKnown, Known, NoTick, NoTask, NoCancel, NoSnap
<1>2. TickOwns /\ StopOwns
  BY ValueAssumption DEF Init, TickOwns, StopOwns, StoppedIsDown, TaskInFlight, NoTick
<1>3. TaskOwns /\ CancelOwns /\ SweepOwns
  BY DEF Init, TaskOwns, CancelOwns, SweepOwns, HasGreen, HasPromoted, NoTask
<1> QED
  BY <1>1, <1>2, <1>3 DEF Ownership

USE DEF Ownership, HeldIsKnown, TickOwns, StopOwns, StoppedIsDown, TaskOwns, CancelOwns,
        SweepOwns, Known, Live, TaskInFlight, HasGreen, HasPromoted

LEMMA TickKeepsOwnership == ASSUME TypeOK, Ownership, Tick PROVE Ownership'
<1>1. CASE TickFetch
  <2>1. tk'.snap = row /\ tk'.new = NoCtr /\ (~tk'.live => ~Live(row.cid))
    BY <1>1 DEF TypeOK, TickFetch, NoTick, Live
  <2> QED
    BY <1>1, <2>1, ValueAssumption DEF TickFetch, NoTick
<1>2. CASE TickCancels
  BY <1>2 DEF TickCancels, CancelTask, TaskDone, TickTo, NoCancel, NoTask, NoSnap
<1>3. CASE TickRereads
  BY <1>3 DEF TypeOK, TickRereads, TickDone, NoTick, NoSnap, TickMemory
<1>4. CASE TickTeardown
  BY <1>4 DEF TickTeardown, Destroy, Exists, TickReleases
<1>5. CASE TickDeregister
  BY <1>5 DEF TickDeregister, TickTo
<1>6. CASE TickRelease
  BY <1>6 DEF TypeOK, TickRelease, TickDone, TickTo, NoTick, NoSnap, TickMemory
<1>7. CASE TickStopped
  BY <1>7 DEF TickStopped, TickDone, NoTick, NoSnap
<1>8. CASE TickYields
  BY <1>8 DEF TickYields, TickDone, NoTick, NoSnap
<1>9. CASE TickFindsMarker
  BY <1>9 DEF TypeOK, TickFindsMarker, GateOpen, TickDone, NoTick, NoSnap, TickMemory
<1>10. CASE TickTail
  BY <1>10, PatchKeeps DEF TypeOK, TickTail, TickTo
<1>11. CASE TickRestore
  BY <1>11 DEF TickRestore, TickTo
<1>12. CASE TickReap
  <2>1. OnceBorn
    BY <1>12, DestroyOnce DEF TickReap
  <2> QED
    BY <1>12, <2>1 DEF TickReap, TickTo, OnceBorn
<1>13. CASE TickSettle
  BY <1>13, SettleKeeps DEF TypeOK, TickSettle, TickTo
<1>14. CASE TickPop
  BY <1>14, PatchKeeps DEF TypeOK, TickPop, TickDone, NoTick, NoSnap
<1>15. CASE TickGate
  BY <1>15 DEF TickGate, GateOpen, TickTo
<1>16. CASE TickIneligible
  BY <1>16 DEF TickIneligible, GateOpen, TickTo
<1>17. CASE TickStampVerifying
  BY <1>17, PatchKeeps DEF TypeOK, TickStampVerifying, TickTo
<1>18. CASE TickArm
  BY <1>18 DEF TypeOK, TickArm, TickTo, TickMemory
<1>19. CASE TickMark
  BY <1>19, PatchKeeps DEF TypeOK, TickMark, TickTo
<1>20. CASE TickSpawn
  BY <1>20 DEF TickSpawn, TickDone, NoTick, NoTask, NoSnap
<1>21. CASE TickSwap
  BY <1>21 DEF TickSwap, Destroy, Exists, TickTo
<1>22. CASE TickWaits
  BY <1>22 DEF TickWaits, TickDone, NoTick, NoSnap
<1>23. CASE TickAcquire
  BY <1>23 DEF TickAcquire, TickTo
<1>24. CASE TickRefuses
  BY <1>24 DEF TickRefuses, TickReleases
<1>25. CASE TickRefused
  BY <1>25 DEF TickRefused, TickTo
<1>26. CASE TickBlames
  BY <1>26 DEF TickBlames, TickDone, NoTick, NoSnap
<1>27. CASE TickStampLaunching
  BY <1>27, PatchKeeps DEF TypeOK, TickStampLaunching, TickTo
<1>28. CASE TickSchedule
  BY <1>28 DEF TickSchedule, TickTo
<1>29. CASE TickRun
  BY <1>29 DEF TypeOK, TickRun, Started
<1>30. CASE TickRunFails
  BY <1>30 DEF TickRunFails, TickTo
<1>31. CASE TickClearPointer
  BY <1>31 DEF TickClearPointer, TickTo
<1>32. CASE TickAdopt
  BY <1>32 DEF TickAdopt, TickTo
<1>33. CASE TickRegister
  BY <1>33, ValueAssumption DEF TypeOK, TickRegister, TickDone, NoTick, NoSnap
<1>34. CASE TickCrash
  BY <1>34 DEF TickCrash, Destroy, Exists, TickTo
<1>35. CASE TickExits
  BY <1>35 DEF TickExits, TickReleases
<1>36. CASE TickBacksOff
  BY <1>36 DEF TickBacksOff, TickDone, NoTick, NoSnap
<1>37. CASE TickGivesUp
  BY <1>37, SettleKeeps DEF TypeOK, TickGivesUp, TickReleases
<1>38. CASE TickDefers
  BY <1>38 DEF TickDefers, TickDone, NoTick, NoSnap
<1>39. CASE TickStampHealthy
  BY <1>39, PatchKeeps DEF TypeOK, TickStampHealthy, TickTo
<1>40. CASE TickRecover
  BY <1>40 DEF TickRecover, TickDone, NoTick, NoSnap
<1>41. CASE TickDegrades
  BY <1>41 DEF TickDegrades, TickDone, NoTick, NoSnap
<1> QED
  BY <1>1, <1>2, <1>3, <1>4, <1>5, <1>6, <1>7, <1>8, <1>9, <1>10, <1>11, <1>12, <1>13,
    <1>14, <1>15, <1>16, <1>17, <1>18, <1>19, <1>20, <1>21, <1>22, <1>23, <1>24, <1>25,
    <1>26, <1>27, <1>28, <1>29, <1>30, <1>31, <1>32, <1>33, <1>34, <1>35, <1>36, <1>37,
    <1>38, <1>39, <1>40, <1>41 DEF Tick

LEMMA TaskKeepsOwnership == ASSUME TypeOK, Ownership, Task PROVE Ownership'
<1>1. CASE TaskNotReady
  BY <1>1, PatchKeeps DEF TypeOK, TaskNotReady, TaskTo
<1>2. CASE TaskRegress
  BY <1>2, PatchKeeps DEF TypeOK, TaskRegress, TaskDone, NoTask
<1>3. CASE TaskReserve
  BY <1>3 DEF TaskReserve
<1>4. CASE TaskRefused
  BY <1>4 DEF TaskRefused, TaskTo
<1>5. CASE TaskRun
  BY <1>5 DEF TypeOK, TaskRun, Started
<1>6. CASE TaskBind
  BY <1>6 DEF TaskBind
<1>7. CASE TaskVerified
  BY <1>7 DEF TaskVerified, TaskTo
<1>8. CASE TaskUnverified
  <2>1. OnceBorn
    BY <1>8, DestroyOnce DEF TaskUnverified
  <2> QED
    BY <1>8, <2>1 DEF TaskUnverified, OnceBorn
<1>9. CASE TaskPoint
  BY <1>9 DEF TaskPoint, TaskTo
<1>10. CASE TaskRepoint
  BY <1>10 DEF TaskRepoint, TaskTo
<1>11. CASE TaskSeesDial
  BY <1>11 DEF TaskSeesDial, TaskTo
<1>12. CASE TaskTimesOut
  BY <1>12 DEF TaskTimesOut, TaskTo
<1>13. CASE TaskCheck
  BY <1>13 DEF TaskCheck, TaskTo
<1>14. CASE TaskPromote
  BY <1>14 DEF TaskPromote, TaskTo
<1>15. CASE TaskTail
  BY <1>15, PatchKeeps DEF TypeOK, TaskTail, TaskTo
<1>16. CASE TaskDisarm
  BY <1>16, PatchKeeps DEF TypeOK, TaskDisarm, TaskTo
<1>17. CASE TaskRetire
  <2>1. OnceBorn
    BY <1>17, DestroyOnce DEF TaskRetire
  <2> QED
    BY <1>17, <2>1 DEF TaskRetire, TaskDone, NoTask, OnceBorn
<1>18. CASE TaskUndo
  BY <1>18 DEF TaskUndo, TaskTo
<1>19. CASE TaskDrop
  <2>1. OnceBorn
    BY <1>19, DestroyOnce DEF TaskDrop
  <2> QED
    BY <1>19, <2>1 DEF TaskDrop, OnceBorn
<1>20. CASE TaskSettle
  BY <1>20, SettleKeeps DEF TypeOK, TaskSettle, TaskTo
<1>21. CASE TaskPop
  BY <1>21, PatchKeeps DEF TypeOK, TaskPop, TaskDone, NoTask
<1> QED
  BY <1>1, <1>2, <1>3, <1>4, <1>5, <1>6, <1>7, <1>8, <1>9, <1>10, <1>11, <1>12, <1>13,
    <1>14, <1>15, <1>16, <1>17, <1>18, <1>19, <1>20, <1>21 DEF Task

LEMMA CancelKeepsOwnership == ASSUME TypeOK, Ownership, Cancel PROVE Ownership'
<1>1. CASE CancelRead
  BY <1>1 DEF CancelRead, AfterGreens
<1>2. CASE CancelDestroy
  <2>1. OnceBorn
    BY <1>2, DestroyOnce DEF CancelDestroy
  <2> QED
    BY <1>2, <2>1 DEF CancelDestroy, CancelTo, AfterGreens, OnceBorn
<1>3. CASE CancelTail
  BY <1>3, PatchKeeps DEF TypeOK, CancelTail, CancelTo
<1>4. CASE CancelPoint
  BY <1>4 DEF CancelPoint, CancelTo
<1>5. CASE CancelPop
  BY <1>5, PatchKeeps DEF TypeOK, CancelPop, CancelTo
<1>6. CASE CancelEnd
  BY <1>6 DEF TypeOK, CancelEnd, CancelDone, NoCancel, NoSnap, CancelMemory
<1>7. CASE CancelKill
  <2>1. OnceBorn
    BY <1>7, DestroyOnce DEF CancelKill
  <2> QED
    BY <1>7, <2>1 DEF CancelKill, CancelDone, NoCancel, OnceBorn, NoSnap
<1> QED
  BY <1>1, <1>2, <1>3, <1>4, <1>5, <1>6, <1>7 DEF Cancel

LEMMA SweepKeepsOwnership == ASSUME TypeOK, Ownership, Sweep PROVE Ownership'
<1>1. CASE SweepHook
  BY <1>1 DEF SweepHook
<1>2. CASE SweepRows
  BY <1>2, ValueAssumption DEF TypeOK, SweepRows
<1>3. CASE SweepKill
  <2>1. OnceBorn
    BY <1>3, DestroyOnce DEF SweepKill
  <2> QED
    BY <1>3, <2>1 DEF SweepKill, OnceBorn
<1> QED
  BY <1>1, <1>2, <1>3 DEF Sweep

LEMMA RequestStepKeepsOwnership == ASSUME TypeOK, Ownership, RequestStep PROVE Ownership'
<1>1. CASE StopService
  BY <1>1 DEF StopService
<1>2. CASE RestartDesires
  BY <1>2 DEF RestartDesires
<1>3. CASE RestartMarks
  BY <1>3 DEF RestartMarks
<1>4. CASE DeployReads
  BY <1>4 DEF DeployReads, ReadFor
<1>5. CASE DeployChecks
  BY <1>5 DEF DeployChecks, NoRequest
<1>6. CASE RollbackReads
  BY <1>6 DEF RollbackReads, ReadFor
<1>7. CASE DeployWrites
  BY <1>7, SettleKeeps DEF TypeOK, DeployWrites, NoRequest
<1>8. CASE DrainCancels
  BY <1>8 DEF DrainCancels, CancelTask, TaskDone, NoCancel, NoTask, NoSnap
<1> QED
  BY <1>1, <1>2, <1>3, <1>4, <1>5, <1>6, <1>7, <1>8 DEF RequestStep

LEMMA FailsKeepsOwnership == ASSUME TypeOK, Ownership, Fails PROVE Ownership'
<1>1. CASE TaskRaises
  BY <1>1 DEF TaskRaises, TaskDone, NoTask
<1>2. CASE ContainerExits
  BY <1>2 DEF ContainerExits
<1>3. CASE DaemonCrashes
  BY <1>3, ValueAssumption DEF DaemonCrashes, VolatileLost, TickDone, TaskDone,
    CancelDone, NoTick, NoTask, NoCancel, NoRequest, NoSnap
<1>4. CASE DaemonReexecs
  BY <1>4, ValueAssumption DEF DaemonReexecs, VolatileLost, TickDone, TaskDone,
    CancelDone, NoTick, NoTask, NoCancel, NoRequest, NoSnap
<1> QED
  BY <1>1, <1>2, <1>3, <1>4 DEF Fails

LEMMA NextOwnership == ASSUME TypeOK, Ownership, [Next]_vars PROVE Ownership'
<1>1. ASSUME UNCHANGED <<row, ctr, tickVars, taskVars, cancelVars, sweepVars>>
      PROVE  Ownership'
  BY <1>1
<1>2. CASE ProxyReconcile
  BY <1>1, <1>2 DEF ProxyReconcile
<1>3. CASE UNCHANGED vars
  BY <1>1, <1>3 DEF vars
<1> QED
  BY <1>2, <1>3, TickKeepsOwnership, TaskKeepsOwnership, CancelKeepsOwnership,
    SweepKeepsOwnership, RequestStepKeepsOwnership, FailsKeepsOwnership
  DEF Next

HIDE DEF Ownership, HeldIsKnown, TickOwns, StopOwns, StoppedIsDown, TaskOwns, CancelOwns,
         SweepOwns, Known, Live, TaskInFlight, HasGreen, HasPromoted

\* Every actor owns what it acts on: the strengthening behind the two below.
THEOREM OwnershipHolds == Spec => []Ownership
<1>1. Init => Ownership
  BY InitOwnership
<1>2. TypeOK /\ Ownership /\ [Next]_vars => Ownership'
  BY NextOwnership
<1> QED
  BY <1>1, <1>2, TypeCorrect, PTL DEF Spec

\* A row that says `stopped' names no live container, whatever a verify task, a
\* drain, a sweep or a restart of the daemon did meanwhile.
THEOREM StoppedServicesAreDown == Spec => []StoppedIsDown
<1>1. Ownership => StoppedIsDown
  BY DEF Ownership, StopOwns
<1> QED
  BY <1>1, OwnershipHolds, PTL

---------------------------------------------------------------------------
(* KeepsServing.                                                           *)

\* The steps that may take a container down.
Kills ==
  \/ TickTeardown \/ TickSwap \/ TickReap \/ TickCrash
  \/ TaskUnverified \/ TaskRetire \/ TaskDrop
  \/ CancelDestroy \/ CancelKill \/ SweepKill

LEMMA OnlyKillsKill ==
  ASSUME TypeOK, [Next]_vars, NEW c \in Containers, Live(c), ctr'[c].st = "gone"
  PROVE  Kills
<1>1. ctr' # ctr
  BY DEF Live
<1>2. CASE Tick
  <2>1. ~TickRun
    BY DEF TickRun, Started, Live, TypeOK
  <2> QED
    BY <1>1, <1>2, <2>1 DEF Tick, Kills, TickFetch, TickCancels, TickRereads, TickDeregister,
      TickRelease, TickStopped, TickYields, TickFindsMarker, TickTail, TickRestore,
      TickSettle, TickPop, TickGate, TickIneligible, TickStampVerifying, TickArm, TickMark,
      TickSpawn, TickWaits, TickAcquire, TickRefuses, TickRefused, TickBlames,
      TickStampLaunching, TickSchedule, TickRunFails, TickClearPointer, TickAdopt,
      TickRegister, TickExits, TickBacksOff, TickGivesUp, TickDefers, TickStampHealthy,
      TickRecover, TickDegrades
<1>3. CASE Task
  <2>1. ~TaskRun
    BY DEF TaskRun, Started, Live, TypeOK
  <2> QED
    BY <1>1, <1>3, <2>1 DEF Task, Kills, TaskNotReady, TaskRegress, TaskReserve, TaskRefused,
      TaskBind, TaskVerified, TaskPoint, TaskRepoint, TaskSeesDial, TaskTimesOut, TaskCheck,
      TaskPromote, TaskTail, TaskDisarm, TaskUndo, TaskSettle, TaskPop
<1>4. CASE Cancel
  BY <1>1, <1>4 DEF Cancel, Kills, CancelRead, CancelTail, CancelPoint, CancelPop, CancelEnd
<1>5. CASE Sweep
  BY <1>1, <1>5 DEF Sweep, Kills, SweepHook, SweepRows
<1>6. CASE RequestStep
  BY <1>1, <1>6 DEF RequestStep, StopService, RestartDesires, RestartMarks, DeployReads,
    DeployChecks, RollbackReads, DeployWrites, DrainCancels
<1>7. CASE Fails
  <2>1. ~ContainerExits
    BY DEF ContainerExits, Live, TypeOK, Container
  <2> QED
    BY <1>1, <1>7, <2>1 DEF Fails, TaskRaises, DaemonCrashes, DaemonReexecs, VolatileLost
<1>8. CASE ProxyReconcile
  BY <1>1, <1>8 DEF ProxyReconcile
<1>9. CASE UNCHANGED vars
  BY <1>1, <1>9 DEF vars
<1> QED
  BY <1>2, <1>3, <1>4, <1>5, <1>6, <1>7, <1>8, <1>9 DEF Next

LEMMA DestroyTakes ==
  ASSUME TypeOK, NEW S, Destroy(S), NEW c \in Containers, Live(c), ctr'[c].st = "gone"
  PROVE  c \in S
  BY DEF TypeOK, Destroy, Live

LEMMA KillSpares ==
  ASSUME TypeOK, Ownership, Kills, NEW c \in Containers,
         c = row.cid, Live(c), ctr'[c].st = "gone"
  PROVE  tpc \in {"swap", "teardown"} \/ (cpc = "kill" /\ cpc' = "idle")
<1>1. CASE TickTeardown \/ TickSwap
  BY <1>1 DEF TickTeardown, TickSwap
<1>2. CASE TickReap
  BY <1>2, DestroyTakes DEF TickReap, Ownership, TickOwns
<1>3. CASE TickCrash
  BY <1>3, DestroyTakes DEF TickCrash, Ownership, TickOwns
<1>4. CASE TaskUnverified \/ TaskDrop
  BY <1>4, DestroyTakes DEF TaskUnverified, TaskDrop, Ownership, TaskOwns, HasGreen
<1>5. CASE TaskRetire
  BY <1>5, DestroyTakes DEF TaskRetire, Ownership, TaskOwns, HasPromoted
<1>6. CASE CancelDestroy
  BY <1>6, DestroyTakes DEF CancelDestroy, Ownership, CancelOwns
<1>7. CASE CancelKill
  BY <1>7 DEF CancelKill, CancelDone
<1>8. CASE SweepKill
  BY <1>8, DestroyTakes DEF SweepKill, Ownership, SweepOwns
<1> QED
  BY <1>1, <1>2, <1>3, <1>4, <1>5, <1>6, <1>7, <1>8 DEF Kills

\* No step but a swap's, a teardown's or the drain's last kill takes down the live
\* container the row names.
THEOREM ServingIsKept == Spec => KeepsServing
<1>1. ASSUME TypeOK, Ownership, [Next]_vars
      PROVE  [\A c \in Containers :
                c = row.cid /\ Live(c) /\ ctr'[c].st = "gone"
                  => tpc \in {"swap", "teardown"} \/ (cpc = "kill" /\ cpc' = "idle")]_vars
  BY <1>1, OnlyKillsKill, KillSpares
<1> QED
  BY <1>1, TypeCorrect, OwnershipHolds, PTL DEF Spec, KeepsServing

---------------------------------------------------------------------------
(* The marker, the dial and the pointer.  Two facts about the environment  *)
(* are used, and each theorem names those it needs:                        *)
(*   no drain     a drain's cancel runs beside the tick, which takes it    *)
(*                for a crash; a stop's cancel holds the tick              *)
(*   BootSettles  no request writes over a marker that it read             *)

HIDE DEF TickPc, TaskPc, CancelPc, Ownership, HeldIsKnown, TickOwns, StopOwns, StoppedIsDown,
         TaskOwns, CancelOwns, SweepOwns, Known, Live, TaskInFlight, HasGreen, HasPromoted

\* Without a drain, a cancel is the stop branch's and the tick waits for it.
CancelAlone ==
  /\ cpc # "idle" => tpc = "cancel" /\ ~TaskInFlight /\ cx.by = "tick"
  /\ ~draining /\ cpc # "kill"

---------------------------------------------------------------------------
(* A container that was handed out keeps its port, its generation and its  *)
(* label, and lives only on; what comes to life is a launch of the tick's  *)
(* or of the task's.                                                       *)

Kept ==
  \A c \in Containers : ctr[c].st # "none" =>
    /\ Live(c)' => Live(c)
    /\ ctr'[c].port = ctr[c].port /\ ctr'[c].gen = ctr[c].gen
    /\ ctr'[c].green = ctr[c].green

Launched(c) ==
  /\ ctr[c].st = "none"
  /\ \/ TickRun /\ ctr'[c].port = ep.host
     \/ TaskRun /\ ctr'[c].port = vt.gport

LEMMA DestroyKeeps ==
  ASSUME TypeOK, NEW S, Destroy(S)
  PROVE  Kept /\ (\A c \in Containers : Live(c)' => Live(c))
  BY DEF TypeOK, Destroy, Kept, Live, Exists, Container

LEMMA StepKeeps ==
  ASSUME TypeOK, [Next]_vars
  PROVE  Kept /\ (\A c \in Containers : Live(c)' => Live(c) \/ Launched(c))
<1>1. CASE Kills
  BY <1>1, DestroyKeeps DEF Kills, TickTeardown, TickSwap, TickReap, TickCrash,
    TaskUnverified, TaskRetire, TaskDrop, CancelDestroy, CancelKill, SweepKill
<1>2. CASE TickRun
  <2>1. PICK c \in Containers : ctr[c].st = "none" /\ Started(c, tk.snap.bv, ep.host, FALSE)
    BY <1>2 DEF TickRun
  <2>2. ctr'[c].port = ep.host /\ \A d \in Containers : d # c => ctr'[d] = ctr[d]
    BY <2>1 DEF Started, TypeOK
  <2>3. Kept
    BY <2>1, <2>2 DEF Kept, Live
  <2>4. Launched(c)
    BY <1>2, <2>1, <2>2 DEF Launched
  <2>5. \A d \in Containers : d # c => (Live(d)' => Live(d))
    BY <2>2 DEF Live
  <2> QED
    BY <2>3, <2>4, <2>5
<1>3. CASE TaskRun
  <2>1. PICK c \in Containers : ctr[c].st = "none" /\ Started(c, vt.ver, vt.gport, TRUE)
    BY <1>3 DEF TaskRun
  <2>2. ctr'[c].port = vt.gport /\ \A d \in Containers : d # c => ctr'[d] = ctr[d]
    BY <2>1 DEF Started, TypeOK
  <2>3. Kept
    BY <2>1, <2>2 DEF Kept, Live
  <2>4. Launched(c)
    BY <1>3, <2>1, <2>2 DEF Launched
  <2>5. \A d \in Containers : d # c => (Live(d)' => Live(d))
    BY <2>2 DEF Live
  <2> QED
    BY <2>3, <2>4, <2>5
<1>4. CASE ContainerExits
  BY <1>4 DEF TypeOK, ContainerExits, Kept, Live, Container
<1>5. CASE ctr' = ctr
  BY <1>5 DEF Kept, Live
<1>6. ASSUME ~Kills, ~TickRun, ~TaskRun, ~ContainerExits PROVE ctr' = ctr
  <2>1. CASE Tick
    BY <1>6, <2>1 DEF Tick, Kills, TickFetch, TickCancels, TickRereads, TickDeregister,
      TickRelease, TickStopped, TickYields, TickFindsMarker, TickTail, TickRestore,
      TickSettle, TickPop, TickGate, TickIneligible, TickStampVerifying, TickArm, TickMark,
      TickSpawn, TickWaits, TickAcquire, TickRefuses, TickRefused, TickBlames,
      TickStampLaunching, TickSchedule, TickRunFails, TickClearPointer, TickAdopt,
      TickRegister, TickExits, TickBacksOff, TickGivesUp, TickDefers, TickStampHealthy,
      TickRecover, TickDegrades
  <2>2. CASE Task
    BY <1>6, <2>2 DEF Task, Kills, TaskNotReady, TaskRegress, TaskReserve, TaskRefused,
      TaskBind, TaskVerified, TaskPoint, TaskRepoint, TaskSeesDial, TaskTimesOut, TaskCheck,
      TaskPromote, TaskTail, TaskDisarm, TaskUndo, TaskSettle, TaskPop
  <2>3. CASE Cancel \/ Sweep
    BY <1>6, <2>3 DEF Cancel, Sweep, Kills, CancelRead, CancelTail, CancelPoint, CancelPop,
      CancelEnd, SweepHook, SweepRows
  <2>4. CASE RequestStep
    BY <2>4 DEF RequestStep, StopService, RestartDesires, RestartMarks, DeployReads,
      DeployChecks, RollbackReads, DeployWrites, DrainCancels
  <2>5. CASE Fails
    BY <1>6, <2>5 DEF Fails, TaskRaises, DaemonCrashes, DaemonReexecs, VolatileLost
  <2>6. CASE ProxyReconcile \/ UNCHANGED vars
    BY <2>6 DEF ProxyReconcile, vars
  <2> QED
    BY <2>1, <2>2, <2>3, <2>4, <2>5, <2>6 DEF Next
<1> QED
  BY <1>1, <1>2, <1>3, <1>4, <1>5, <1>6

---------------------------------------------------------------------------
(* The dial: what f1 and f2 establish until blue is retired.               *)

Reserved == vpc \notin {"none", "resolve", "regress"}
Pointed == vpc \in {"repoint", "await", "check", "promote", "tail", "disarm", "retire"}
Seen == vpc \in {"check", "promote", "tail", "disarm", "retire"}

\* What lives listens on a port, since a launch follows its reservation ...
Listening == \A c \in Containers : Live(c) => ctr[c].port # NoPort
LaunchReserved == tpc \in {"prepare", "schedule", "run"} => ep.host # NoPort
\* ... and blue not on the transient port, which was free when it was reserved.
PortsApart ==
  Reserved => vt.gport \in EphPorts /\ (Live(vt.blue) => ctr[vt.blue].port # vt.gport)

DialHeld ==
  /\ CancelAlone /\ LaunchReserved /\ PortsApart
  /\ Pointed => ep.host = NoPort \/ ep.active = vt.gport
  /\ Seen => dial \in {vt.gport, NoPort}

DialInv == Listening /\ DialHeld

LEMMA NextListening ==
  ASSUME TypeOK, DialInv, [Next]_vars
  PROVE  Listening'
<1>1. \A c \in Containers : Live(c)' => Live(c) \/ Launched(c)
  BY StepKeeps
<1>2. \A c \in Containers : Launched(c) => ctr'[c].port # NoPort
  BY ValueAssumption DEF Launched, DialInv, DialHeld, LaunchReserved, PortsApart, Reserved,
    TickRun, TaskRun
<1>3. \A c \in Containers : Live(c) => ctr[c].st # "none" /\ ctr[c].port # NoPort
  BY DEF DialInv, Listening, Live
<1> QED
  BY <1>1, <1>2, <1>3, StepKeeps DEF Listening, Kept

USE DEF DialHeld, CancelAlone, LaunchReserved, PortsApart, Reserved, Pointed, Seen,
        Ownership, HeldIsKnown, TickOwns, Known, Live, TaskInFlight, Kept

LEMMA TickKeepsDial == ASSUME TypeOK, Ownership, DialHeld, Kept, Tick PROVE DialHeld'
<1>1. CASE TickFetch
  BY <1>1 DEF TickFetch, NoTick, NoSnap
<1>2. CASE TickCancels
  BY <1>2 DEF TickCancels, TickTo, CancelTask, TaskDone, NoCancel, NoTask, NoSnap
<1>3. CASE TickRereads
  BY <1>3 DEF TickRereads, TickDone, NoTick, NoSnap
<1>4. CASE TickTeardown
  BY <1>4 DEF TickTeardown, TickReleases, Destroy, Exists
<1>5. CASE TickDeregister
  BY <1>5 DEF TickDeregister, TickTo
<1>6. CASE TickRelease
  BY <1>6 DEF TypeOK, TickMemory, TickRelease, TickTo, TickDone, NoTick, NoSnap
<1>7. CASE TickStopped
  BY <1>7 DEF TickStopped, TickDone, NoTick, NoSnap
<1>8. CASE TickYields
  BY <1>8 DEF TickYields, TickDone, NoTick, NoSnap
<1>9. CASE TickFindsMarker
  BY <1>9 DEF TickFindsMarker, TickDone, GateOpen, NoTick, NoSnap
<1>10. CASE TickTail
  BY <1>10 DEF TickTail, TickTo
<1>11. CASE TickRestore
  BY <1>11 DEF TickRestore, TickTo, SetActive
<1>12. CASE TickReap
  BY <1>12 DEF TickReap, TickTo, Destroy, Exists
<1>13. CASE TickSettle
  BY <1>13 DEF TickSettle, TickTo, Exists
<1>14. CASE TickPop
  BY <1>14 DEF TickPop, TickDone, NoTick, NoSnap
<1>15. CASE TickGate
  BY <1>15 DEF TickGate, TickTo, GateOpen
<1>16. CASE TickIneligible
  BY <1>16 DEF TickIneligible, TickTo, GateOpen
<1>17. CASE TickStampVerifying
  BY <1>17 DEF TickStampVerifying, TickTo
<1>18. CASE TickArm
  BY <1>18 DEF TickArm, TickTo
<1>19. CASE TickMark
  BY <1>19 DEF TickMark, TickTo
<1>20. CASE TickSpawn
  BY <1>20 DEF TickSpawn, TickDone, NoTask, NoTick, NoSnap
<1>21. CASE TickSwap
  BY <1>21 DEF TickSwap, TickTo, Destroy, Exists
<1>22. CASE TickWaits
  BY <1>22 DEF TickWaits, TickDone, NoTick, NoSnap
<1>23. CASE TickAcquire
  BY <1>23, ValueAssumption DEF TickAcquire, TickTo
<1>24. CASE TickRefuses
  BY <1>24 DEF TickRefuses, TickReleases
<1>25. CASE TickRefused
  BY <1>25 DEF TickRefused, TickTo
<1>26. CASE TickBlames
  BY <1>26 DEF TickBlames, TickDone, NoTick, NoSnap
<1>27. CASE TickStampLaunching
  BY <1>27 DEF TickStampLaunching, TickTo
<1>28. CASE TickSchedule
  BY <1>28 DEF TickSchedule, TickTo
<1>29. CASE TickRun
  BY <1>29 DEF TickRun, Started
<1>30. CASE TickRunFails
  BY <1>30 DEF TickRunFails, TickTo
<1>31. CASE TickClearPointer
  BY <1>31 DEF TickClearPointer, TickTo, SetActive
<1>32. CASE TickAdopt
  BY <1>32 DEF TickAdopt, TickTo
<1>33. CASE TickRegister
  BY <1>33 DEF TickRegister, TickDone, NoTick, NoSnap
<1>34. CASE TickCrash
  BY <1>34 DEF TickCrash, TickTo, Destroy, Exists
<1>35. CASE TickExits
  BY <1>35 DEF TickExits, TickReleases
<1>36. CASE TickBacksOff
  BY <1>36 DEF TickBacksOff, TickDone, NoTick, NoSnap
<1>37. CASE TickGivesUp
  BY <1>37 DEF TickGivesUp, TickReleases
<1>38. CASE TickDefers
  BY <1>38 DEF TickDefers, TickDone, NoTick, NoSnap
<1>39. CASE TickStampHealthy
  BY <1>39 DEF TickStampHealthy, TickTo
<1>40. CASE TickRecover
  BY <1>40 DEF TickRecover, TickDone, NoTick, NoSnap
<1>41. CASE TickDegrades
  BY <1>41 DEF TickDegrades, TickDone, NoTick, NoSnap
<1> QED
  BY <1>1, <1>2, <1>3, <1>4, <1>5, <1>6, <1>7, <1>8, <1>9, <1>10, <1>11, <1>12,
    <1>13, <1>14, <1>15, <1>16, <1>17, <1>18, <1>19, <1>20, <1>21, <1>22, <1>23, <1>24,
    <1>25, <1>26, <1>27, <1>28, <1>29, <1>30, <1>31, <1>32, <1>33, <1>34, <1>35, <1>36,
    <1>37, <1>38, <1>39, <1>40, <1>41 DEF Tick

LEMMA TaskKeepsDial == ASSUME TypeOK, Ownership, DialHeld, Kept, Task PROVE DialHeld'
<1>1. CASE TaskNotReady
  BY <1>1 DEF TaskNotReady, TaskTo
<1>2. CASE TaskRegress
  BY <1>2 DEF TaskRegress, TaskDone, NoTask
<1>3. CASE TaskReserve
  BY <1>3 DEF Bound, TaskReserve
<1>4. CASE TaskRefused
  BY <1>4 DEF TaskRefused, TaskTo
<1>5. CASE TaskRun
  BY <1>5 DEF TaskRun, Started
<1>6. CASE TaskBind
  BY <1>6 DEF TaskBind
<1>7. CASE TaskVerified
  BY <1>7 DEF TaskVerified, TaskTo
<1>8. CASE TaskUnverified
  BY <1>8 DEF TaskUnverified, Destroy, Exists
<1>9. CASE TaskPoint
  BY <1>9, ValueAssumption DEF TaskPoint, TaskTo, SetActive
<1>10. CASE TaskRepoint
  BY <1>10 DEF TaskRepoint, TaskTo
<1>11. CASE TaskSeesDial
  BY <1>11 DEF TaskSeesDial, TaskTo
<1>12. CASE TaskTimesOut
  BY <1>12 DEF TaskTimesOut, TaskTo
<1>13. CASE TaskCheck
  BY <1>13 DEF TaskCheck, TaskTo
<1>14. CASE TaskPromote
  BY <1>14 DEF TaskPromote, TaskTo
<1>15. CASE TaskTail
  BY <1>15 DEF TaskTail, TaskTo
<1>16. CASE TaskDisarm
  BY <1>16 DEF TaskDisarm, TaskTo
<1>17. CASE TaskRetire
  BY <1>17 DEF TaskRetire, TaskDone, Destroy, NoTask, Exists
<1>18. CASE TaskUndo
  BY <1>18 DEF TaskUndo, TaskTo, SetActive
<1>19. CASE TaskDrop
  BY <1>19 DEF TaskDrop, Destroy, Exists
<1>20. CASE TaskSettle
  BY <1>20 DEF TaskSettle, TaskTo, Exists
<1>21. CASE TaskPop
  BY <1>21 DEF TaskPop, TaskDone, NoTask
<1> QED
  BY <1>1, <1>2, <1>3, <1>4, <1>5, <1>6, <1>7, <1>8, <1>9, <1>10, <1>11, <1>12,
    <1>13, <1>14, <1>15, <1>16, <1>17, <1>18, <1>19, <1>20, <1>21 DEF Task

LEMMA CancelKeepsDial == ASSUME TypeOK, Ownership, DialHeld, Kept, Cancel PROVE DialHeld'
<1>1. CASE CancelRead
  BY <1>1 DEF CancelRead, AfterGreens
<1>2. CASE CancelDestroy
  BY <1>2 DEF CancelDestroy, CancelTo, Destroy, AfterGreens, Exists
<1>3. CASE CancelTail
  BY <1>3 DEF CancelTail, CancelTo
<1>4. CASE CancelPoint
  BY <1>4 DEF CancelPoint, CancelTo, SetActive
<1>5. CASE CancelPop
  BY <1>5 DEF CancelPop, CancelTo
<1>6. CASE CancelEnd
  BY <1>6 DEF CancelEnd, CancelDone, NoCancel, NoSnap
<1>7. CASE CancelKill
  BY <1>7 DEF CancelKill, CancelDone, Destroy, NoCancel, Exists, NoSnap
<1> QED
  BY <1>1, <1>2, <1>3, <1>4, <1>5, <1>6, <1>7 DEF Cancel

LEMMA SweepKeepsDial == ASSUME TypeOK, Ownership, DialHeld, Kept, Sweep PROVE DialHeld'
<1>1. CASE SweepHook
  BY <1>1 DEF SweepHook
<1>2. CASE SweepRows
  BY <1>2 DEF SweepRows
<1>3. CASE SweepKill
  BY <1>3 DEF SweepKill, Destroy, Exists
<1> QED
  BY <1>1, <1>2, <1>3 DEF Sweep

LEMMA RequestStepKeepsDial ==
  ASSUME TypeOK, Ownership, DialHeld, Kept, RequestStep, "drain" \notin Requests
  PROVE  DialHeld'
<1>1. CASE StopService
  BY <1>1 DEF StopService, Request
<1>2. CASE RestartDesires
  BY <1>2 DEF RestartDesires, Request
<1>3. CASE RestartMarks
  BY <1>3 DEF RestartMarks
<1>4. CASE DeployReads
  BY <1>4 DEF DeployReads, Request, ReadFor
<1>5. CASE DeployChecks
  BY <1>5 DEF DeployChecks, NoRequest
<1>6. CASE RollbackReads
  BY <1>6 DEF RollbackReads, Request, ReadFor
<1>7. CASE DeployWrites
  BY <1>7 DEF DeployWrites, NoRequest
<1>8. CASE DrainCancels
  BY <1>8 DEF DrainCancels, CancelTask, Request, TaskDone, NoCancel, NoTask, NoSnap
<1> QED
  BY <1>1, <1>2, <1>3, <1>4, <1>5, <1>6, <1>7, <1>8 DEF RequestStep

LEMMA FailsKeepsDial == ASSUME TypeOK, Ownership, DialHeld, Kept, Fails PROVE DialHeld'
<1>1. CASE TaskRaises
  BY <1>1 DEF TaskRaises, TaskDone, NoTask
<1>2. CASE ContainerExits
  BY <1>2 DEF ContainerExits, Fault
<1>3. CASE DaemonCrashes
  BY <1>3 DEF DaemonCrashes, VolatileLost, Fault, TickDone, TaskDone, CancelDone, NoRequest,
    NoTick, NoTask, NoCancel, NoSnap
<1>4. CASE DaemonReexecs
  BY <1>4 DEF DaemonReexecs, VolatileLost, TickDone, TaskDone, CancelDone, NoRequest,
    NoTick, NoTask, NoCancel, NoSnap
<1> QED
  BY <1>1, <1>2, <1>3, <1>4 DEF Fails

LEMMA NextDial ==
  ASSUME "drain" \notin Requests, TypeOK, Ownership, DialInv, [Next]_vars
  PROVE  DialInv'
<1>1. Kept /\ Listening'
  BY StepKeeps, NextListening
<1>2. CASE ProxyReconcile
  BY <1>1, <1>2, ValueAssumption DEF ProxyReconcile, RoutedPort, LivePort, DialInv
<1>3. CASE UNCHANGED vars
  BY <1>1, <1>3 DEF vars, DialInv
<1> QED
  BY <1>1, <1>2, <1>3, TickKeepsDial, TaskKeepsDial, CancelKeepsDial, SweepKeepsDial,
    RequestStepKeepsDial, FailsKeepsDial
  DEF Next, DialInv

LEMMA InitDial == ASSUME Init PROVE DialInv
<1>1. DialHeld
  BY DEF Init
<1>2. Listening
  BY ValueAssumption DEF Init, Listening, Unborn, Ports
<1> QED
  BY <1>1, <1>2 DEF DialInv

HIDE DEF DialHeld, CancelAlone, LaunchReserved, PortsApart, Reserved, Pointed, Seen,
         Ownership, HeldIsKnown, TickOwns, Known, Live, TaskInFlight, Kept

\* What the two orders of the repoint need, for every step.
THEOREM DialInvHolds ==
  ASSUME "drain" \notin Requests
  PROVE  Spec => []DialInv
<1>1. Init => DialInv
  BY InitDial
<1>2. TypeOK /\ Ownership /\ DialInv /\ [Next]_vars => DialInv'
  BY NextDial
<1> QED
  BY <1>1, <1>2, TypeCorrect, OwnershipHolds, PTL DEF Spec

\* Once the verify task is about to retire blue, Caddy dials the green or nothing:
\* the proxy reconcile can only have written the pointer that f1 moved.
THEOREM RetiredIsNotDialled ==
  ASSUME "drain" \notin Requests
  PROVE  Spec => NoDialToRetired
<1>1. ASSUME DialInv, [Next]_vars
      PROVE  [\A c \in Containers :
                vpc = "retire" /\ Live(c) /\ ctr'[c].st = "gone" /\ c = vt.blue
                  => dial # ctr[c].port]_vars
  BY <1>1 DEF DialInv, DialHeld, Listening, PortsApart, Reserved, Seen
<1> QED
  BY <1>1, DialInvHolds, PTL DEF Spec, NoDialToRetired

---------------------------------------------------------------------------
(* The marker.                                                             *)

Uncommitted(r) == Matches(r) /\ r.cid \in {NoCtr, r.marker.blue}

\* Version 0, the absent key, is no generation.
Numbered ==
  /\ row.bv # 0 /\ (Armed(row) \/ row.marker = NoMarker)
  /\ tpc # "idle" => tk.snap.bv # 0
  /\ dpc \in {"check", "write"} /\ dq.kind = "rollback" => dq.prev # 0

\* Between its gate and its mark the tick's snapshot names the row's container, and
\* no marker is armed; past its mark, the marker is the one it wrote.
TickMarks ==
  /\ tpc = "gate" /\ ~Matches(tk.snap)
       => row.cid = tk.snap.cid /\ vpc \in {"none", "regress", "retire", "pop"}
  /\ \/ tpc = "gate" /\ ~Matches(tk.snap)
     \/ tpc \in {"stamp", "arm", "mark", "swap", "dead", "prepare", "schedule", "run",
                 "started", "adopt", "policy", "count", "refused", "blame"}
     \/ tpc \in {"deregister", "release"} /\ tk.then = "refused"
     => ~Matches(row)
  /\ tpc \in {"stamp", "arm", "mark", "spawn", "swap"} => row.cid = tk.snap.cid
  /\ tpc = "spawn"
       => Matches(row) /\ row.marker.ver = tk.snap.bv /\ row.marker.blue = tk.snap.cid
  /\ tpc \in {"restore", "reap", "settle"}
       => Uncommitted(row) /\ row.marker = tk.snap.marker

BeforeSettle == HasGreen \/ vpc \in {"resolve", "run", "settle"}
TaskMarks ==
  /\ BeforeSettle \/ vpc \in {"tail", "disarm"}
       => Matches(row) /\ row.marker.ver = vt.ver /\ row.marker.blue = vt.blue
  /\ BeforeSettle => row.cid = vt.blue
  /\ vpc \in {"regress", "retire"} => ~Armed(row)
  /\ HasGreen \/ HasPromoted
       => vt.green \in Containers /\ ctr[vt.green].green /\ ctr[vt.green].gen = vt.ver

MarkerInv == Numbered /\ TickMarks /\ TaskMarks /\ MarkerTellsTheSide

\* What the statements of ServiceRow do to the marker and to its generation.
MarkerOf(r) == <<r.cid, r.bv, r.marker>>

LEMMA StatementKeepsMarker ==
  ASSUME NEW r \in Row
  PROVE  /\ MarkerOf(SettledTerminal(r)) = MarkerOf(r)
         /\ \A v, e : /\ SettleFailedGeneration(r, v, e).cid = r.cid
                      /\ SettleFailedGeneration(r, v, e).marker = r.marker
                      /\ r.bv # v => SettleFailedGeneration(r, v, e) = r
                      /\ r.bv # 0 => SettleFailedGeneration(r, v, e).bv # 0
         /\ \A v : /\ MarkerPopped(r, v).bv = r.bv
                   /\ r.marker.ver = v => ~Armed(MarkerPopped(r, v))
                   /\ MarkerPopped(r, v).marker \in {r.marker, NoMarker}
  BY DEF Row, Marker, SettledTerminal, SettleFailedGeneration, Reverted, MarkerPopped, MarkerOf, Armed, NoMarker

USE DEF MarkerInv, Numbered, TickMarks, TaskMarks, BeforeSettle, MarkerTellsTheSide, Uncommitted,
        Matches, Armed, CancelAlone,
        Ownership, HeldIsKnown, TickOwns, TaskOwns, Known, Live, TaskInFlight, Kept,
        HasGreen, HasPromoted, MarkerOf

LEMMA TickKeepsMarker ==
  ASSUME TypeOK, Ownership, CancelAlone, MarkerInv, Kept, Tick
  PROVE  MarkerInv'
<1>1. CASE TickFetch
  <2>1. tk'.snap = row
    BY <1>1 DEF TypeOK, TickFetch, NoTick
  <2>2. Numbered'
    BY <1>1, <2>1 DEF TickFetch
  <2>4. TaskMarks'
    BY <1>1 DEF TickFetch
  <2>5. MarkerTellsTheSide'
    BY <1>1 DEF TickFetch
  <2>3. TickMarks'
    BY <1>1, <2>1 DEF TypeOK, TaskPc, TickFetch
  <2> QED
    BY <2>2, <2>3, <2>4, <2>5
<1>2. CASE TickCancels
  BY <1>2 DEF TickCancels, TickTo, CancelTask, TaskDone, NoCancel, NoTask, NoSnap
<1>3. CASE TickRereads
  BY <1>3 DEF TypeOK, TickMemory, TickRereads, TickDone, NoTick, NoSnap
<1>4. CASE TickTeardown
  BY <1>4 DEF TypeOK, Row, MaybeCtr, TickTeardown, TickReleases
<1>5. CASE TickDeregister
  BY <1>5 DEF TickDeregister, TickTo
<1>6. CASE TickRelease
  BY <1>6 DEF TypeOK, TickMemory, TickRelease, TickTo, TickDone, NoTick, NoSnap
<1>7. CASE TickStopped
  BY <1>7 DEF TypeOK, Row, TickStopped, TickDone, NoTick, NoSnap
<1>8. CASE TickYields
  BY <1>8 DEF TickYields, TickDone, NoTick, NoSnap
<1>9. CASE TickFindsMarker
  BY <1>9 DEF TypeOK, TickMemory, TickFindsMarker, TickDone, GateOpen, NoTick, NoSnap
<1>10. CASE TickTail
  <2>1. row'.cid = row.cid /\ row'.bv = row.bv /\ row'.marker = row.marker
    BY <1>10, StatementKeepsMarker, PatchKeeps DEF TypeOK, TickTail
  <2> QED
    BY <1>10, <2>1 DEF TickTail, TickTo
<1>11. CASE TickRestore
  BY <1>11 DEF TickRestore, TickTo, SetActive
<1>12. CASE TickReap
  BY <1>12 DEF TickReap, TickTo
<1>13. CASE TickSettle
  <2>1. /\ row'.cid = row.cid /\ row'.marker = row.marker /\ (row.bv # 0 => row'.bv # 0)
        /\ row.bv # tk.snap.marker.ver => row' = row
    BY <1>13, StatementKeepsMarker, PatchKeeps DEF TypeOK, TickSettle
  <2>2. Numbered'
    BY <1>13, <2>1 DEF TickSettle, TickTo
  <2>3. TickMarks'
    BY <1>13, <2>1 DEF TickSettle, TickTo
  <2>4. TaskMarks'
    BY <1>13, <2>1 DEF TickSettle, TickTo
  <2>5. MarkerTellsTheSide'
    BY <1>13, <2>1 DEF TickSettle, TickTo
  <2> QED
    BY <2>2, <2>3, <2>4, <2>5
<1>14. CASE TickPop
  <2>1. /\ row'.cid = row.cid /\ row'.bv = row.bv /\ row'.marker \in {row.marker, NoMarker}
        /\ row.marker.ver = tk.snap.marker.ver => ~Armed(row)'
    BY <1>14, StatementKeepsMarker, PatchKeeps DEF TypeOK, TickPop
  <2> QED
    BY <1>14, <2>1, SMTT(40) DEF NoMarker, TickPop, TickDone, NoTick, NoSnap
<1>15. CASE TickGate
  BY <1>15 DEF TickGate, TickTo, GateOpen
<1>16. CASE TickIneligible
  BY <1>16 DEF TickIneligible, TickTo, GateOpen
<1>17. CASE TickStampVerifying
  <2>1. row'.cid = row.cid /\ row'.bv = row.bv /\ row'.marker = row.marker
    BY <1>17, StatementKeepsMarker, PatchKeeps DEF TypeOK, TickStampVerifying
  <2> QED
    BY <1>17, <2>1 DEF TickStampVerifying, TickTo
<1>18. CASE TickArm
  BY <1>18 DEF TypeOK, TickMemory, TickArm, TickTo
<1>19. CASE TickMark
  BY <1>19, StatementKeepsMarker, PatchKeeps DEF TypeOK, TickMemory, MarkerArmed, TickMark,
    TickTo
<1>20. CASE TickSpawn
  BY <1>20 DEF TickSpawn, TickDone, NoTask, NoTick, NoSnap
<1>21. CASE TickSwap
  BY <1>21 DEF TickSwap, TickTo
<1>22. CASE TickWaits
  BY <1>22 DEF TickWaits, TickDone, NoTick, NoSnap
<1>23. CASE TickAcquire
  BY <1>23 DEF TickAcquire, TickTo
<1>24. CASE TickRefuses
  BY <1>24 DEF TickRefuses, TickReleases
<1>25. CASE TickRefused
  BY <1>25 DEF TypeOK, Row, TickRefused, TickTo
<1>26. CASE TickBlames
  BY <1>26 DEF TypeOK, Row, TickBlames, TickDone, NoTick, NoSnap
<1>27. CASE TickStampLaunching
  <2>1. row'.cid = row.cid /\ row'.bv = row.bv /\ row'.marker = row.marker
    BY <1>27, StatementKeepsMarker, PatchKeeps DEF TypeOK, TickStampLaunching
  <2> QED
    BY <1>27, <2>1 DEF TickStampLaunching, TickTo
<1>28. CASE TickSchedule
  BY <1>28 DEF TypeOK, Row, TickSchedule, TickTo
<1>29. CASE TickRun
  BY <1>29 DEF TypeOK, TickMemory, TickRun, Started
<1>30. CASE TickRunFails
  BY <1>30 DEF TickRunFails, TickTo
<1>31. CASE TickClearPointer
  BY <1>31 DEF TickClearPointer, TickTo, SetActive
<1>32. CASE TickAdopt
  BY <1>32 DEF TypeOK, Row, TickAdopt, TickTo
<1>33. CASE TickRegister
  BY <1>33 DEF TickRegister, TickDone, NoTick, NoSnap
<1>34. CASE TickCrash
  BY <1>34 DEF TickCrash, TickTo
<1>35. CASE TickExits
  BY <1>35 DEF TypeOK, Row, TickExits, TickReleases
<1>36. CASE TickBacksOff
  BY <1>36 DEF TypeOK, Row, TickBacksOff, TickDone, NoTick, NoSnap
<1>37. CASE TickGivesUp
  <2>1. row'.cid = row.cid /\ row'.bv = row.bv /\ row'.marker = row.marker
    BY <1>37, StatementKeepsMarker, PatchKeeps DEF TypeOK, TickGivesUp
  <2> QED
    BY <1>37, <2>1 DEF TickGivesUp, TickReleases
<1>38. CASE TickDefers
  BY <1>38 DEF TickDefers, TickDone, NoTick, NoSnap
<1>39. CASE TickStampHealthy
  <2>1. row'.cid = row.cid /\ row'.bv = row.bv /\ row'.marker = row.marker
    BY <1>39, StatementKeepsMarker, PatchKeeps DEF TypeOK, TickStampHealthy
  <2> QED
    BY <1>39, <2>1 DEF TickStampHealthy, TickTo
<1>40. CASE TickRecover
  BY <1>40 DEF TickRecover, TickDone, NoTick, NoSnap
<1>41. CASE TickDegrades
  BY <1>41 DEF TypeOK, Row, TickDegrades, TickDone, NoTick, NoSnap
<1> QED
  BY <1>1, <1>2, <1>3, <1>4, <1>5, <1>6, <1>7, <1>8, <1>9, <1>10, <1>11, <1>12,
    <1>13, <1>14, <1>15, <1>16, <1>17, <1>18, <1>19, <1>20, <1>21, <1>22, <1>23, <1>24,
    <1>25, <1>26, <1>27, <1>28, <1>29, <1>30, <1>31, <1>32, <1>33, <1>34, <1>35, <1>36,
    <1>37, <1>38, <1>39, <1>40, <1>41 DEF Tick

LEMMA TaskKeepsMarker ==
  ASSUME TypeOK, Ownership, CancelAlone, MarkerInv, Kept, Task
  PROVE  MarkerInv'
<1>1. CASE TaskNotReady
  <2>1. /\ row'.cid = row.cid /\ row'.bv = row.bv /\ row'.marker \in {row.marker, NoMarker}
        /\ row.marker.ver = vt.ver => ~Armed(row)'
    BY <1>1, StatementKeepsMarker, PatchKeeps DEF TypeOK, TaskNotReady
  <2> QED
    BY <1>1, <2>1 DEF TaskNotReady, TaskTo
<1>2. CASE TaskRegress
  <2>1. row'.cid = row.cid /\ row'.bv = row.bv /\ row'.marker = row.marker
    BY <1>2, StatementKeepsMarker, PatchKeeps DEF TypeOK, TaskRegress
  <2> QED
    BY <1>2, <2>1 DEF TaskRegress, TaskDone, NoTask
<1>3. CASE TaskReserve
  BY <1>3 DEF TypeOK, TaskMemory, TaskReserve
<1>4. CASE TaskRefused
  BY <1>4 DEF TaskRefused, TaskTo
<1>5. CASE TaskRun
  BY <1>5 DEF TypeOK, TaskRun, Started
<1>6. CASE TaskBind
  BY <1>6 DEF TaskBind
<1>7. CASE TaskVerified
  BY <1>7 DEF TaskVerified, TaskTo
<1>8. CASE TaskUnverified
  BY <1>8 DEF TaskUnverified
<1>9. CASE TaskPoint
  BY <1>9 DEF TaskPoint, TaskTo, SetActive
<1>10. CASE TaskRepoint
  BY <1>10 DEF TaskRepoint, TaskTo
<1>11. CASE TaskSeesDial
  BY <1>11 DEF TaskSeesDial, TaskTo
<1>12. CASE TaskTimesOut
  BY <1>12 DEF TaskTimesOut, TaskTo
<1>13. CASE TaskCheck
  BY <1>13 DEF TaskCheck, TaskTo
<1>14. CASE TaskPromote
  BY <1>14 DEF TypeOK, Row, TaskPromote, TaskTo
<1>15. CASE TaskTail
  <2>1. row'.cid = row.cid /\ row'.bv = row.bv /\ row'.marker = row.marker
    BY <1>15, StatementKeepsMarker, PatchKeeps DEF TypeOK, TaskTail
  <2> QED
    BY <1>15, <2>1 DEF TaskTail, TaskTo
<1>16. CASE TaskDisarm
  <2>1. /\ row'.cid = row.cid /\ row'.bv = row.bv /\ row'.marker \in {row.marker, NoMarker}
        /\ row.marker.ver = vt.ver => ~Armed(row)'
    BY <1>16, StatementKeepsMarker, PatchKeeps DEF TypeOK, TaskDisarm
  <2> QED
    BY <1>16, <2>1 DEF TaskDisarm, TaskTo
<1>17. CASE TaskRetire
  BY <1>17 DEF TaskRetire, TaskDone, NoTask
<1>18. CASE TaskUndo
  BY <1>18 DEF TaskUndo, TaskTo, SetActive
<1>19. CASE TaskDrop
  BY <1>19 DEF TaskDrop
<1>20. CASE TaskSettle
  <2>1. /\ row'.cid = row.cid /\ row'.marker = row.marker /\ (row.bv # 0 => row'.bv # 0)
        /\ row.bv # vt.ver => row' = row
    BY <1>20, StatementKeepsMarker, PatchKeeps DEF TypeOK, TaskSettle
  <2>2. Numbered'
    BY <1>20, <2>1 DEF TaskSettle, TaskTo
  <2>3. TickMarks'
    BY <1>20, <2>1 DEF TaskSettle, TaskTo
  <2>4. TaskMarks'
    BY <1>20, <2>1 DEF TaskSettle, TaskTo
  <2>5. MarkerTellsTheSide'
    BY <1>20, <2>1 DEF TaskSettle, TaskTo
  <2> QED
    BY <2>2, <2>3, <2>4, <2>5
<1>21. CASE TaskPop
  <2>1. /\ row'.cid = row.cid /\ row'.bv = row.bv /\ row'.marker \in {row.marker, NoMarker}
        /\ row.marker.ver = vt.ver => ~Armed(row)'
    BY <1>21, StatementKeepsMarker, PatchKeeps DEF TypeOK, TaskPop
  <2> QED
    BY <1>21, <2>1 DEF NoMarker, TaskPop, TaskDone, NoTask
<1> QED
  BY <1>1, <1>2, <1>3, <1>4, <1>5, <1>6, <1>7, <1>8, <1>9, <1>10, <1>11, <1>12,
    <1>13, <1>14, <1>15, <1>16, <1>17, <1>18, <1>19, <1>20, <1>21 DEF Task

LEMMA CancelKeepsMarker ==
  ASSUME TypeOK, Ownership, CancelAlone, MarkerInv, Kept, Cancel
  PROVE  MarkerInv'
<1>1. CASE CancelRead
  BY <1>1 DEF CancelRead, AfterGreens
<1>2. CASE CancelDestroy
  BY <1>2 DEF TypeOK, Row, MaybeCtr, CancelDestroy, CancelTo, AfterGreens
<1>3. CASE CancelTail
  <2>1. row'.cid = row.cid /\ row'.bv = row.bv /\ row'.marker = row.marker
    BY <1>3, StatementKeepsMarker, PatchKeeps DEF TypeOK, CancelTail
  <2> QED
    BY <1>3, <2>1 DEF CancelTail, CancelTo
<1>4. CASE CancelPoint
  BY <1>4 DEF CancelPoint, CancelTo, SetActive
<1>5. CASE CancelPop
  <2>1. /\ row'.cid = row.cid /\ row'.bv = row.bv /\ row'.marker \in {row.marker, NoMarker}
        /\ row.marker.ver = cx.snap.marker.ver => ~Armed(row)'
    BY <1>5, StatementKeepsMarker, PatchKeeps DEF TypeOK, CancelPop
  <2> QED
    BY <1>5, <2>1, SMTT(40) DEF NoMarker, CancelPop, CancelTo
<1>6. CASE CancelEnd
  BY <1>6 DEF CancelEnd, CancelDone, NoCancel, NoSnap
<1>7. CASE CancelKill
  BY <1>7 DEF CancelKill, CancelDone, NoCancel, NoSnap
<1> QED
  BY <1>1, <1>2, <1>3, <1>4, <1>5, <1>6, <1>7 DEF Cancel

LEMMA SweepKeepsMarker ==
  ASSUME TypeOK, Ownership, CancelAlone, MarkerInv, Kept, Sweep
  PROVE  MarkerInv'
<1>1. CASE SweepHook
  BY <1>1 DEF SweepHook
<1>2. CASE SweepRows
  BY <1>2 DEF SweepRows
<1>3. CASE SweepKill
  <2>1. TickMarks' /\ Numbered'
    BY <1>3 DEF SweepKill
  <2>2. TaskMarks'
    BY <1>3 DEF SweepKill
  <2>3. MarkerTellsTheSide'
    BY <1>3 DEF TypeOK, Row, MaybeCtr, SweepKill
  <2> QED
    BY <2>1, <2>2, <2>3
<1> QED
  BY <1>1, <1>2, <1>3 DEF Sweep

LEMMA RequestStepKeepsMarker ==
  ASSUME TypeOK, Ownership, CancelAlone, MarkerInv, Kept, RequestStep, BootSettles,
         "drain" \notin Requests
  PROVE  MarkerInv'
<1>1. CASE StopService
  BY <1>1 DEF TypeOK, Row, StopService, Request
<1>2. CASE RestartDesires
  BY <1>2 DEF TypeOK, Row, RestartDesires, Request
<1>3. CASE RestartMarks
  BY <1>3 DEF TypeOK, Row, RestartMarks
<1>4. CASE DeployReads
  BY <1>4 DEF DeployReads, Request, ReadFor
<1>5. CASE DeployChecks
  BY <1>5 DEF DeployChecks, NoRequest
<1>6. CASE RollbackReads
  BY <1>6 DEF RollbackReads, Request, ReadFor
<1>7. CASE DeployWrites
  BY <1>7, StatementKeepsMarker, PatchKeeps DEF TypeOK, Row, RequestMemory, Redeployed,
    DeployAllowed, GenerationOf, NoMarker, DeployWrites, NoRequest
<1>8. CASE DrainCancels
  BY <1>8 DEF DrainCancels, CancelTask, Request, TaskDone, NoCancel, NoTask, NoSnap
<1> QED
  BY <1>1, <1>2, <1>3, <1>4, <1>5, <1>6, <1>7, <1>8 DEF RequestStep

LEMMA FailsKeepsMarker ==
  ASSUME TypeOK, Ownership, CancelAlone, MarkerInv, Kept, Fails
  PROVE  MarkerInv'
<1>1. CASE TaskRaises
  BY <1>1 DEF TaskRaises, TaskDone, NoTask
<1>2. CASE ContainerExits
  BY <1>2 DEF ContainerExits, Fault
<1>3. CASE DaemonCrashes
  BY <1>3 DEF DaemonCrashes, VolatileLost, Fault, TickDone, TaskDone, CancelDone, NoRequest,
    NoTick, NoTask, NoCancel, NoSnap
<1>4. CASE DaemonReexecs
  BY <1>4 DEF DaemonReexecs, VolatileLost, TickDone, TaskDone, CancelDone, NoRequest,
    NoTick, NoTask, NoCancel, NoSnap
<1> QED
  BY <1>1, <1>2, <1>3, <1>4 DEF Fails

LEMMA NextMarker ==
  ASSUME BootSettles, "drain" \notin Requests, TypeOK, Ownership, CancelAlone, MarkerInv,
         [Next]_vars
  PROVE  MarkerInv'
<1>1. Kept
  BY StepKeeps
<1>2. CASE ProxyReconcile
  BY <1>2 DEF ProxyReconcile
<1>3. CASE UNCHANGED vars
  BY <1>3 DEF vars
<1> QED
  BY <1>1, <1>2, <1>3, TickKeepsMarker, TaskKeepsMarker, CancelKeepsMarker,
    SweepKeepsMarker, RequestStepKeepsMarker, FailsKeepsMarker
  DEF Next

LEMMA InitMarker == ASSUME Init PROVE MarkerInv
  BY ValueAssumption DEF Init, NoMarker, NoRequest, NoTask

\* The steps that write the row: patches of its marker, plain writes, and the five
\* that may fail or revert a generation.
Patches ==
  TickPop \/ TickMark \/ TaskNotReady \/ TaskDisarm \/ TaskPop \/ CancelPop
Writes ==
  \/ TickStopped \/ TickSchedule \/ TickAdopt \/ TickBacksOff \/ TickRecover
  \/ TickDegrades \/ TaskPromote \/ StopService \/ RestartDesires \/ RestartMarks
Judges == TickSettle \/ TaskSettle \/ TickGivesUp \/ TickRefused \/ TickExits

LEMMA OnlyTheseWrite ==
  ASSUME [Next]_vars, row' # row
  PROVE  Patches \/ Writes \/ Judges \/ DeployWrites
<1>1. CASE Tick
  BY <1>1 DEF Tick, Patches, Writes, Judges, TickFetch, TickCancels, TickRereads,
    TickTeardown, TickDeregister, TickRelease, TickYields, TickFindsMarker, TickRestore,
    TickReap, TickGate, TickIneligible, TickArm, TickSpawn, TickSwap, TickWaits,
    TickAcquire, TickRefuses, TickRun, TickRunFails, TickClearPointer, TickRegister,
    TickCrash, TickDefers, TickTail, TickStampVerifying, TickBlames, TickStampLaunching,
    TickStampHealthy
<1>2. CASE Task
  BY <1>2 DEF Task, Patches, Writes, Judges, TaskReserve, TaskRefused, TaskRun, TaskBind,
    TaskVerified, TaskUnverified, TaskPoint, TaskRepoint, TaskSeesDial, TaskTimesOut,
    TaskCheck, TaskRetire, TaskUndo, TaskDrop, TaskRegress, TaskTail
<1>3. CASE Cancel \/ Sweep
  BY <1>3 DEF Cancel, Sweep, Patches, Writes, Judges, CancelRead, CancelDestroy,
    CancelTail, CancelPoint, CancelEnd, CancelKill, SweepHook, SweepRows, SweepKill
<1>4. CASE RequestStep
  BY <1>4 DEF RequestStep, Patches, Writes, Judges, DeployReads, DeployChecks,
    RollbackReads, DrainCancels
<1>5. CASE Fails
  BY <1>5 DEF Fails, Patches, Writes, Judges, TaskRaises, ContainerExits, DaemonCrashes,
    DaemonReexecs, VolatileLost
<1>6. CASE ProxyReconcile \/ UNCHANGED vars
  BY <1>6 DEF ProxyReconcile, vars
<1> QED
  BY <1>1, <1>2, <1>3, <1>4, <1>5, <1>6 DEF Next

HIDE DEF MarkerInv, Numbered, TickMarks, TaskMarks, BeforeSettle, MarkerTellsTheSide,
         Uncommitted, Matches, Armed, CancelAlone, Ownership, HeldIsKnown, TickOwns,
         TaskOwns, Known, Live, TaskInFlight, Kept, HasGreen, HasPromoted, MarkerOf

\* A patch keeps the generation and the status.
LEMMA PatchVerdict ==
  ASSUME NEW r \in Row
  PROVE  /\ \A v : MarkerPopped(r, v).bv = r.bv /\ MarkerPopped(r, v).status = r.status
         /\ \A k : MarkerArmed(r, k).bv = r.bv /\ MarkerArmed(r, k).status = r.status
  BY DEF Row, MarkerPopped, MarkerArmed

LEMMA StepKeepsCommitted ==
  ASSUME TypeOK, MarkerInv, [Next]_vars, Committed, dpc # "write"
  PROVE  row'.bv = row.bv /\ (row'.status = "failed" => row.status = "failed")
<1>1. row \in Row
  BY DEF TypeOK
<1>2. CASE Patches
  BY <1>1, <1>2, PatchVerdict DEF Patches, TickPop, TickMark, TaskNotReady, TaskDisarm,
    TaskPop, CancelPop
<1>3. CASE Writes
  BY <1>1, <1>3 DEF Writes, TickStopped, TickSchedule, TickAdopt, TickBacksOff, TickRecover, TickDegrades, TaskPromote, StopService, RestartDesires,
    RestartMarks, Row
<1>4. ~Judges
  BY DEF MarkerInv, TickMarks, TaskMarks, BeforeSettle, Committed, Uncommitted, Judges,
    TickSettle, TaskSettle, TickGivesUp, TickRefused, TickExits
<1>5. ~DeployWrites
  BY DEF DeployWrites
<1> QED
  BY <1>2, <1>3, <1>4, <1>5, OnlyTheseWrite

\* The two sides of the commit point, for every step.
THEOREM MarkerInvHolds ==
  ASSUME BootSettles, "drain" \notin Requests
  PROVE  Spec => []MarkerInv
<1>1. Init => MarkerInv
  BY InitMarker
<1>2. TypeOK /\ Ownership /\ DialInv /\ MarkerInv /\ [Next]_vars => MarkerInv'
  BY NextMarker DEF DialInv, DialHeld
<1> QED
  BY <1>1, <1>2, TypeCorrect, OwnershipHolds, DialInvHolds, PTL DEF Spec

\* What layer 4 tells the sides apart by: under an armed marker of its generation the
\* row names blue, or a labelled green of that very generation.
THEOREM MarkerTellsTheSideHolds ==
  ASSUME BootSettles, "drain" \notin Requests
  PROVE  Spec => []MarkerTellsTheSide
<1>1. MarkerInv => MarkerTellsTheSide
  BY DEF MarkerInv
<1> QED
  BY <1>1, MarkerInvHolds, PTL

\* A promoted generation is neither failed nor reverted: not by the task, not by the
\* tick that finds its marker after a crash, not by a cancel.
THEOREM CommitsAreFinal ==
  ASSUME BootSettles, "drain" \notin Requests
  PROVE  Spec => CommitIsFinal
<1>1. ASSUME TypeOK, MarkerInv, [Next]_vars
      PROVE  [Committed /\ dpc # "write"
                => row'.bv = row.bv /\ (row'.status = "failed" => row.status = "failed")]_vars
  BY <1>1, StepKeepsCommitted
<1> QED
  BY <1>1, TypeCorrect, MarkerInvHolds, PTL DEF Spec, CommitIsFinal

---------------------------------------------------------------------------
(* The pointer.                                                            *)

\* The pointer names the port that the row's container listens on, ...
Names == Live(row.cid) => LivePort = ctr[row.cid].port
\* ... or that port is the one on record in the marker.
OnRecord ==
  Live(row.cid) => ctr[row.cid].port =
                     IF row.marker.bport # NoPort THEN row.marker.bport ELSE ep.host

\* What is live, or about to be relaunched or swapped, has its reservation.
HostHeld ==
  /\ Live(row.cid) \/ TaskInFlight => ep.host # NoPort
  /\ tpc \in {"stamp", "arm", "mark", "spawn", "started", "adopt"} => ep.host # NoPort
  /\ tpc = "gate" /\ tk.live => ep.host # NoPort

TickPoints ==
  /\ tpc \in {"dead", "prepare", "schedule", "run", "started", "adopt", "policy", "count",
              "refused", "blame", "deregister", "release"} => ~Live(row.cid)
  /\ tpc \in {"started", "adopt"} => tk.new \in Containers /\ ctr[tk.new].port = ep.host
  /\ tpc = "adopt" => ep.active = NoPort
  /\ tpc = "mark" => tk.bport = ep.active
  /\ tpc \in {"spawn", "tail", "reap", "settle", "pop"} => Names

TaskPoints ==
  /\ vpc \in {"resolve", "run", "started", "probe", "drop", "settle", "pop"} => Names
  /\ vpc \in {"settle", "pop"} => OnRecord
  /\ HasGreen \/ HasPromoted => ctr[vt.green].port = vt.gport

\* A cancel acts on the row that it read.
CancelPoints ==
  /\ cpc \in {"destroy", "tail", "point", "pop"}
       => /\ cx.snap.marker = row.marker /\ cx.snap.cid = row.cid
          /\ Armed(row) => cx.snap.bv = row.bv
  /\ cpc \in {"read", "destroy"} /\ Armed(row) /\ row.cid \notin cx.greens => OnRecord
  /\ cpc = "point" => OnRecord
  /\ cpc \in {"tail", "pop"} => Names

\* Only between the arm and the commit point may the pointer stray, and then blue's
\* port is on record.
PointerInv ==
  /\ HostHeld /\ TickPoints /\ TaskPoints /\ CancelPoints
  /\ Names \/ Uncommitted(row)
  /\ Uncommitted(row) => OnRecord

USE DEF PointerInv, HostHeld, TickPoints, TaskPoints, CancelPoints, Names, OnRecord, LivePort,
        MarkerInv, TickMarks, TaskMarks, BeforeSettle, Uncommitted, Matches, Armed,
        CancelAlone, DialHeld, PortsApart, Reserved, Pointed, Ownership, HeldIsKnown,
        TickOwns, StopOwns, TaskOwns, Known, Live, TaskInFlight, Kept, HasGreen, HasPromoted,
        MarkerOf

LEMMA TickKeepsPointer ==
  ASSUME TypeOK, Ownership, DialHeld, MarkerInv, PointerInv, Kept, Tick
  PROVE  PointerInv'
<1>1. CASE TickFetch
  BY <1>1 DEF TypeOK, TickMemory, Row, MaybeCtr, TickFetch, NoTick, NoSnap
<1>2. CASE TickCancels
  <2> USE <1>2, ValueAssumption DEF TypeOK, Row, MaybeCtr, TickCancels, TickTo, CancelTask,
    TaskDone, NoCancel, NoTask, NoSnap, TaskPc
  <2>1. HostHeld'
    OBVIOUS
  <2>2. TickPoints'
    OBVIOUS
  <2>3. TaskPoints'
    OBVIOUS
  <2>4. CancelPoints'
    OBVIOUS
  <2>5. (Names \/ Uncommitted(row))' /\ (Uncommitted(row) => OnRecord)'
    OBVIOUS
  <2> QED
    BY <2>1, <2>2, <2>3, <2>4, <2>5
<1>3. CASE TickRereads
  BY <1>3 DEF TypeOK, TickMemory, Row, MaybeCtr, TickRereads, TickDone, NoTick, NoSnap
<1>4. CASE TickTeardown
  <2>1. ~Live(row.cid)'
    BY <1>4 DEF TypeOK, Row, MaybeCtr, TickTeardown, Destroy, Exists
  <2> QED
    BY <1>4, <2>1 DEF TypeOK, Row, MaybeCtr, TickTeardown, TickReleases
<1>5. CASE TickDeregister
  BY <1>5 DEF TypeOK, Row, MaybeCtr, TickDeregister, TickTo
<1>6. CASE TickRelease
  BY <1>6 DEF TypeOK, TickMemory, Row, MaybeCtr, TickRelease, TickTo, TickDone, NoTick,
    NoSnap
<1>7. CASE TickStopped
  BY <1>7 DEF TypeOK, Row, MaybeCtr, TickStopped, TickDone, NoTick, NoSnap
<1>8. CASE TickYields
  BY <1>8 DEF TypeOK, Row, MaybeCtr, TickYields, TickDone, NoTick, NoSnap
<1>9. CASE TickFindsMarker
  BY <1>9 DEF TypeOK, TickMemory, Row, MaybeCtr, TickFindsMarker, TickDone, GateOpen,
    NoTick, NoSnap
<1>10. CASE TickTail
  <2>1. row'.cid = row.cid /\ row'.bv = row.bv /\ row'.marker = row.marker
    BY <1>10, StatementKeepsMarker, PatchKeeps DEF TypeOK, TickTail
  <2>2. HostHeld'
    BY <1>10, <2>1 DEF TickTail, TickTo
  <2>3. TickPoints'
    BY <1>10, <2>1 DEF TickTail, TickTo
  <2>4. TaskPoints'
    BY <1>10, <2>1 DEF TickTail, TickTo
  <2>5. CancelPoints'
    BY <1>10, <2>1 DEF TickTail, TickTo
  <2>6. (Names \/ Uncommitted(row))' /\ (Uncommitted(row) => OnRecord)'
    BY <1>10, <2>1 DEF TickTail, TickTo
  <2> QED
    BY <2>2, <2>3, <2>4, <2>5, <2>6
<1>11. CASE TickRestore
  BY <1>11, ValueAssumption DEF TypeOK, Row, MaybeCtr, TickRestore, TickTo, SetActive
<1>12. CASE TickReap
  BY <1>12 DEF TypeOK, Row, MaybeCtr, TickReap, TickTo
<1>13. CASE TickSettle
  <2>1. row'.cid = row.cid /\ row'.marker = row.marker
    BY <1>13, StatementKeepsMarker DEF TypeOK, TickSettle
  <2> USE <1>13, <2>1 DEF TypeOK, Row, MaybeCtr, TickSettle, TickTo
  <2>2. HostHeld'
    OBVIOUS
  <2>3. TickPoints'
    OBVIOUS
  <2>4. TaskPoints'
    OBVIOUS
  <2>5. CancelPoints'
    OBVIOUS
  <2>6. (Names \/ Uncommitted(row))' /\ (Uncommitted(row) => OnRecord)'
    OBVIOUS
  <2> QED
    BY <2>2, <2>3, <2>4, <2>5, <2>6
<1>14. CASE TickPop
  <2>1. /\ row'.cid = row.cid /\ row'.bv = row.bv /\ row'.marker \in {row.marker, NoMarker}
        /\ row.marker.ver = tk.snap.marker.ver => ~Armed(row)'
    BY <1>14, StatementKeepsMarker, PatchKeeps DEF TypeOK, TickPop
  <2>2. HostHeld'
    BY <1>14, <2>1 DEF TickPop, TickDone, NoMarker, NoTick, NoSnap
  <2>3. TickPoints'
    BY <1>14, <2>1 DEF TickPop, TickDone, NoMarker, NoTick, NoSnap
  <2>4. TaskPoints'
    BY <1>14, <2>1 DEF TickPop, TickDone, NoMarker, NoTick, NoSnap
  <2>5. CancelPoints'
    BY <1>14, <2>1 DEF TickPop, TickDone, NoMarker, NoTick, NoSnap
  <2>6. (Names \/ Uncommitted(row))' /\ (Uncommitted(row) => OnRecord)'
    <3>1. Names /\ Names'
      BY <1>14, <2>1 DEF TickPop
    <3>2. Uncommitted(row)' => Uncommitted(row) /\ row'.marker = row.marker
      BY <2>1 DEF NoMarker
    <3> QED
      BY <1>14, <2>1, <3>1, <3>2 DEF TickPop
  <2> QED
    BY <2>2, <2>3, <2>4, <2>5, <2>6
<1>15. CASE TickGate
  BY <1>15 DEF TypeOK, Row, MaybeCtr, TickGate, TickTo, GateOpen
<1>16. CASE TickIneligible
  BY <1>16 DEF TypeOK, Row, MaybeCtr, TickIneligible, TickTo, GateOpen
<1>17. CASE TickStampVerifying
  <2>1. row'.cid = row.cid /\ row'.bv = row.bv /\ row'.marker = row.marker
    BY <1>17, StatementKeepsMarker, PatchKeeps DEF TypeOK, TickStampVerifying
  <2>2. HostHeld'
    BY <1>17, <2>1 DEF TickStampVerifying, TickTo
  <2>3. TickPoints'
    BY <1>17, <2>1 DEF TickStampVerifying, TickTo
  <2>4. TaskPoints'
    BY <1>17, <2>1 DEF TickStampVerifying, TickTo
  <2>5. CancelPoints'
    BY <1>17, <2>1 DEF TickStampVerifying, TickTo
  <2>6. (Names \/ Uncommitted(row))' /\ (Uncommitted(row) => OnRecord)'
    BY <1>17, <2>1 DEF TickStampVerifying, TickTo
  <2> QED
    BY <2>2, <2>3, <2>4, <2>5, <2>6
<1>18. CASE TickArm
  BY <1>18 DEF TypeOK, TickMemory, Row, MaybeCtr, TickArm, TickTo
<1>19. CASE TickMark
  BY <1>19, StatementKeepsMarker, PatchKeeps, SettleKeeps DEF TypeOK, TickMemory,
    MarkerArmed, Row, MaybeCtr, TickMark, TickTo
<1>20. CASE TickSpawn
  BY <1>20 DEF TypeOK, Row, MaybeCtr, TickSpawn, TickDone, NoTask, NoTick, NoSnap
<1>21. CASE TickSwap
  <2>1. ~Live(row.cid)'
    BY <1>21 DEF TypeOK, Row, MaybeCtr, TickSwap, Destroy, Exists
  <2> QED
    BY <1>21, <2>1 DEF TypeOK, Row, MaybeCtr, TickSwap, TickTo
<1>22. CASE TickWaits
  BY <1>22 DEF TypeOK, Row, MaybeCtr, TickWaits, TickDone, NoTick, NoSnap
<1>23. CASE TickAcquire
  BY <1>23, ValueAssumption DEF TypeOK, Row, MaybeCtr, TickAcquire, TickTo
<1>24. CASE TickRefuses
  BY <1>24 DEF TypeOK, Row, MaybeCtr, TickRefuses, TickReleases
<1>25. CASE TickRefused
  BY <1>25 DEF TypeOK, Row, MaybeCtr, TickRefused, TickTo
<1>26. CASE TickBlames
  BY <1>26 DEF TypeOK, Row, MaybeCtr, TickBlames, TickDone, NoTick, NoSnap
<1>27. CASE TickStampLaunching
  <2>1. row'.cid = row.cid /\ row'.bv = row.bv /\ row'.marker = row.marker
    BY <1>27, StatementKeepsMarker, PatchKeeps DEF TypeOK, TickStampLaunching
  <2>2. HostHeld'
    BY <1>27, <2>1 DEF TickStampLaunching, TickTo
  <2>3. TickPoints'
    BY <1>27, <2>1 DEF TickStampLaunching, TickTo
  <2>4. TaskPoints'
    BY <1>27, <2>1 DEF TickStampLaunching, TickTo
  <2>5. CancelPoints'
    BY <1>27, <2>1 DEF TickStampLaunching, TickTo
  <2>6. (Names \/ Uncommitted(row))' /\ (Uncommitted(row) => OnRecord)'
    BY <1>27, <2>1 DEF TickStampLaunching, TickTo
  <2> QED
    BY <2>2, <2>3, <2>4, <2>5, <2>6
<1>28. CASE TickSchedule
  BY <1>28 DEF TypeOK, Row, MaybeCtr, TickSchedule, TickTo
<1>29. CASE TickRun
  <2>1. PICK c \in Containers :
          /\ ctr[c].st = "none" /\ Started(c, tk.snap.bv, ep.host, FALSE)
          /\ tpc' = "started" /\ tk' = [tk EXCEPT !.new = c]
    BY <1>29 DEF TickRun
  <2>2. tk'.new = c /\ ctr'[c].port = ep.host
    BY <2>1 DEF Started, TypeOK, TickMemory
  <2> USE <1>29, <2>1, <2>2 DEF TypeOK, Row, MaybeCtr, TickRun, LaunchReserved
  <2>3. HostHeld'
    OBVIOUS
  <2>4. TickPoints'
    OBVIOUS
  <2>5. TaskPoints'
    OBVIOUS
  <2>6. CancelPoints'
    OBVIOUS
  <2>7. (Names \/ Uncommitted(row))' /\ (Uncommitted(row) => OnRecord)'
    OBVIOUS
  <2> QED
    BY <2>3, <2>4, <2>5, <2>6, <2>7
<1>30. CASE TickRunFails
  BY <1>30 DEF TypeOK, Row, MaybeCtr, TickRunFails, TickTo
<1>31. CASE TickClearPointer
  BY <1>31 DEF TypeOK, Row, MaybeCtr, TickClearPointer, TickTo, SetActive
<1>32. CASE TickAdopt
  BY <1>32, ValueAssumption DEF TypeOK, Row, MaybeCtr, TickAdopt, TickTo
<1>33. CASE TickRegister
  BY <1>33 DEF TypeOK, Row, MaybeCtr, TickRegister, TickDone, NoTick, NoSnap
<1>34. CASE TickCrash
  BY <1>34 DEF TypeOK, Row, MaybeCtr, TickCrash, TickTo
<1>35. CASE TickExits
  BY <1>35 DEF TypeOK, Row, MaybeCtr, TickExits, TickReleases
<1>36. CASE TickBacksOff
  BY <1>36 DEF TypeOK, Row, MaybeCtr, TickBacksOff, TickDone, NoTick, NoSnap
<1>37. CASE TickGivesUp
  <2>1. row'.cid = row.cid /\ row'.bv = row.bv /\ row'.marker = row.marker
    BY <1>37, StatementKeepsMarker, PatchKeeps DEF TypeOK, TickGivesUp
  <2>2. HostHeld'
    BY <1>37, <2>1 DEF TickGivesUp, TickReleases
  <2>3. TickPoints'
    BY <1>37, <2>1 DEF TickGivesUp, TickReleases
  <2>4. TaskPoints'
    BY <1>37, <2>1 DEF TickGivesUp, TickReleases
  <2>5. CancelPoints'
    BY <1>37, <2>1 DEF TickGivesUp, TickReleases
  <2>6. (Names \/ Uncommitted(row))' /\ (Uncommitted(row) => OnRecord)'
    BY <1>37, <2>1 DEF TickGivesUp, TickReleases
  <2> QED
    BY <2>2, <2>3, <2>4, <2>5, <2>6
<1>38. CASE TickDefers
  BY <1>38 DEF TypeOK, Row, MaybeCtr, TickDefers, TickDone, NoTick, NoSnap
<1>39. CASE TickStampHealthy
  <2>1. row'.cid = row.cid /\ row'.bv = row.bv /\ row'.marker = row.marker
    BY <1>39, StatementKeepsMarker, PatchKeeps DEF TypeOK, TickStampHealthy
  <2>2. HostHeld'
    BY <1>39, <2>1 DEF TickStampHealthy, TickTo
  <2>3. TickPoints'
    BY <1>39, <2>1 DEF TickStampHealthy, TickTo
  <2>4. TaskPoints'
    BY <1>39, <2>1 DEF TickStampHealthy, TickTo
  <2>5. CancelPoints'
    BY <1>39, <2>1 DEF TickStampHealthy, TickTo
  <2>6. (Names \/ Uncommitted(row))' /\ (Uncommitted(row) => OnRecord)'
    BY <1>39, <2>1 DEF TickStampHealthy, TickTo
  <2> QED
    BY <2>2, <2>3, <2>4, <2>5, <2>6
<1>40. CASE TickRecover
  BY <1>40 DEF TypeOK, Row, MaybeCtr, TickRecover, TickDone, NoTick, NoSnap
<1>41. CASE TickDegrades
  BY <1>41 DEF TypeOK, Row, MaybeCtr, TickDegrades, TickDone, NoTick, NoSnap
<1> QED
  BY <1>1, <1>2, <1>3, <1>4, <1>5, <1>6, <1>7, <1>8, <1>9, <1>10, <1>11, <1>12,
    <1>13, <1>14, <1>15, <1>16, <1>17, <1>18, <1>19, <1>20, <1>21, <1>22, <1>23, <1>24,
    <1>25, <1>26, <1>27, <1>28, <1>29, <1>30, <1>31, <1>32, <1>33, <1>34, <1>35, <1>36,
    <1>37, <1>38, <1>39, <1>40, <1>41 DEF Tick

LEMMA TaskKeepsPointer ==
  ASSUME TypeOK, Ownership, DialHeld, MarkerInv, PointerInv, Kept, Task
  PROVE  PointerInv'
<1>1. CASE TaskNotReady
  <2>1. /\ row'.cid = row.cid /\ row'.bv = row.bv /\ row'.marker \in {row.marker, NoMarker}
        /\ row.marker.ver = vt.ver => ~Armed(row)'
    BY <1>1, StatementKeepsMarker, PatchKeeps DEF TypeOK, TaskNotReady
  <2>2. HostHeld'
    BY <1>1, <2>1 DEF NoMarker, TaskNotReady, TaskTo
  <2>3. TickPoints'
    BY <1>1, <2>1 DEF NoMarker, TaskNotReady, TaskTo
  <2>4. TaskPoints'
    BY <1>1, <2>1 DEF NoMarker, TaskNotReady, TaskTo
  <2>5. CancelPoints'
    BY <1>1, <2>1 DEF NoMarker, TaskNotReady, TaskTo
  <2>6. (Names \/ Uncommitted(row))' /\ (Uncommitted(row) => OnRecord)'
    BY <1>1, <2>1 DEF NoMarker, TaskNotReady, TaskTo
  <2> QED
    BY <2>2, <2>3, <2>4, <2>5, <2>6
<1>2. CASE TaskRegress
  <2>1. row'.cid = row.cid /\ row'.bv = row.bv /\ row'.marker = row.marker
    BY <1>2, StatementKeepsMarker, PatchKeeps DEF TypeOK, TaskRegress
  <2>2. HostHeld'
    BY <1>2, <2>1 DEF TaskRegress, TaskDone, NoTask
  <2>3. TickPoints'
    BY <1>2, <2>1 DEF TaskRegress, TaskDone, NoTask
  <2>4. TaskPoints'
    BY <1>2, <2>1 DEF TaskRegress, TaskDone, NoTask
  <2>5. CancelPoints'
    BY <1>2, <2>1 DEF TaskRegress, TaskDone, NoTask
  <2>6. (Names \/ Uncommitted(row))' /\ (Uncommitted(row) => OnRecord)'
    BY <1>2, <2>1 DEF TaskRegress, TaskDone, NoTask
  <2> QED
    BY <2>2, <2>3, <2>4, <2>5, <2>6
<1>3. CASE TaskReserve
  BY <1>3 DEF TypeOK, TaskMemory, Row, MaybeCtr, TaskReserve
<1>4. CASE TaskRefused
  BY <1>4 DEF TypeOK, Row, MaybeCtr, TaskRefused, TaskTo
<1>5. CASE TaskRun
  BY <1>5 DEF TypeOK, Row, MaybeCtr, TaskRun, Started
<1>6. CASE TaskBind
  BY <1>6 DEF TypeOK, Row, MaybeCtr, TaskBind
<1>7. CASE TaskVerified
  BY <1>7 DEF TypeOK, Row, MaybeCtr, TaskVerified, TaskTo
<1>8. CASE TaskUnverified
  BY <1>8 DEF TypeOK, Row, MaybeCtr, TaskUnverified
<1>9. CASE TaskPoint
  BY <1>9, ValueAssumption DEF TypeOK, Row, MaybeCtr, TaskPoint, TaskTo, SetActive
<1>10. CASE TaskRepoint
  BY <1>10 DEF TypeOK, Row, MaybeCtr, TaskRepoint, TaskTo
<1>11. CASE TaskSeesDial
  BY <1>11 DEF TypeOK, Row, MaybeCtr, TaskSeesDial, TaskTo
<1>12. CASE TaskTimesOut
  BY <1>12 DEF TypeOK, Row, MaybeCtr, TaskTimesOut, TaskTo
<1>13. CASE TaskCheck
  BY <1>13 DEF TypeOK, Row, MaybeCtr, TaskCheck, TaskTo
<1>14. CASE TaskPromote
  BY <1>14, ValueAssumption DEF TypeOK, Row, MaybeCtr, TaskPromote, TaskTo
<1>15. CASE TaskTail
  <2>1. row'.cid = row.cid /\ row'.bv = row.bv /\ row'.marker = row.marker
    BY <1>15, StatementKeepsMarker, PatchKeeps DEF TypeOK, TaskTail
  <2>2. HostHeld'
    BY <1>15, <2>1 DEF TaskTail, TaskTo
  <2>3. TickPoints'
    BY <1>15, <2>1 DEF TaskTail, TaskTo
  <2>4. TaskPoints'
    BY <1>15, <2>1 DEF TaskTail, TaskTo
  <2>5. CancelPoints'
    BY <1>15, <2>1 DEF TaskTail, TaskTo
  <2>6. (Names \/ Uncommitted(row))' /\ (Uncommitted(row) => OnRecord)'
    BY <1>15, <2>1 DEF TaskTail, TaskTo
  <2> QED
    BY <2>2, <2>3, <2>4, <2>5, <2>6
<1>16. CASE TaskDisarm
  <2>1. /\ row'.cid = row.cid /\ row'.bv = row.bv /\ row'.marker \in {row.marker, NoMarker}
        /\ row.marker.ver = vt.ver => ~Armed(row)'
    BY <1>16, StatementKeepsMarker, PatchKeeps DEF TypeOK, TaskDisarm
  <2>2. HostHeld'
    BY <1>16, <2>1 DEF NoMarker, TaskDisarm, TaskTo
  <2>3. TickPoints'
    BY <1>16, <2>1 DEF NoMarker, TaskDisarm, TaskTo
  <2>4. TaskPoints'
    BY <1>16, <2>1 DEF NoMarker, TaskDisarm, TaskTo
  <2>5. CancelPoints'
    BY <1>16, <2>1 DEF NoMarker, TaskDisarm, TaskTo
  <2>6. (Names \/ Uncommitted(row))' /\ (Uncommitted(row) => OnRecord)'
    BY <1>16, <2>1 DEF NoMarker, TaskDisarm, TaskTo
  <2> QED
    BY <2>2, <2>3, <2>4, <2>5, <2>6
<1>17. CASE TaskRetire
  BY <1>17 DEF TypeOK, Row, MaybeCtr, TaskRetire, TaskDone, NoTask
<1>18. CASE TaskUndo
  BY <1>18, ValueAssumption DEF TypeOK, Row, MaybeCtr, TaskUndo, TaskTo, SetActive
<1>19. CASE TaskDrop
  BY <1>19 DEF TypeOK, Row, MaybeCtr, TaskDrop
<1>20. CASE TaskSettle
  <2>1. /\ row'.cid = row.cid /\ row'.marker = row.marker /\ (row.bv # 0 => row'.bv # 0)
        /\ row.bv # vt.ver => row' = row
    BY <1>20, StatementKeepsMarker, PatchKeeps DEF TypeOK, TaskSettle
  <2>2. HostHeld'
    BY <1>20, <2>1 DEF TaskSettle, TaskTo
  <2>3. TickPoints'
    BY <1>20, <2>1 DEF TaskSettle, TaskTo
  <2>4. TaskPoints'
    BY <1>20, <2>1 DEF TaskSettle, TaskTo
  <2>5. CancelPoints'
    BY <1>20, <2>1 DEF TaskSettle, TaskTo
  <2>6. (Names \/ Uncommitted(row))' /\ (Uncommitted(row) => OnRecord)'
    BY <1>20, <2>1 DEF TaskSettle, TaskTo
  <2> QED
    BY <2>2, <2>3, <2>4, <2>5, <2>6
<1>21. CASE TaskPop
  <2>1. /\ row'.cid = row.cid /\ row'.bv = row.bv /\ row'.marker \in {row.marker, NoMarker}
        /\ row.marker.ver = vt.ver => ~Armed(row)'
    BY <1>21, StatementKeepsMarker, PatchKeeps DEF TypeOK, TaskPop
  <2>2. HostHeld'
    BY <1>21, <2>1 DEF NoMarker, TaskPop, TaskDone, NoTask
  <2>3. TickPoints'
    BY <1>21, <2>1 DEF NoMarker, TaskPop, TaskDone, NoTask
  <2>4. TaskPoints'
    BY <1>21, <2>1 DEF NoMarker, TaskPop, TaskDone, NoTask
  <2>5. CancelPoints'
    BY <1>21, <2>1 DEF NoMarker, TaskPop, TaskDone, NoTask
  <2>6. (Names \/ Uncommitted(row))' /\ (Uncommitted(row) => OnRecord)'
    BY <1>21, <2>1 DEF NoMarker, TaskPop, TaskDone, NoTask
  <2> QED
    BY <2>2, <2>3, <2>4, <2>5, <2>6
<1> QED
  BY <1>1, <1>2, <1>3, <1>4, <1>5, <1>6, <1>7, <1>8, <1>9, <1>10, <1>11, <1>12,
    <1>13, <1>14, <1>15, <1>16, <1>17, <1>18, <1>19, <1>20, <1>21 DEF Task

LEMMA CancelKeepsPointer ==
  ASSUME TypeOK, Ownership, DialHeld, MarkerInv, PointerInv, Kept, Cancel
  PROVE  PointerInv'
<1>1. CASE CancelRead
  <2>1. cx'.snap = row /\ cx'.greens = cx.greens /\ cx.greens \subseteq Containers
    BY <1>1 DEF TypeOK, CancelMemory, CancelRead
  <2> USE <1>1, <2>1, ValueAssumption DEF TypeOK, Row, MaybeCtr, CancelRead, AfterGreens
  <2>2. HostHeld'
    OBVIOUS
  <2>3. TickPoints'
    OBVIOUS
  <2>4. TaskPoints'
    OBVIOUS
  <2>5. CancelPoints'
    OBVIOUS
  <2>6. (Names \/ Uncommitted(row))' /\ (Uncommitted(row) => OnRecord)'
    OBVIOUS
  <2> QED
    BY <2>2, <2>3, <2>4, <2>5, <2>6
<1>2. CASE CancelDestroy
  <2>1. cx.greens \subseteq Containers
    BY DEF TypeOK, CancelMemory
  <2> USE <1>2, <2>1, ValueAssumption DEF TypeOK, Row, MaybeCtr, CancelDestroy, CancelTo,
    AfterGreens
  <2>2. HostHeld'
    OBVIOUS
  <2>3. TickPoints'
    OBVIOUS
  <2>4. TaskPoints'
    OBVIOUS
  <2>5. CancelPoints'
    OBVIOUS
  <2>6. (Names \/ Uncommitted(row))' /\ (Uncommitted(row) => OnRecord)'
    OBVIOUS
  <2> QED
    BY <2>2, <2>3, <2>4, <2>5, <2>6
<1>3. CASE CancelTail
  <2>1. row'.cid = row.cid /\ row'.bv = row.bv /\ row'.marker = row.marker
    BY <1>3, StatementKeepsMarker, PatchKeeps DEF TypeOK, CancelTail
  <2>2. HostHeld'
    BY <1>3, <2>1 DEF CancelTail, CancelTo
  <2>3. TickPoints'
    BY <1>3, <2>1 DEF CancelTail, CancelTo
  <2>4. TaskPoints'
    BY <1>3, <2>1 DEF CancelTail, CancelTo
  <2>5. CancelPoints'
    BY <1>3, <2>1 DEF CancelTail, CancelTo
  <2>6. (Names \/ Uncommitted(row))' /\ (Uncommitted(row) => OnRecord)'
    BY <1>3, <2>1 DEF CancelTail, CancelTo
  <2> QED
    BY <2>2, <2>3, <2>4, <2>5, <2>6
<1>4. CASE CancelPoint
  BY <1>4, ValueAssumption DEF TypeOK, Row, MaybeCtr, CancelPoint, CancelTo, SetActive
<1>5. CASE CancelPop
  <2>1. /\ row'.cid = row.cid /\ row'.bv = row.bv /\ row'.marker \in {row.marker, NoMarker}
        /\ row.marker.ver = cx.snap.marker.ver => ~Armed(row)'
    BY <1>5, StatementKeepsMarker, PatchKeeps DEF TypeOK, CancelPop
  <2>2. HostHeld'
    BY <1>5, <2>1 DEF CancelPop, CancelTo, NoMarker
  <2>3. TickPoints'
    BY <1>5, <2>1 DEF CancelPop, CancelTo, NoMarker
  <2>4. TaskPoints'
    BY <1>5, <2>1 DEF CancelPop, CancelTo, NoMarker
  <2>5. CancelPoints'
    BY <1>5, <2>1 DEF CancelPop, CancelTo, NoMarker
  <2>6. (Names \/ Uncommitted(row))' /\ (Uncommitted(row) => OnRecord)'
    BY <1>5, <2>1, SMTT(40) DEF CancelPop, CancelTo, NoMarker
  <2> QED
    BY <2>2, <2>3, <2>4, <2>5, <2>6
<1>6. CASE CancelEnd
  BY <1>6 DEF TypeOK, Row, MaybeCtr, CancelEnd, CancelDone, NoCancel, NoSnap
<1>7. CASE CancelKill
  BY <1>7 DEF TypeOK, Row, MaybeCtr, CancelKill, CancelDone, NoCancel, NoSnap
<1> QED
  BY <1>1, <1>2, <1>3, <1>4, <1>5, <1>6, <1>7 DEF Cancel

LEMMA SweepKeepsPointer ==
  ASSUME TypeOK, Ownership, DialHeld, MarkerInv, PointerInv, Kept, Sweep
  PROVE  PointerInv'
<1>1. CASE SweepHook
  BY <1>1 DEF TypeOK, Row, MaybeCtr, SweepHook
<1>2. CASE SweepRows
  BY <1>2 DEF TypeOK, Row, MaybeCtr, SweepRows
<1>3. CASE SweepKill
  <2> USE <1>3 DEF TypeOK, Row, MaybeCtr, SweepKill
  <2>1. HostHeld'
    OBVIOUS
  <2>2. TickPoints'
    OBVIOUS
  <2>3. TaskPoints'
    OBVIOUS
  <2>4. CancelPoints'
    OBVIOUS
  <2>5. (Names \/ Uncommitted(row))' /\ (Uncommitted(row) => OnRecord)'
    OBVIOUS
  <2> QED
    BY <2>1, <2>2, <2>3, <2>4, <2>5
<1> QED
  BY <1>1, <1>2, <1>3 DEF Sweep

LEMMA RequestStepKeepsPointer ==
  ASSUME TypeOK, Ownership, DialHeld, MarkerInv, PointerInv, Kept, RequestStep, BootSettles,
         "drain" \notin Requests
  PROVE  PointerInv'
<1>1. CASE StopService
  BY <1>1 DEF TypeOK, Row, MaybeCtr, StopService, Request
<1>2. CASE RestartDesires
  BY <1>2 DEF TypeOK, Row, MaybeCtr, RestartDesires, Request
<1>3. CASE RestartMarks
  BY <1>3 DEF TypeOK, Row, MaybeCtr, RestartMarks
<1>4. CASE DeployReads
  BY <1>4 DEF TypeOK, Row, MaybeCtr, DeployReads, Request, ReadFor
<1>5. CASE DeployChecks
  BY <1>5 DEF TypeOK, Row, MaybeCtr, DeployChecks, NoRequest
<1>6. CASE RollbackReads
  BY <1>6 DEF TypeOK, Row, MaybeCtr, RollbackReads, Request, ReadFor
<1>7. CASE DeployWrites
  <2>1. CASE row' = row
    <3>1. HostHeld'
      BY <1>7, <2>1 DEF DeployWrites
    <3>2. TickPoints'
      BY <1>7, <2>1 DEF DeployWrites
    <3>3. TaskPoints'
      BY <1>7, <2>1 DEF DeployWrites
    <3>4. CancelPoints'
      BY <1>7, <2>1 DEF DeployWrites
    <3>5. (Names \/ Uncommitted(row))' /\ (Uncommitted(row) => OnRecord)'
      BY <1>7, <2>1 DEF DeployWrites
    <3> QED
      BY <3>1, <3>2, <3>3, <3>4, <3>5
  <2>2. CASE row' # row
    <3>1. DeployAllowed(row, dq) /\ ~dq.marked
      BY <1>7, <2>2 DEF DeployWrites
    <3>2. ~Armed(row) /\ ~Armed(row)' /\ row'.cid = row.cid /\ row'.marker = row.marker
      BY <1>7, <2>2, <3>1 DEF DeployWrites, DeployAllowed, Redeployed, TypeOK, Row,
        NoMarker, Numbered
    <3>3. HostHeld'
      BY <1>7, <3>2 DEF DeployWrites
    <3>4. TickPoints'
      BY <1>7, <3>2 DEF DeployWrites
    <3>5. TaskPoints'
      BY <1>7, <3>2 DEF DeployWrites
    <3>6. CancelPoints'
      BY <1>7, <3>2 DEF DeployWrites
    <3>7. (Names \/ Uncommitted(row))' /\ (Uncommitted(row) => OnRecord)'
      BY <1>7, <3>2 DEF DeployWrites
    <3> QED
      BY <3>3, <3>4, <3>5, <3>6, <3>7
  <2> QED
    BY <2>1, <2>2
<1>8. CASE DrainCancels
  BY <1>8 DEF TypeOK, Row, MaybeCtr, DrainCancels, CancelTask, Request, TaskDone, NoCancel,
    NoTask, NoSnap
<1> QED
  BY <1>1, <1>2, <1>3, <1>4, <1>5, <1>6, <1>7, <1>8 DEF RequestStep

LEMMA FailsKeepsPointer ==
  ASSUME TypeOK, Ownership, DialHeld, MarkerInv, PointerInv, Kept, Fails
  PROVE  PointerInv'
<1>1. CASE TaskRaises
  BY <1>1 DEF TypeOK, Row, MaybeCtr, TaskRaises, TaskDone, NoTask
<1>2. CASE ContainerExits
  BY <1>2 DEF TypeOK, Row, MaybeCtr, ContainerExits, Fault
<1>3. CASE DaemonCrashes
  BY <1>3 DEF TypeOK, Row, MaybeCtr, DaemonCrashes, VolatileLost, Fault, TickDone, TaskDone,
    CancelDone, NoRequest, NoTick, NoTask, NoCancel, NoSnap
<1>4. CASE DaemonReexecs
  BY <1>4 DEF TypeOK, Row, MaybeCtr, DaemonReexecs, VolatileLost, TickDone, TaskDone,
    CancelDone, NoRequest, NoTick, NoTask, NoCancel, NoSnap
<1> QED
  BY <1>1, <1>2, <1>3, <1>4 DEF Fails
LEMMA NextPointer ==
  ASSUME BootSettles, "drain" \notin Requests, TypeOK, Ownership, DialInv, MarkerInv,
         PointerInv, [Next]_vars
  PROVE  PointerInv'
<1>1. Kept /\ DialHeld
  BY StepKeeps DEF DialInv
<1>2. CASE ProxyReconcile
  BY <1>2 DEF ProxyReconcile
<1>3. CASE UNCHANGED vars
  BY <1>3 DEF vars
<1> QED
  BY <1>1, <1>2, <1>3, TickKeepsPointer, TaskKeepsPointer, CancelKeepsPointer,
    SweepKeepsPointer, RequestStepKeepsPointer, FailsKeepsPointer
  DEF Next

LEMMA InitPointer == ASSUME Init PROVE PointerInv
  BY ValueAssumption DEF Init, NoMarker

HIDE DEF PointerInv, HostHeld, TickPoints, TaskPoints, CancelPoints, Names, OnRecord, LivePort,
         MarkerInv, TickMarks, TaskMarks, BeforeSettle, Uncommitted, Matches, Armed,
         CancelAlone, DialHeld, PortsApart, Reserved, Pointed, Ownership, HeldIsKnown,
         TickOwns, StopOwns, TaskOwns, Known, Live, TaskInFlight, Kept, HasGreen,
         HasPromoted, MarkerOf

\* The pointer strays only before the commit point, with blue's port on record.
THEOREM PointerInvHolds ==
  ASSUME BootSettles, "drain" \notin Requests
  PROVE  Spec => []PointerInv
<1>1. Init => PointerInv
  BY InitPointer
<1>2. TypeOK /\ Ownership /\ DialInv /\ MarkerInv /\ PointerInv /\ [Next]_vars => PointerInv'
  BY NextPointer
<1> QED
  BY <1>1, <1>2, TypeCorrect, OwnershipHolds, DialInvHolds, MarkerInvHolds, PTL DEF Spec

\* When nothing acts on the row and no marker waits to be settled, what the proxy and
\* the probes dial is the port that the row's live container listens on.
THEOREM PointerNamesServingHolds ==
  ASSUME BootSettles, "drain" \notin Requests
  PROVE  Spec => []PointerNamesServing
<1>1. PointerInv => PointerNamesServing
  BY DEF PointerInv, PointerNamesServing, Names, Uncommitted, Matches, Quiet
<1> QED
  BY <1>1, PointerInvHolds, PTL
=============================================================================
