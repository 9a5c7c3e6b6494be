------------------------- MODULE ReleaseGate_proofs -------------------------
(***************************************************************************)
(* What TLAPS proves of ReleaseGate, for any number of requests, faults    *)
(* and generations, any kinds of request, any tags and lost images: a      *)
(* release runs at most once, stays on record until it has succeeded and   *)
(* holds the launch until then, and a superseded task keeps off the newer  *)
(* generation.  What each says nothing of is in its definition.  No        *)
(* theorem assumes anything of the constants beyond BoundAssumption.       *)
(***************************************************************************)
EXTENDS ReleaseGate, TLAPS

---------------------------------------------------------------------------
(* The inductive invariant.                                                *)

\* What ReleaseOnce says nothing of, and what may still be released under it.
Excused(v) == v \in rolled \cup lost
Fresh(v) == runs[v] = 0 \/ Excused(v)

\* What every row is, whoever read it and when.
Shape(r) ==
  /\ r.bv \in 1 .. r.maxv /\ r.prev \in 0 .. r.maxv
  /\ r.own => r.bv = r.maxv /\ r.ctx = r.bv
  /\ ~r.own => r.ctx = 0 \/ r.bv \in rolled

\* A generation that was not deployed yet has released nothing.
FutureOK ==
  /\ Shape(row)
  /\ \A v \in Versions : v > row.maxv => runs[v] = 0

\* What was released is there, and nobody takes it for a build that never ran.
ReadyOK == row.own /\ ~Fresh(row.bv) => row.bv \in images /\ ~BuildNeverRan(row)

\* A task's stamp is never `queued', and a tick's is only where nothing was released.
StampOK ==
  /\ bst.ver # 0 => bst.phase # "queued" /\ ~bst.match /\ bpc \in {"building", "clean"}
  /\ tst.ver # 0 /\ tst.phase = "queued" /\ row.own => Fresh(row.bv)

\* While a task is in flight, its generation is the only one that may have been released
\* and not be superseded.
Unreleased == {"waiting", "building", "tagged", "claimed", "armed"}
TaskOK ==
  bpc # "none" =>
    /\ tpc \in {"idle", "gate"} /\ tst.ver = 0
    /\ bt.ver \in 1 .. row.maxv
    /\ bt.ver \notin rolled => bt.ctx = bt.ver
    /\ row.own /\ row.bv # bt.ver => runs[row.bv] = 0
    /\ bpc \in Unreleased => Fresh(bt.ver)
    /\ bpc \in {"tagged", "claimed", "armed"} => Excused(bt.ver) \/ bt.ver \in images
    /\ bpc # "waiting" /\ bst.ver = 0 /\ row.own /\ row.bv = bt.ver => ~BuildNeverRan(row)
    /\ bpc = "armed" /\ row.own /\ row.bv = bt.ver => row.pending = row.bv
    /\ bpc = "released" => bt.ver \in released
    /\ bpc = "reclaim" /\ row.own => row.bv # bt.ver

\* What the tick may still do with its snapshot.
SnapOK ==
  /\ Shape(tk.snap) /\ tk.snap.maxv <= row.maxv
  /\ row.own /\ row.maxv = tk.snap.maxv => tk.snap.own
  /\ \A v \in Versions : v > tk.snap.maxv => runs[v] = 0
  /\ bpc # "none" => bt.ver <= tk.snap.maxv
GateOK ==
  /\ bpc # "none" /\ tk.snap.own /\ bt.ver # tk.snap.bv => runs[tk.snap.bv] = 0
  /\ bpc = "none" /\ tk.snap.own /\ NeedsBuild(tk.snap) /\ tk.snap.bv \in contexts
       => Fresh(tk.snap.bv)
  /\ bpc = "none" /\ ~tk.aged /\ tk.snap.own /\ runs[tk.snap.bv] > 0
       => tk.snap.bv \in released \/ tk.snap.pending = tk.snap.bv
TickOK ==
  tpc # "idle" =>
    /\ SnapOK
    /\ tpc = "gate" => GateOK
    /\ tpc \in {"build", "spawn"} => tk.snap.ctx # 0
    /\ tpc = "build" /\ tk.snap.own /\ tk.snap.ctx \in contexts => Fresh(tk.snap.bv)
    /\ tpc = "spawn" => Fresh(tk.snap.bv)
    /\ tpc \in {"launch", "schedule", "run", "adopt"} /\ ~tk.aged /\ tk.snap.own
         /\ runs[tk.snap.bv] > 0
         => tk.snap.bv \in released

\* A request holds a generation and a rollback target that were there.
RequestOK ==
  dpc # "idle" =>
    /\ dq.bv \in 1 .. dq.maxv /\ dq.prev \in 0 .. dq.maxv
    /\ dpc = "deploy" => dq.maxv < MaxVersion
    /\ dpc = "rollback" => dq.prev # 0

GateInv ==
  /\ TypeOK /\ FutureOK /\ ReadyOK /\ StampOK /\ TaskOK /\ TickOK /\ RequestOK
  /\ ReleaseOnce /\ ReleaseOnRecord

USE DEF persistent, tickVars, taskVars, requestVars, history, OtherVars, ButTick, ButTask,
  ButRequest

---------------------------------------------------------------------------
(* The statements on the row.                                              *)

\* s is r with another status or last_deploy, which does not say `queued' anew.
Patch(r, s) ==
  /\ s \in GateRow
  /\ s.bv = r.bv /\ s.prev = r.prev /\ s.maxv = r.maxv
  /\ s.ctx = r.ctx /\ s.pending = r.pending /\ s.own = r.own
  /\ BuildNeverRan(s) => BuildNeverRan(r)

\* s is r moved off its deploy, with nothing left to build or to release.
Back(r, s) ==
  /\ s \in GateRow
  /\ s.bv = (IF r.prev # 0 THEN r.prev ELSE r.bv) /\ s.prev = r.prev /\ s.maxv = r.maxv
  /\ s.ctx = 0 /\ s.pending = 0 /\ s.own = FALSE

LEMMA SamePatch ==
  ASSUME NEW r \in GateRow
  PROVE  Patch(r, r)
  BY DEF Patch

LEMMA StatusPatch ==
  ASSUME NEW r \in GateRow
  PROVE  /\ \A s \in Status : Patch(r, [r EXCEPT !.status = s])
         /\ \A d \in Desired : Patch(r, [r EXCEPT !.desired = d])
         /\ \A d \in Desired, s \in Status : Patch(r, [r EXCEPT !.desired = d, !.status = s])
  BY DEF Patch, GateRow, BuildNeverRan

LEMMA TerminalPatch ==
  ASSUME NEW r \in GateRow
  PROVE  Patch(r, SettledTerminal(r))
  BY DEF Patch, GateRow, SettledTerminal, Status, Desired, Terminal, BuildNeverRan

LEMMA StampPatch ==
  ASSUME NEW r \in GateRow, NEW st \in StampType, st.phase # "queued"
  PROVE  Patch(r, StampWritten(r, st))
  BY DEF Patch, GateRow, StampType, StampWritten, BuildNeverRan

LEMMA StampTypes ==
  ASSUME NEW r \in GateRow
  PROVE  /\ \A from : \A to \in Phase : /\ StampOf(r, from, to) \in StampType
                                        /\ MatchedStampOf(r, from, to) \in StampType
         /\ \A v : FailedStampOf(r, v) \in StampType
         /\ NoStamp \in StampType
<1>1. NoStamp \in StampType
  BY BoundAssumption DEF NoStamp, StampType, Release, Phase, Action
<1>2. \A to \in Phase, m \in BOOLEAN : Stamp(r, to, m) \in StampType
  BY DEF Stamp, StampType, GateRow
<1>3. "failed" \in Phase
  BY DEF Phase
<1> QED BY <1>1, <1>2, <1>3 DEF StampOf, MatchedStampOf, FailedStampOf

\* A settle patches the row, or reverts a generation that has a container behind it.
LEMMA SettledCases ==
  ASSUME NEW r \in GateRow, NEW v, NEW e \in BOOLEAN
  PROVE  \/ Patch(r, Settled(r, v, e)) /\ (r.bv = v => ~e)
         \/ r.bv = v /\ e /\ Back(r, Settled(r, v, e))
<1>1. CASE r.bv # v
  BY <1>1, SamePatch DEF Settled
<1>2. CASE r.bv = v /\ ~e
  BY <1>2, TerminalPatch DEF Settled
<1>3. CASE r.bv = v /\ e
  <2>1. 0 \in Release /\ "failed" \in Phase /\ "running" \in Status /\ "running" \in Desired
    BY BoundAssumption DEF Release, Phase, Status, Desired
  <2> DEFINE b == [r EXCEPT !.bv = IF r.prev # 0 THEN r.prev ELSE @, !.status = "running",
                            !.desired = IF @ \in {"stopped", "failed"} THEN @ ELSE "running"]
  <2>2. Reverted(r, v) = b
    BY <1>3 DEF Reverted
  <2>3. /\ b \in GateRow /\ b.bv = (IF r.prev # 0 THEN r.prev ELSE r.bv)
        /\ b.prev = r.prev /\ b.maxv = r.maxv
    BY <2>1 DEF GateRow
  <2> HIDE DEF b
  <2>4. Back(r, [b EXCEPT !.phase = IF r.ldver = v THEN "failed" ELSE @,
                          !.ctx = 0, !.pending = 0, !.own = FALSE])
    BY <2>1, <2>3 DEF Back, GateRow
  <2> QED BY <1>3, <2>2, <2>4 DEF Settled, Abandoned
<1> QED BY <1>1, <1>2, <1>3

LEMMA MarkedType ==
  ASSUME NEW r \in GateRow, NEW v, NEW p \in Release
  PROVE  Marked(r, v, p) \in GateRow
  BY DEF Marked, GateRow

LEMMA SettledType ==
  ASSUME NEW r \in GateRow, NEW v, NEW e \in BOOLEAN
  PROVE  Settled(r, v, e) \in GateRow
  BY SettledCases DEF Patch, Back

TickType == [snap : GateRow, live : BOOLEAN, aged : BOOLEAN]
TaskType == [ver : Release, ctx : Release, prev : Release]
RequestType == [bv : Release, prev : Release, maxv : Release, ctx : Release, pending : Release]

LEMMA NothingType ==
  /\ NoTick \in TickType /\ NoTask \in TaskType /\ NoRequest \in RequestType
  /\ Gone \in [gen : Release, up : BOOLEAN] /\ NoStamp \in StampType
<1>1. NoSnap \in GateRow
  BY BoundAssumption DEF NoSnap, GateRow, Status, Desired, Terminal, Phase, Action, Release
<1> QED BY <1>1, BoundAssumption DEF NoTick, NoTask, NoRequest, Gone, NoStamp, StampType,
  TickType, TaskType, RequestType, Release, Phase, Action

---------------------------------------------------------------------------
(* Type correctness.                                                       *)

LEMMA InitTypes == ASSUME Init PROVE TypeOK
<1>1. 1 \in Versions /\ 0 \in Release /\ 1 \in Release
  BY BoundAssumption DEF Versions, Release
<1>2. PICK up \in BOOLEAN :
       /\ row = [status |-> IF up THEN "running" ELSE "building", desired |-> "running",
                 bv |-> 1, prev |-> 0, maxv |-> 1, ldver |-> 1, action |-> "deploy",
                 phase |-> IF up THEN "healthy" ELSE "queued", ctx |-> 1, pending |-> 0,
                 own |-> TRUE]
       /\ images = SurvivingTags \cup (IF up THEN {1} ELSE {})
       /\ contexts = IF up THEN {} ELSE {1}
       /\ serving = IF up THEN [gen |-> 1, up |-> TRUE] ELSE Gone
       /\ released = IF up THEN {1} ELSE {}
       /\ runs = [v \in Versions |-> IF up /\ v = 1 THEN 1 ELSE 0]
  BY DEF Init
<1>3. row \in GateRow
  BY <1>1, <1>2 DEF GateRow, Status, Desired, Terminal, Phase, Action
<1>4. /\ images \subseteq Versions /\ contexts \subseteq Versions /\ released \subseteq Versions
      /\ serving \in [gen : Release, up : BOOLEAN] /\ runs \in [Versions -> Nat]
  BY <1>1, <1>2, NothingType, BoundAssumption DEF Versions
<1>5. /\ tk \in TickType /\ bt \in TaskType /\ dq \in RequestType
      /\ tst \in StampType /\ bst \in StampType /\ left \in [requests : Nat, faults : Nat]
  BY NothingType, BoundAssumption DEF Init
<1> QED BY <1>3, <1>4, <1>5 DEF Init, TypeOK, TickType, TaskType, RequestType

\* What the statements of a tick, a task or a request leave of a well-typed row.
LEMMA RowTypes ==
  ASSUME TypeOK
  PROVE  /\ \A st \in StampType : StampWritten(row, st) \in GateRow
         /\ \A v : Settled(row, v, Exists) \in GateRow
         /\ \A v : \A p \in Release : Marked(row, v, p) \in GateRow
         /\ SettledTerminal(row) \in GateRow
         /\ \A s \in Status : [row EXCEPT !.status = s] \in GateRow
         /\ \A v : TerminalStamp(v) \in StampType
         /\ \A v : FailedStampOf(row, v) \in StampType
         /\ \A from : \A to \in Phase : /\ StampOf(row, from, to) \in StampType
                                        /\ MatchedStampOf(row, from, to) \in StampType
<1>1. row \in GateRow
  BY DEF TypeOK
<1>2. \A st \in StampType : StampWritten(row, st) \in GateRow
  BY <1>1 DEF StampWritten, GateRow, StampType
<1>3. \A v : Settled(row, v, Exists) \in GateRow
  BY <1>1, SettledType DEF Exists
<1>4. \A v : \A p \in Release : Marked(row, v, p) \in GateRow
  BY <1>1, MarkedType
<1>5. SettledTerminal(row) \in GateRow
  BY <1>1, TerminalPatch DEF Patch
<1>6. \A s \in Status : [row EXCEPT !.status = s] \in GateRow
  BY <1>1 DEF GateRow
<1>7. \A v : TerminalStamp(v) \in StampType
  BY <1>1, StampTypes DEF TerminalStamp
<1> QED BY <1>1, <1>2, <1>3, <1>4, <1>5, <1>6, <1>7, StampTypes

USE DEF TickType, TaskType, RequestType

LEMMA TickTypes == ASSUME TypeOK, Tick PROVE TypeOK'
<1> USE DEF TickTo, TickDone
<1>0. /\ NoTick \in TickType /\ NoStamp \in StampType /\ Gone \in [gen : Release, up : BOOLEAN]
      /\ Phase = {"queued", "building", "launching", "healthy", "failed"}
      /\ tk \in TickType
  BY NothingType DEF Phase, TypeOK
<1>1. CASE TickFetch
  BY <1>0, <1>1 DEF TickFetch, TypeOK
<1>2. CASE TickStops
  <2>1. row' \in GateRow
    BY <1>2, RowTypes DEF TickStops, TypeOK, Status
  <2> QED BY <1>0, <1>2, <2>1 DEF TickStops, TypeOK
<1>3. CASE TickYields \/ TickHolds
  BY <1>0, <1>3 DEF TickYields, TickHolds, TypeOK
<1>4. CASE TickHealthy
  <2>1. tst' \in StampType
    BY <1>0, <1>4, RowTypes DEF TickHealthy
  <2> QED BY <1>0, <1>4, <2>1 DEF TickHealthy, TypeOK
<1>5. CASE TickProbes \/ TickRuns
  BY <1>0, <1>5 DEF TickProbes, TickRuns, TypeOK
<1>6. CASE TickRequeues
  <2>1. tst' \in StampType
    BY <1>0, <1>6, RowTypes DEF TickRequeues
  <2> QED BY <1>6, <2>1 DEF TickRequeues, TypeOK
<1>7. CASE TickSpawns
  <2>1. tk.snap.bv \in Release /\ tk.snap.ctx \in Release /\ tk.snap.prev \in Release
    BY DEF TypeOK, GateRow
  <2>2. bt' \in TaskType /\ bpc' \in {bpc, "waiting"} /\ bst' = bst
    BY <1>7, <2>1 DEF TickSpawns, TypeOK
  <2> QED BY <1>0, <1>7, <2>2 DEF TickSpawns, TypeOK
<1>8. CASE TickReaps
  BY <1>0, <1>8 DEF TickReaps, TypeOK
<1>9. CASE TickSettles
  BY <1>0, <1>9, RowTypes DEF TickSettles, TypeOK
<1>10. CASE TickCrash \/ TickRunFails
  <2>1. row' \in GateRow /\ tst' \in StampType
    BY <1>0, <1>10, RowTypes DEF TickCrash, TickRunFails, CountRestart, Status
  <2> QED BY <1>0, <1>10, <2>1 DEF TickCrash, TickRunFails, CountRestart, TypeOK
<1>11. CASE TickLaunches
  <2>1. tst' \in StampType
    BY <1>0, <1>11, RowTypes DEF TickLaunches
  <2> QED BY <1>0, <1>11, <2>1 DEF TickLaunches, TypeOK
<1>12. CASE TickSchedules
  <2>1. row' \in GateRow
    BY <1>12, RowTypes DEF TickSchedules, Status
  <2> QED BY <1>0, <1>12, <2>1 DEF TickSchedules, TypeOK
<1>13. CASE TickAdopts
  <2>1. row' \in GateRow
    BY <1>13, RowTypes DEF TickAdopts, Status
  <2>2. serving' \in [gen : Release, up : BOOLEAN]
    BY <1>13 DEF TickAdopts, TypeOK, GateRow
  <2> QED BY <1>0, <1>13, <2>1, <2>2 DEF TickAdopts, TypeOK
<1>14. CASE TickStampWrites
  BY <1>0, <1>14, RowTypes DEF TickStampWrites, TypeOK
<1> QED BY <1>1, <1>2, <1>3, <1>4, <1>5, <1>6, <1>7, <1>8, <1>9, <1>10, <1>11, <1>12, <1>13, <1>14
  DEF Tick, TickStep

LEMMA TaskTypes ==
  ASSUME TypeOK, Task, bpc # "none" => bt.ver \in Versions
  PROVE  TypeOK'
<1> USE DEF TaskTo, TaskDone
<1>0. /\ NoTask \in TaskType /\ NoStamp \in StampType /\ 0 \in Release /\ bt.ver \in Release
      /\ Phase = {"queued", "building", "launching", "healthy", "failed"}
  BY NothingType, BoundAssumption DEF Phase, Release, TypeOK
<1>1. CASE TaskBuilds
  <2>1. bst' \in StampType
    BY <1>0, <1>1, RowTypes DEF TaskBuilds
  <2> QED BY <1>1, <2>1 DEF TaskBuilds, TypeOK
<1>2. CASE TaskTags
  BY <1>0, <1>2 DEF TaskTags, TypeOK
<1>3. CASE TaskBuildFails \/ TaskSettles
  <2>1. row' \in GateRow /\ bst' \in StampType
    BY <1>3, RowTypes DEF TaskBuildFails, TaskSettles
  <2> QED BY <1>3, <2>1 DEF TaskBuildFails, TaskSettles, TypeOK
<1>4. CASE TaskClaims \/ TaskCannotStart
  BY <1>0, <1>4 DEF TaskClaims, TaskCannotStart, TypeOK
<1>5. CASE TaskArms \/ TaskClears
  <2>1. row' \in GateRow
    BY <1>0, <1>5, RowTypes DEF TaskArms, TaskClears
  <2> QED BY <1>0, <1>5, <2>1 DEF TaskArms, TaskClears, TypeOK
<1>6. CASE TaskStarts
  BY <1>0, <1>6 DEF TaskStarts, TypeOK
<1>7. CASE TaskExits
  BY <1>0, <1>7 DEF TaskExits, TypeOK
<1>8. CASE TaskReclaims \/ TaskPrunes
  <2>1. images' \subseteq images
    BY <1>8 DEF TaskReclaims, TaskPrunes
  <2> QED BY <1>0, <1>8, <2>1 DEF TaskReclaims, TaskPrunes, TypeOK
<1>9. CASE TaskEnds
  <2>1. tk' \in TickType
    BY <1>9 DEF TaskEnds, TypeOK
  <2> QED BY <1>0, <1>9, <2>1 DEF TaskEnds, TypeOK
<1>10. CASE TaskStampWrites
  BY <1>0, <1>10, RowTypes DEF TaskStampWrites, TypeOK
<1> QED BY <1>1, <1>2, <1>3, <1>4, <1>5, <1>6, <1>7, <1>8, <1>9, <1>10 DEF Task, TaskStep

\* The rows that a deploy and a rollback write.
LEMMA WrittenTypes ==
  ASSUME TypeOK
  PROVE  /\ DeployWrites /\ (dpc = "deploy" => dq.maxv < MaxVersion) => row' \in GateRow
         /\ RollbackWrites => row' \in GateRow
<1>0. /\ dq.maxv \in Release /\ dq.bv \in Release /\ dq.prev \in Release /\ dq.ctx \in Release
      /\ dq.pending \in Release /\ row \in GateRow /\ 0 \in Release
      /\ "restarting" \in Status /\ "running" \in Desired /\ "queued" \in Phase
      /\ Action = {"deploy", "rollback"}
  BY BoundAssumption DEF TypeOK, Release, Status, Desired, Phase, Action
<1>1. ASSUME DeployWrites, dq.maxv < MaxVersion PROVE row' \in GateRow
  <2> DEFINE ver == dq.maxv + 1
  <2>1. ver \in Release
    BY <1>0, <1>1, BoundAssumption DEF Release
  <2>2. \/ row' = row
        \/ row' = [row EXCEPT !.status = "restarting", !.desired = "running",
                     !.bv = ver, !.prev = dq.bv, !.maxv = ver, !.ldver = ver,
                     !.phase = "queued", !.action = "deploy",
                     !.ctx = ver, !.pending = dq.pending, !.own = TRUE]
    BY <1>1 DEF DeployWrites
  <2> DEFINE r == [row EXCEPT !.status = "restarting", !.desired = "running", !.bv = ver,
                              !.prev = dq.bv, !.maxv = ver]
  <2> HIDE DEF ver
  <2>3. r \in GateRow
    BY <1>0, <2>1 DEF GateRow
  <2>4. \/ row' = row
        \/ row' = [r EXCEPT !.ldver = ver, !.phase = "queued", !.action = "deploy",
                           !.ctx = ver, !.pending = dq.pending, !.own = TRUE]
    BY <1>0, <2>2 DEF GateRow
  <2> HIDE DEF r
  <2> QED BY <1>0, <2>1, <2>3, <2>4 DEF GateRow
<1>2. ASSUME RollbackWrites PROVE row' \in GateRow
  <2>1. \/ row' = row
        \/ row' = [row EXCEPT !.status = "restarting", !.desired = "running",
                    !.bv = dq.prev, !.prev = dq.bv, !.ldver = dq.prev, !.phase = "queued",
                    !.action = "rollback", !.ctx = dq.ctx, !.pending = 0, !.own = FALSE]
    BY <1>2 DEF RollbackWrites
  <2> DEFINE r == [row EXCEPT !.status = "restarting", !.desired = "running",
                              !.bv = dq.prev, !.prev = dq.bv]
  <2>2. r \in GateRow
    BY <1>0 DEF GateRow
  <2>3. \/ row' = row
        \/ row' = [r EXCEPT !.ldver = dq.prev, !.phase = "queued", !.action = "rollback",
                           !.ctx = dq.ctx, !.pending = 0, !.own = FALSE]
    BY <1>0, <2>1 DEF GateRow
  <2> HIDE DEF r
  <2> QED BY <1>0, <2>2, <2>3 DEF GateRow
<1> QED BY <1>1, <1>2 DEF DeployWrites

LEMMA RequestTypes ==
  ASSUME TypeOK, RequestStep, RequestOK
  PROVE  TypeOK'
<1>0. NoRequest \in RequestType
  BY NothingType
<1>1. ASSUME NEW k, Request(k) PROVE left' \in [requests : Nat, faults : Nat]
  BY <1>1 DEF Request, TypeOK
<1>2. CASE StopService \/ RestartService
  <2>1. Patch(row, row')
    <3>1. row \in GateRow /\ "restarting" \in Status /\ {"stopped", "running"} \subseteq Desired
      BY DEF TypeOK, Status, Desired, Terminal
    <3>2. CASE StopService
      BY <3>1, <3>2, StatusPatch DEF StopService
    <3>3. CASE RestartService
      BY <3>1, <3>3, StatusPatch DEF RestartService
    <3> QED BY <1>2, <3>2, <3>3
  <2> QED BY <1>1, <1>2, <2>1 DEF StopService, RestartService, TypeOK, Patch
<1>3. CASE DeployReads \/ RollbackReads
  <2>1. dq' \in RequestType
    BY <1>3 DEF DeployReads, RollbackReads, ReadRow, TypeOK, GateRow
  <2> QED BY <1>1, <1>3, <2>1 DEF DeployReads, RollbackReads, TypeOK
<1>4. CASE DeployWrites
  <2>1. row' \in GateRow
    BY <1>4, WrittenTypes DEF DeployWrites, RequestOK
  <2>2. contexts' \subseteq Versions
    <3>1. dq.maxv + 1 \in Versions
      <4>1. dq.maxv \in 0 .. MaxVersion /\ dq.maxv < MaxVersion
        BY <1>4 DEF DeployWrites, TypeOK, Release, RequestOK
      <4> QED BY <4>1, BoundAssumption DEF Versions
    <3> QED BY <1>4, <3>1 DEF DeployWrites, TypeOK
  <2> QED BY <1>0, <1>4, <2>1, <2>2 DEF DeployWrites, TypeOK
<1>5. CASE RollbackWrites
  <2>1. dq.prev \in Versions
    BY <1>5, BoundAssumption DEF RollbackWrites, TypeOK, RequestOK, Release, Versions
  <2>2. row' \in GateRow /\ rolled' \subseteq Versions
    BY <1>5, <2>1, WrittenTypes DEF RollbackWrites, TypeOK
  <2> QED BY <1>0, <1>5, <2>2 DEF RollbackWrites, TypeOK
<1>6. CASE Drain
  BY <1>1, <1>6 DEF Drain, TypeOK
<1> QED BY <1>2, <1>3, <1>4, <1>5, <1>6 DEF RequestStep

LEMMA FaultTypes == ASSUME TypeOK, Fails PROVE TypeOK'
<1>0. /\ NoTick \in TickType /\ NoTask \in TaskType /\ NoRequest \in RequestType
      /\ NoStamp \in StampType
  BY NothingType
<1>1. Fault => left' \in [requests : Nat, faults : Nat]
  BY DEF Fault, TypeOK
<1>2. CASE ContainerExits
  <2>1. serving' \in [gen : Release, up : BOOLEAN]
    BY <1>2 DEF ContainerExits, TypeOK
  <2> QED BY <1>1, <1>2, <2>1 DEF ContainerExits, TypeOK
<1>3. CASE ImageLost \/ ImageReturns
  <2>1. images' \subseteq Versions /\ lost' \subseteq Versions
    BY <1>3 DEF ImageLost, ImageReturns, TypeOK
  <2> QED BY <1>1, <1>3, <2>1 DEF ImageLost, ImageReturns, TypeOK
<1>4. CASE TaskRaises \/ TaskGivesUp
  BY <1>0, <1>1, <1>4 DEF TaskRaises, TaskGivesUp, TaskTo, TypeOK
<1>5. CASE DaemonCrashes \/ DaemonReexecs
  BY <1>0, <1>1, <1>5 DEF DaemonCrashes, DaemonReexecs, VolatileLost, TickDone, TaskDone, TypeOK
<1> QED BY <1>2, <1>3, <1>4, <1>5 DEF Fails

---------------------------------------------------------------------------
(* What the statements keep of the invariant.                              *)

RowInv == FutureOK /\ ReadyOK /\ ReleaseOnce /\ ReleaseOnRecord

LEMMA RowVersions ==
  ASSUME GateInv
  PROVE  /\ row \in GateRow /\ Shape(row) /\ row.maxv \in Nat /\ row.maxv <= MaxVersion
         /\ row.bv \in Versions /\ row.prev \in Nat
         /\ 1 .. row.maxv \subseteq Versions /\ Exists \in BOOLEAN
<1>1. row \in GateRow /\ Shape(row) /\ row.maxv \in 0 .. MaxVersion
  BY DEF GateInv, TypeOK, FutureOK, GateRow, Release
<1> QED BY <1>1, BoundAssumption DEF Shape, Versions, Exists

\* A patch touches no generation; ...
LEMMA PatchKeeps ==
  ASSUME GateInv, Patch(row, row'), UNCHANGED <<images, runs, released, rolled, lost>>
  PROVE  RowInv'
<1> USE DEF GateInv, Patch
<1>1. FutureOK'
  BY DEF FutureOK, Shape
<1>2. ReadyOK'
  BY DEF ReadyOK, Fresh, Excused
<1>3. ReleaseOnce' /\ ReleaseOnRecord'
  BY DEF ReleaseOnce, ReleaseOnRecord
<1> QED BY <1>1, <1>2, <1>3 DEF RowInv

\* ... a revert leaves one that releases nothing; ...
LEMMA BackKeeps ==
  ASSUME GateInv, Back(row, row'), UNCHANGED <<images, runs, released, rolled, lost>>
  PROVE  RowInv'
<1>1. FutureOK'
  BY RowVersions DEF GateInv, FutureOK, Shape, Back, Versions
<1>2. ReadyOK' /\ ReleaseOnce' /\ ReleaseOnRecord'
  BY DEF GateInv, ReadyOK, ReleaseOnce, ReleaseOnRecord, Back
<1> QED BY <1>1, <1>2 DEF RowInv

\* ... and a settle does one or the other.
LEMMA SettleKeeps ==
  ASSUME GateInv, NEW v, row' = Settled(row, v, Exists),
         UNCHANGED <<images, runs, released, rolled, lost>>
  PROVE  /\ RowInv' /\ row'.maxv = row.maxv /\ (row'.own => Patch(row, row'))
         /\ row.bv = v /\ Exists => ~row'.own
<1>1. \/ Patch(row, row') /\ (row.bv = v => ~Exists)
      \/ row.bv = v /\ Exists /\ Back(row, row')
  BY RowVersions, SettledCases
<1> QED BY <1>1, PatchKeeps, BackKeeps DEF Patch, Back

\* The marker of a generation is written, or goes because the release succeeded.
LEMMA MarkKeeps ==
  ASSUME GateInv, NEW v, NEW p \in Release, row' = Marked(row, v, p),
         row.bv = v => p = v \/ v \in released,
         UNCHANGED <<images, runs, released, rolled, lost>>
  PROVE  /\ RowInv' /\ row'.maxv = row.maxv /\ row'.own = row.own /\ row'.bv = row.bv
         /\ BuildNeverRan(row') = BuildNeverRan(row)
         /\ row'.pending = IF row.bv = v THEN p ELSE row.pending
<1>1. /\ row'.bv = row.bv /\ row'.prev = row.prev /\ row'.maxv = row.maxv /\ row'.own = row.own
      /\ row'.ctx = row.ctx /\ row'.phase = row.phase /\ row'.action = row.action
      /\ row'.ldver = row.ldver /\ row'.pending = IF row.bv = v THEN p ELSE row.pending
  BY RowVersions DEF Marked, GateRow
<1>2. BuildNeverRan(row') = BuildNeverRan(row)
  BY <1>1 DEF BuildNeverRan
<1>3. FutureOK'
  BY <1>1 DEF GateInv, FutureOK, Shape
<1>4. ReadyOK'
  BY <1>1, <1>2 DEF GateInv, ReadyOK, Fresh, Excused
<1>5. ReleaseOnce' /\ ReleaseOnRecord'
  BY <1>1 DEF GateInv, ReleaseOnce, ReleaseOnRecord
<1> QED BY <1>1, <1>2, <1>3, <1>4, <1>5 DEF RowInv

\* Between its steps, the tick's snapshot outlives a patch of the row, ...
LEMMA PatchKeepsTick ==
  ASSUME GateInv, Patch(row, row'),
         UNCHANGED <<images, contexts, runs, released, rolled, lost, tpc, tk, bpc, bt>>
  PROVE  TickOK'
<1> USE DEF GateInv, Patch, TickOK
<1>1. SUFFICES ASSUME tpc # "idle" PROVE TickOK'
  OBVIOUS
<1>2. SnapOK'
  BY <1>1 DEF SnapOK, Shape
<1>3. tpc = "gate" => GateOK'
  BY <1>1 DEF GateOK, NeedsBuild, BuildNeverRan, Fresh, Excused
<1> QED BY <1>1, <1>2, <1>3 DEF Fresh, Excused

\* ... and whatever the task in flight does short of its end.
LEMMA TaskKeepsTick ==
  ASSUME GateInv, bpc # "none", bpc' # "none", UNCHANGED <<tpc, tk, bt, rolled>>,
         row'.maxv = row.maxv, row'.own => row.own,
         \A v \in Versions : v # bt.ver => runs'[v] = runs[v]
  PROVE  TickOK'
<1> USE DEF GateInv, TickOK
<1>1. tpc \in {"idle", "gate"}
  BY DEF TaskOK
<1>2. SUFFICES ASSUME tpc = "gate" PROVE TickOK'
  BY <1>1
<1>3. tk.snap.maxv \in Nat /\ tk.snap.bv \in Versions
  BY <1>2, BoundAssumption DEF TypeOK, GateRow, Release, SnapOK, Shape, Versions
<1>4. \A v \in Versions : v > tk.snap.maxv => v # bt.ver
  BY <1>2, <1>3, RowVersions DEF SnapOK, TaskOK, Versions
<1>5. SnapOK'
  BY <1>2, <1>4 DEF SnapOK, Shape
<1>6. GateOK'
  BY <1>2, <1>3 DEF GateOK
<1> QED BY <1>1, <1>2, <1>5, <1>6

LEMMA PatchKeepsTask ==
  ASSUME GateInv, Patch(row, row'), bpc # "none" => tpc' \in {"idle", "gate"} /\ tst'.ver = 0,
         UNCHANGED <<images, runs, released, rolled, lost, bpc, bt, bst>>
  PROVE  TaskOK'
  BY DEF GateInv, Patch, TaskOK, Fresh, Excused

LEMMA PatchKeepsStamps ==
  ASSUME GateInv, Patch(row, row'), UNCHANGED <<runs, rolled, lost, tst, bst, bpc>>
  PROVE  StampOK'
  BY DEF GateInv, Patch, StampOK, Fresh, Excused

\* What a snapshot says of the row that is there by now: it is on the same deploy, or on
\* one that has released nothing.
LEMMA SnapshotOrNewer ==
  ASSUME GateInv, tpc # "idle", row.own
  PROVE  (row.bv = tk.snap.bv /\ tk.snap.own) \/ runs[row.bv] = 0
<1>1. SnapOK /\ Shape(row) /\ row.bv = row.maxv /\ tk.snap.maxv <= row.maxv
  BY RowVersions DEF GateInv, TickOK, SnapOK, Shape
<1>2. tk.snap.maxv \in Nat /\ row.maxv \in Nat /\ row.bv \in Versions
  BY RowVersions, BoundAssumption DEF GateInv, TypeOK, GateRow, Release
<1>3. CASE row.maxv = tk.snap.maxv
  BY <1>1, <1>3 DEF SnapOK, Shape
<1>4. CASE row.maxv > tk.snap.maxv
  BY <1>1, <1>2, <1>4 DEF SnapOK
<1> QED BY <1>1, <1>2, <1>3, <1>4

---------------------------------------------------------------------------
(* The tick.                                                               *)

\* The steps that patch the row at most, and end the pass.
Ends ==
  TickStops \/ TickYields \/ TickHealthy \/ TickHolds \/ TickCrash \/ TickRunFails \/ TickAdopts
\* The steps that leave the row alone, and go on.
GoesOn == TickProbes \/ TickReaps \/ TickLaunches \/ TickRuns

LEMMA EndsKeeps ==
  ASSUME GateInv, Ends
  PROVE  RowInv' /\ StampOK' /\ TaskOK' /\ TickOK' /\ RequestOK'
<1> USE DEF TickDone
<1>0. /\ row \in GateRow /\ (bpc # "none" => tpc \in {"idle", "gate"})
      /\ {"stopped", "restarting", "running"} \subseteq Status /\ NoStamp.ver = 0
  BY RowVersions DEF GateInv, TaskOK, Status, NoStamp
<1>1. /\ tpc' = "idle"
      /\ UNCHANGED <<images, runs, released, rolled, lost, bpc, bt, bst, dpc, dq>>
  BY DEF Ends, TickStops, TickYields, TickHealthy, TickHolds, TickCrash, TickRunFails, TickAdopts,
    CountRestart
<1>2. Patch(row, row')
  <2>1. CASE TickStops
    BY <1>0, <2>1, SamePatch, StatusPatch DEF TickStops
  <2>2. CASE TickYields \/ TickHealthy \/ TickHolds
    BY <1>0, <2>2, SamePatch DEF TickYields, TickHealthy, TickHolds
  <2>3. CASE TickCrash \/ TickRunFails
    BY <1>0, <2>3, StatusPatch, TerminalPatch DEF TickCrash, TickRunFails, CountRestart
  <2>4. CASE TickAdopts
    BY <1>0, <2>4, StatusPatch DEF TickAdopts
  <2> QED BY <2>1, <2>2, <2>3, <2>4 DEF Ends
<1>3. tst'.phase # "queued" /\ (bpc # "none" => tst'.ver = 0)
  <2>1. CASE TickStops \/ TickYields \/ TickHolds \/ TickAdopts
    BY <2>1 DEF TickStops, TickYields, TickHolds, TickAdopts, NoStamp
  <2>2. CASE TickHealthy
    BY <2>2 DEF TickHealthy, TaskInFlight, StampOf, MatchedStampOf, Stamp, NoStamp
  <2>3. CASE TickCrash \/ TickRunFails
    BY <1>0, <2>3 DEF TickCrash, TickRunFails, CountRestart, FailedStampOf, Stamp, NoStamp
  <2> QED BY <2>1, <2>2, <2>3 DEF Ends
<1>4. StampOK'
  BY <1>1, <1>3 DEF GateInv, StampOK
<1>5. TaskOK' /\ RowInv'
  BY <1>1, <1>2, <1>3, PatchKeepsTask, PatchKeeps
<1>6. TickOK' /\ RequestOK'
  BY <1>1 DEF GateInv, TickOK, RequestOK
<1> QED BY <1>4, <1>5, <1>6

\* What goes on to the launch has been released, or its release has never started.
LEMMA GoesOnKeeps ==
  ASSUME GateInv, GoesOn
  PROVE  RowInv' /\ StampOK' /\ TaskOK' /\ TickOK' /\ RequestOK'
<1> USE DEF TickTo
<1>0. /\ tpc \in {"gate", "reap", "launch", "run"} /\ bpc = "none" /\ tk' = tk /\ row' = row
      /\ UNCHANGED <<images, contexts, runs, released, rolled, lost, bpc, bt, bst, dpc, dq>>
      /\ tpc' # "gate"
  BY DEF GoesOn, TickProbes, TickReaps, TickLaunches, TickRuns, TaskInFlight, GateInv, TaskOK
<1>1. Patch(row, row')
  BY <1>0, RowVersions, SamePatch
<1>2. tst'.phase # "queued"
  BY DEF GoesOn, TickProbes, TickReaps, TickLaunches, TickRuns, MatchedStampOf, Stamp, NoStamp
<1>3. StampOK' /\ RowInv' /\ TaskOK' /\ RequestOK'
  BY <1>0, <1>1, <1>2, PatchKeeps DEF GateInv, StampOK, TaskOK, RequestOK
<1>4. SnapOK /\ SnapOK'
  BY <1>0 DEF GateInv, TickOK, SnapOK, Shape
<1> SUFFICES TickOK'
  BY <1>3
<1>5. CASE TickProbes
  <2>1. /\ tpc = "gate" /\ GateOK
        /\ tpc' = (IF NeedsBuild(tk.snap) THEN "build"
                   ELSE IF tk.snap.pending # 0 /\ tk.snap.pending = tk.snap.bv THEN "reap"
                   ELSE "launch")
    BY <1>5 DEF TickProbes, GateInv, TickOK
  <2>2. tk.snap.bv # 0 /\ (tk.snap.own => tk.snap.ctx = tk.snap.bv)
    BY <1>4 DEF SnapOK, Shape
  <2>3. CASE tpc' = "build"
    <3>1. NeedsBuild(tk.snap)
      BY <2>1, <2>3
    <3> QED BY <1>0, <1>4, <2>1, <2>2, <2>3, <3>1 DEF TickOK, GateOK, NeedsBuild, Fresh, Excused
  <2>4. CASE tpc' = "reap"
    BY <1>4, <2>4 DEF TickOK
  <2>5. CASE tpc' = "launch"
    BY <1>0, <1>4, <2>1, <2>2, <2>5 DEF TickOK, GateOK
  <2> QED BY <2>1, <2>3, <2>4, <2>5
<1>6. CASE TickReaps
  BY <1>4, <1>6 DEF TickReaps, TickOK
<1>7. CASE TickLaunches \/ TickRuns
  <2>1. /\ tpc \in {"launch", "run"} /\ tpc' \in {"schedule", "adopt"}
    BY <1>7 DEF TickLaunches, TickRuns
  <2> QED BY <1>0, <1>4, <2>1 DEF GateInv, TickOK
<1> QED BY <1>5, <1>6, <1>7 DEF GoesOn

LEMMA TickKeeps ==
  ASSUME GateInv, Tick
  PROVE  GateInv'
<1>0. /\ row \in GateRow /\ Shape(row) /\ (bpc # "none" => tpc \in {"idle", "gate"})
      /\ TypeOK' /\ NoStamp.ver = 0
  BY RowVersions, TickTypes DEF GateInv, TypeOK, TaskOK, NoStamp
<1> SUFFICES RowInv' /\ StampOK' /\ TaskOK' /\ TickOK' /\ RequestOK'
  BY <1>0 DEF GateInv, RowInv
<1> USE DEF TickTo, TickDone
<1>1. CASE TickFetch
  <2>1. /\ tpc' = "gate" /\ tk'.snap = row /\ tst'.ver = 0
        /\ UNCHANGED <<row, images, contexts, runs, released, rolled, lost, bpc, bt, bst, dpc, dq>>
    BY <1>0, <1>1 DEF TickFetch
  <2>2. Patch(row, row')
    BY <1>0, <2>1, SamePatch
  <2>3. RowInv' /\ TaskOK' /\ StampOK' /\ RequestOK'
    BY <2>1, <2>2, PatchKeeps, PatchKeepsTask DEF GateInv, StampOK, RequestOK
  <2>4. SnapOK'
    BY <1>0, <2>1, RowVersions DEF GateInv, SnapOK, Shape, FutureOK, TaskOK
  <2>5. GateOK'
    <3>1. bpc # "none" /\ row.own /\ bt.ver # row.bv => runs[row.bv] = 0
      BY DEF GateInv, TaskOK
    <3>2. row.own /\ NeedsBuild(row) => Fresh(row.bv)
      BY DEF GateInv, ReadyOK, NeedsBuild
    <3>3. row.own /\ runs[row.bv] > 0 => row.bv \in released \/ row.pending = row.bv
      BY RowVersions DEF GateInv, ReleaseOnRecord
    <3> QED BY <2>1, <3>1, <3>2, <3>3 DEF GateOK, NeedsBuild, BuildNeverRan, Fresh, Excused
  <2> QED BY <2>1, <2>3, <2>4, <2>5 DEF TickOK
<1>2. CASE Ends
  BY <1>2, EndsKeeps
<1>3. CASE GoesOn
  BY <1>3, GoesOnKeeps
<1>4. CASE TickRequeues
  <2>1. /\ tpc = "build" /\ tpc' = "spawn" /\ bpc = "none" /\ tk.snap.ctx \in contexts
        /\ tst' = StampOf(row, {"building"}, "queued")
        /\ UNCHANGED <<row, tk, images, contexts, runs, released, rolled, lost, bpc, bt, bst,
                       dpc, dq>>
    BY <1>0, <1>4 DEF TickRequeues
  <2>2. SnapOK /\ tk.snap.ctx # 0 /\ (tk.snap.own => Fresh(tk.snap.bv))
    BY <2>1 DEF GateInv, TickOK
  <2>3. Fresh(tk.snap.bv)
    BY <2>2 DEF SnapOK, Shape, Fresh, Excused
  <2>4. row.own => Fresh(row.bv)
    BY <2>1, <2>3, SnapshotOrNewer DEF Fresh
  <2>5. StampOK'
    BY <2>1, <2>4 DEF GateInv, StampOK, Fresh, Excused
  <2>6. Patch(row, row')
    BY <1>0, <2>1, SamePatch
  <2>7. RowInv' /\ TaskOK' /\ RequestOK'
    BY <2>1, <2>6, PatchKeeps, PatchKeepsTask DEF GateInv, RequestOK
  <2>8. TickOK'
    BY <2>1, <2>2, <2>3 DEF TickOK, SnapOK, Shape, Fresh, Excused
  <2> QED BY <2>5, <2>7, <2>8
<1>5. CASE TickSpawns
  <2>1. /\ tpc = "spawn" /\ tpc' = "idle" /\ bpc = "none" /\ tst'.ver = 0
        /\ UNCHANGED <<row, images, contexts, runs, released, rolled, lost, bst, dpc, dq>>
    BY <1>0, <1>5 DEF TickSpawns
  <2>2. \/ bpc' = "none"
        \/ bpc' = "waiting" /\ bt'.ver = tk.snap.bv /\ bt'.ctx = tk.snap.ctx
    BY <1>5, <2>1 DEF TickSpawns
  <2>3. SnapOK /\ tk.snap.ctx # 0 /\ Fresh(tk.snap.bv)
    BY <2>1 DEF GateInv, TickOK
  <2>4. Patch(row, row')
    BY <1>0, <2>1, SamePatch
  <2>5. RowInv' /\ StampOK' /\ RequestOK' /\ TickOK'
    BY <2>1, <2>4, PatchKeeps DEF GateInv, StampOK, RequestOK, TickOK
  <2>6. tk.snap.bv \in 1 .. row.maxv
    <3>1. tk.snap.maxv \in Nat
      BY BoundAssumption DEF GateInv, TypeOK, GateRow, Release
    <3> QED BY <2>3, <3>1, RowVersions DEF SnapOK, Shape
  <2>7. tk.snap.bv \notin rolled => tk.snap.ctx = tk.snap.bv
    BY <2>3 DEF SnapOK, Shape
  <2>8. row.own /\ row.bv # tk.snap.bv => runs[row.bv] = 0
    BY <2>1, SnapshotOrNewer
  <2>9. TaskOK'
    BY <2>1, <2>2, <2>3, <2>6, <2>7, <2>8 DEF TaskOK, Fresh, Excused
  <2> QED BY <2>5, <2>9
<1>6. CASE TickSettles
  <2>1. /\ tpc = "settle" /\ tpc' = "idle" /\ bpc = "none"
        /\ row' = Settled(row, tk.snap.pending, Exists)
        /\ tst' = TerminalStamp(tk.snap.pending)
        /\ UNCHANGED <<images, runs, released, rolled, lost, bpc, bt, bst, dpc, dq>>
    BY <1>0, <1>6 DEF TickSettles
  <2>2. RowInv'
    BY <2>1, SettleKeeps
  <2>3. tst'.phase # "queued"
    BY <2>1 DEF TerminalStamp, FailedStampOf, Stamp, NoStamp
  <2> QED BY <2>1, <2>2, <2>3 DEF GateInv, StampOK, RequestOK, TickOK, TaskOK
<1>7. CASE TickSchedules
  <2>1. /\ tpc = "schedule" /\ tpc' = "run" /\ tk' = tk /\ bpc = "none" /\ tst'.ver = 0
        /\ row' = [row EXCEPT !.status = "scheduled"]
        /\ UNCHANGED <<images, contexts, runs, released, rolled, lost, bpc, bt, bst, dpc, dq>>
    BY <1>0, <1>7 DEF TickSchedules
  <2>2. Patch(row, row')
    BY <1>0, <2>1, StatusPatch DEF Status
  <2>3. RowInv' /\ StampOK' /\ RequestOK' /\ TaskOK'
    BY <2>1, <2>2, PatchKeeps, PatchKeepsTask DEF GateInv, StampOK, RequestOK
  <2>4. TickOK'
    BY <2>1, <2>2 DEF GateInv, TickOK, SnapOK, Shape, Patch
  <2> QED BY <2>3, <2>4
<1>8. CASE TickStampWrites
  <2>1. /\ tst.ver # 0 /\ bpc = "none" /\ tst'.ver = 0 /\ row' = StampWritten(row, tst)
        /\ UNCHANGED <<tpc, tk, images, contexts, runs, released, rolled, lost, bpc, bt, bst,
                       dpc, dq>>
    BY <1>0, <1>8 DEF TickStampWrites, GateInv, TaskOK
  <2>2. /\ row'.bv = row.bv /\ row'.prev = row.prev /\ row'.maxv = row.maxv
        /\ row'.ctx = row.ctx /\ row'.pending = row.pending /\ row'.own = row.own
        /\ BuildNeverRan(row') => BuildNeverRan(row) \/ tst.phase = "queued"
    BY <1>0, <2>1 DEF StampWritten, GateRow, BuildNeverRan
  <2>3. tst.phase = "queued" /\ row.own => Fresh(row.bv)
    BY <2>1 DEF GateInv, StampOK
  <2>4. RowInv'
    BY <2>1, <2>2, <2>3 DEF GateInv, RowInv, FutureOK, Shape, ReadyOK, ReleaseOnce,
      ReleaseOnRecord, Fresh, Excused
  <2>5. SnapOK' = SnapOK /\ GateOK' = GateOK
    BY <2>1, <2>2 DEF SnapOK, Shape, GateOK, NeedsBuild, BuildNeverRan, Fresh, Excused
  <2>6. TickOK'
    BY <2>1, <2>5 DEF GateInv, TickOK, Fresh, Excused
  <2> QED BY <2>1, <2>4, <2>6 DEF GateInv, StampOK, RequestOK, TaskOK
<1> QED BY <1>1, <1>2, <1>3, <1>4, <1>5, <1>6, <1>7, <1>8 DEF Tick, TickStep, Ends, GoesOn

---------------------------------------------------------------------------
(* The build task.                                                         *)

USE DEF Unreleased

\* The steps of the task that leave the row, the images and the history alone.
LEMMA TaskMovesOn ==
  ASSUME GateInv, bst.ver = 0, row' = row,
         TaskBuilds \/ TaskClaims \/ TaskCannotStart \/ TaskRaises \/ TaskGivesUp
  PROVE  RowInv' /\ StampOK' /\ TaskOK' /\ TickOK' /\ RequestOK'
<1> USE DEF TaskTo
<1>1. /\ bpc # "none" /\ row \in GateRow /\ NoStamp.ver = 0 /\ row.bv \in Versions
      /\ UNCHANGED <<bt, tpc, tk, tst, dpc, dq, images, contexts, runs, released, rolled, lost>>
  BY RowVersions DEF TaskBuilds, TaskClaims, TaskCannotStart, TaskRaises, TaskGivesUp, NoStamp
<1>2. /\ bst'.ver # 0 => bst'.phase # "queued" /\ ~bst'.match /\ bpc' = "building"
      /\ \/ bpc = "waiting" /\ bpc' = "building" /\ (bst'.ver = 0 => ~BuildNeverRan(row))
         \/ bpc = "tagged" /\ bpc' = "claimed"
         \/ bpc # "waiting" /\ bpc' \in {"lost", "blamed", "clean"}
  <2>1. CASE TaskBuilds
    BY <1>1, <2>1 DEF TaskBuilds, StampOf, Stamp, NoStamp, BuildNeverRan, Versions
  <2>2. CASE ~TaskBuilds
    BY <1>1, <2>2 DEF TaskClaims, TaskCannotStart, TaskRaises, TaskGivesUp
  <2> QED BY <2>1, <2>2
<1>3. Patch(row, row')
  BY <1>1, SamePatch
<1>4. RowInv' /\ RequestOK' /\ StampOK'
  BY <1>1, <1>2, <1>3, PatchKeeps DEF GateInv, RequestOK, StampOK, Fresh, Excused
<1>5. TickOK'
  BY <1>1, <1>2, TaskKeepsTick
<1>6. TaskOK'
  BY <1>1, <1>2 DEF GateInv, TaskOK, Fresh, Excused, BuildNeverRan
<1> QED BY <1>4, <1>5, <1>6

\* A failed build or release is settled.
LEMMA TaskSettlesKeeps ==
  ASSUME GateInv, bst.ver = 0, TaskBuildFails \/ TaskSettles
  PROVE  RowInv' /\ StampOK' /\ TaskOK' /\ TickOK' /\ RequestOK'
<1>1. /\ bpc \in {"building", "lost", "blamed"} /\ bt' = bt
      /\ bpc' = "clean" \/ (bpc' = "reclaim" /\ row.bv = bt.ver /\ Exists)
      /\ row' = Settled(row, bt.ver, Exists) /\ bst' = TerminalStamp(bt.ver)
      /\ UNCHANGED <<tpc, tk, tst, dpc, dq, images, runs, released, rolled, lost>>
  BY DEF TaskBuildFails, TaskSettles
<1>2. /\ RowInv' /\ row'.maxv = row.maxv /\ (row'.own => Patch(row, row'))
      /\ row.bv = bt.ver /\ Exists => ~row'.own
  BY <1>1, SettleKeeps
<1>3. bst'.phase # "queued" /\ ~bst'.match /\ (bst'.ver # 0 => bpc' = "clean")
  BY <1>1 DEF TerminalStamp, FailedStampOf, Stamp, NoStamp
<1>4. RequestOK' /\ StampOK'
  BY <1>1, <1>2, <1>3 DEF GateInv, RequestOK, StampOK, TaskOK
<1>5. TickOK'
  BY <1>1, <1>2, TaskKeepsTick DEF Patch
<1>6. TaskOK'
  BY <1>1, <1>2 DEF GateInv, TaskOK, Patch
<1> QED BY <1>2, <1>4, <1>5, <1>6

\* The marker: armed before the release, cleared after its success.
LEMMA TaskMarksKeeps ==
  ASSUME GateInv, bst.ver = 0, TaskArms \/ TaskClears
  PROVE  RowInv' /\ StampOK' /\ TaskOK' /\ TickOK' /\ RequestOK'
<1>0. 0 \in Release /\ bt.ver \in Release /\ NoStamp.ver = 0
  BY BoundAssumption DEF GateInv, TypeOK, Release, NoStamp
<1> DEFINE p == IF bpc = "claimed" THEN bt.ver ELSE 0
<1>1. /\ row' = Marked(row, bt.ver, p) /\ p \in Release /\ bst'.ver = 0
      /\ p = bt.ver \/ bt.ver \in released
      /\ UNCHANGED <<bt, tpc, tk, tst, dpc, dq, images, runs, released, rolled, lost>>
      /\ \/ /\ bpc = "claimed" /\ p = bt.ver
            /\ bpc' = (IF row.bv = bt.ver THEN "armed" ELSE "clean")
         \/ bpc = "released" /\ bpc' = "prune"
  BY <1>0 DEF GateInv, TaskOK, TaskArms, TaskClears, TaskTo
<1> HIDE DEF p
<1>2. /\ RowInv' /\ row'.maxv = row.maxv /\ row'.own = row.own /\ row'.bv = row.bv
      /\ BuildNeverRan(row') = BuildNeverRan(row)
      /\ row'.pending = IF row.bv = bt.ver THEN p ELSE row.pending
  BY <1>1, MarkKeeps
<1>3. RequestOK' /\ StampOK'
  BY <1>1, <1>2 DEF GateInv, RequestOK, StampOK, Fresh, Excused
<1>4. TickOK'
  BY <1>1, <1>2, TaskKeepsTick
<1>5. TaskOK'
  BY <1>1, <1>2 DEF GateInv, TaskOK, Fresh, Excused
<1> QED BY <1>2, <1>3, <1>4, <1>5

\* Tags come and go; those of a generation that was released stay.
LEMMA TaskTagsKeeps ==
  ASSUME GateInv, bst.ver = 0, TaskTags \/ TaskPrunes \/ TaskReclaims
  PROVE  RowInv' /\ StampOK' /\ TaskOK' /\ TickOK' /\ RequestOK'
<1>1. /\ \/ bpc = "building" /\ bpc' = "tagged" /\ images' = images \cup {bt.ver}
         \/ bpc = "prune" /\ bpc' = "clean" /\ images \cap {bt.ver} \subseteq images'
         \/ bpc = "reclaim" /\ bpc' = "clean" /\ images \ {bt.ver} \subseteq images'
      /\ bst'.ver = 0
      /\ UNCHANGED <<row, bt, tpc, tk, tst, dpc, dq, runs, released, rolled, lost>>
  <2>1. CASE TaskTags
    BY <2>1 DEF TaskTags, TaskTo, NoStamp
  <2>2. CASE TaskPrunes
    <3>1. PICK old \in SUBSET (images \ {bt.ver, bt.prev}) : images' = images \ old
      BY <2>2 DEF TaskPrunes
    <3> QED BY <2>2, <3>1 DEF TaskPrunes, TaskTo, NoStamp
  <2>3. CASE TaskReclaims
    BY <2>3 DEF TaskReclaims, TaskTo, NoStamp
  <2> QED BY <2>1, <2>2, <2>3
<1>2. FutureOK' /\ ReleaseOnce' /\ ReleaseOnRecord'
  BY <1>1 DEF GateInv, FutureOK, Shape, ReleaseOnce, ReleaseOnRecord
<1>3. ReadyOK'
  <2>1. row.own /\ row.bv # bt.ver => Fresh(row.bv)
    BY <1>1 DEF GateInv, TaskOK, Fresh
  <2>2. bpc = "reclaim" /\ row.own => row.bv # bt.ver
    BY DEF GateInv, TaskOK
  <2>3. row.own /\ ~Fresh(row.bv) => row.bv \in images'
    BY <1>1, <2>1, <2>2 DEF GateInv, ReadyOK
  <2> QED BY <1>1, <2>3 DEF GateInv, ReadyOK, Fresh, Excused, BuildNeverRan
<1>4. RequestOK' /\ StampOK'
  BY <1>1 DEF GateInv, RequestOK, StampOK, Fresh, Excused
<1>5. TickOK'
  BY <1>1, TaskKeepsTick
<1>6. TaskOK'
  BY <1>1 DEF GateInv, TaskOK, Fresh, Excused, BuildNeverRan
<1> QED BY <1>2, <1>3, <1>4, <1>5, <1>6 DEF RowInv

\* The release runs, for the first time and on record, and ends.
LEMMA TaskReleasesKeeps ==
  ASSUME GateInv, bst.ver = 0, TaskStarts \/ TaskExits
  PROVE  RowInv' /\ StampOK' /\ TaskOK' /\ TickOK' /\ RequestOK'
<1>0. /\ bt.ver \in 1 .. row.maxv /\ bt.ver \in Versions
      /\ row.own /\ row.bv # bt.ver => runs[row.bv] = 0
  BY RowVersions DEF GateInv, TaskOK, TaskStarts, TaskExits
<1>1. CASE TaskStarts
  <2>1. /\ bpc = "armed" /\ bpc' = "running" /\ runs' = [runs EXCEPT ![bt.ver] = @ + 1]
        /\ bst'.ver = 0
        /\ UNCHANGED <<row, images, released, rolled, lost, bt, tpc, tk, tst, dpc, dq>>
    BY <1>1 DEF TaskStarts, TaskTo, NoStamp
  <2>2. /\ Fresh(bt.ver) /\ (Excused(bt.ver) \/ bt.ver \in images)
        /\ row.own /\ row.bv = bt.ver => row.pending = row.bv /\ ~BuildNeverRan(row)
    BY <2>1 DEF GateInv, TaskOK
  <2>3. /\ runs \in [Versions -> Nat] /\ runs'[bt.ver] = runs[bt.ver] + 1
        /\ \A v \in Versions : v # bt.ver => runs'[v] = runs[v]
    BY <1>0, <2>1 DEF GateInv, TypeOK
  <2>4. FutureOK'
    <3>1. \A v \in Versions : v > row.maxv => v # bt.ver
      BY <1>0, RowVersions DEF Versions
    <3> QED BY <2>1, <2>3, <3>1 DEF GateInv, FutureOK, Shape
  <2>5. ReadyOK'
    <3>1. ASSUME row.own, ~Fresh(row.bv)', row.bv # bt.ver PROVE FALSE
      BY <1>0, <2>1, <2>3, <3>1, RowVersions DEF Fresh
    <3> QED BY <2>1, <2>2, <3>1 DEF ReadyOK, Fresh, Excused, BuildNeverRan
  <2>6. ReleaseOnce'
    BY <1>0, <2>1, <2>2, <2>3 DEF GateInv, ReleaseOnce, Fresh, Excused
  <2>7. ReleaseOnRecord'
    BY <1>0, <2>1, <2>2, <2>3 DEF GateInv, ReleaseOnRecord
  <2>8. TickOK'
    BY <2>1, <2>3, TaskKeepsTick
  <2>9. TaskOK'
    BY <1>0, <2>1, <2>2, <2>3, RowVersions DEF GateInv, TaskOK, Excused, BuildNeverRan
  <2>10. RequestOK' /\ StampOK'
    BY <2>1 DEF GateInv, RequestOK, StampOK, TaskOK
  <2> QED BY <2>4, <2>5, <2>6, <2>7, <2>8, <2>9, <2>10 DEF RowInv
<1>2. CASE TaskExits
  <2>1. /\ bpc = "running" /\ bst'.ver = 0
        /\ (bpc' = "released" /\ bt.ver \in released') \/ bpc' = "lost"
        /\ released \subseteq released'
        /\ UNCHANGED <<row, images, runs, rolled, lost, bt, tpc, tk, tst, dpc, dq>>
    BY <1>2 DEF TaskExits, TaskTo, NoStamp
  <2>2. RowInv'
    BY <2>1 DEF GateInv, RowInv, FutureOK, Shape, ReadyOK, ReleaseOnce, ReleaseOnRecord, Fresh,
      Excused, BuildNeverRan
  <2>3. TickOK'
    BY <2>1, TaskKeepsTick
  <2>4. TaskOK' /\ RequestOK' /\ StampOK'
    BY <2>1 DEF GateInv, TaskOK, RequestOK, StampOK, BuildNeverRan
  <2> QED BY <2>2, <2>3, <2>4
<1> QED BY <1>1, <1>2

\* The task ends: its context goes, so that nobody takes its generation for unbuilt.
LEMMA TaskEndsKeeps ==
  ASSUME GateInv, TaskEnds
  PROVE  RowInv' /\ StampOK' /\ TaskOK' /\ TickOK' /\ RequestOK'
<1>1. /\ bpc = "clean" /\ bpc' = "none" /\ bst'.ver = 0 /\ contexts' = contexts \ {bt.ctx}
      /\ tk' = [tk EXCEPT !.aged = @ \/ tpc = "gate"]
      /\ UNCHANGED <<row, images, runs, released, rolled, lost, tpc, tst, dpc, dq>>
  BY DEF TaskEnds, TaskDone, NoStamp
<1>2. Patch(row, row')
  BY <1>1, RowVersions, SamePatch
<1>3. RowInv' /\ TaskOK' /\ RequestOK' /\ StampOK'
  BY <1>1, <1>2, PatchKeeps DEF GateInv, TaskOK, RequestOK, StampOK, Fresh, Excused
<1>4. /\ tpc \in {"idle", "gate"} /\ (bt.ver \notin rolled => bt.ctx = bt.ver)
  BY <1>1 DEF GateInv, TaskOK
<1>5. SUFFICES ASSUME tpc = "gate" PROVE TickOK'
  BY <1>1, <1>3, <1>4 DEF TickOK
<1>6. tk'.snap = tk.snap /\ tk'.aged
  BY <1>1, <1>5 DEF GateInv, TypeOK
<1>7. SnapOK /\ GateOK
  BY <1>5 DEF GateInv, TickOK
<1>8. SnapOK'
  BY <1>1, <1>6, <1>7 DEF SnapOK, Shape
<1>9. tk.snap.own /\ tk.snap.bv \in contexts' => Fresh(tk.snap.bv)
  BY <1>1, <1>4, <1>7 DEF GateOK, Fresh, Excused
<1>10. GateOK'
  BY <1>1, <1>6, <1>9 DEF GateOK, Fresh, Excused
<1> QED BY <1>1, <1>5, <1>8, <1>10 DEF TickOK

LEMMA TaskKeeps ==
  ASSUME GateInv, Task
  PROVE  GateInv'
<1>1. TypeOK'
  <2>1. bpc # "none" => bt.ver \in Versions
    BY RowVersions DEF GateInv, TaskOK
  <2> QED BY <2>1, TaskTypes DEF GateInv
<1> SUFFICES RowInv' /\ StampOK' /\ TaskOK' /\ TickOK' /\ RequestOK'
  BY <1>1 DEF GateInv, RowInv
<1>2. CASE bst.ver = 0 /\ TaskStep
  <2>1. CASE TaskBuilds \/ TaskClaims \/ TaskCannotStart
    <3>1. row' = row
      BY <2>1 DEF TaskBuilds, TaskClaims, TaskCannotStart
    <3> QED BY <1>2, <2>1, <3>1, TaskMovesOn
  <2> QED BY <1>2, <2>1, TaskSettlesKeeps, TaskMarksKeeps, TaskTagsKeeps, TaskReleasesKeeps,
        TaskEndsKeeps DEF TaskStep
<1>3. CASE TaskStampWrites
  <2>1. /\ bst.ver # 0 /\ bst'.ver = 0 /\ row' = StampWritten(row, bst)
        /\ bst \in StampType /\ bst.phase # "queued" /\ ~bst.match
        /\ UNCHANGED <<bpc, bt, tpc, tk, tst, dpc, dq, images, contexts, runs, released, rolled,
                       lost>>
    BY <1>3 DEF TaskStampWrites, NoStamp, GateInv, TypeOK, StampOK
  <2>2. Patch(row, row')
    BY <2>1, RowVersions, StampPatch
  <2>3. ~BuildNeverRan(row')
    BY <2>1, RowVersions DEF StampWritten, GateRow, BuildNeverRan
  <2>4. RowInv' /\ TickOK' /\ RequestOK'
    BY <2>1, <2>2, PatchKeeps, PatchKeepsTick DEF GateInv, RequestOK
  <2>5. StampOK'
    BY <2>1, <2>2 DEF GateInv, StampOK, Patch, Fresh, Excused
  <2>6. TaskOK'
    BY <2>1, <2>2, <2>3 DEF GateInv, TaskOK, Patch, Fresh, Excused
  <2> QED BY <2>4, <2>5, <2>6
<1> QED BY <1>2, <1>3 DEF Task

---------------------------------------------------------------------------
(* Requests and faults.                                                    *)

\* A deploy takes a generation that nobody has built or released.
LEMMA DeployKeeps ==
  ASSUME GateInv, DeployWrites
  PROVE  RowInv' /\ StampOK' /\ TaskOK' /\ TickOK' /\ RequestOK'
<1>0. /\ UNCHANGED <<images, runs, released, rolled, lost, tpc, tk, tst, bpc, bt, bst>>
      /\ dpc = "deploy" /\ dpc' = "idle"
  BY DEF DeployWrites
<1>1. RequestOK'
  BY <1>0 DEF RequestOK
<1> DEFINE ver == dq.maxv + 1
<1>2. CASE row.maxv # dq.maxv
  <2>1. row' = row /\ UNCHANGED contexts
    BY <1>2 DEF DeployWrites
  <2>2. Patch(row, row')
    BY <2>1, RowVersions, SamePatch
  <2> QED BY <1>0, <1>1, <2>1, <2>2, PatchKeeps, PatchKeepsTask, PatchKeepsTick, PatchKeepsStamps
        DEF GateInv, TaskOK
<1>3. CASE row.maxv = dq.maxv
  <2>1. /\ row'.bv = ver /\ row'.prev = dq.bv /\ row'.maxv = ver /\ row'.ctx = ver /\ row'.own
        /\ contexts' = (contexts \ {dq.ctx}) \cup {ver}
    BY <1>3, RowVersions DEF DeployWrites, GateRow
  <2>2. /\ dq.maxv \in Nat /\ dq.bv \in 1 .. dq.maxv /\ ver \in Versions
        /\ row.maxv \in Nat /\ ver \in Nat /\ ver > row.maxv
    BY <1>0, <1>3, RowVersions, BoundAssumption DEF GateInv, RequestOK, Versions
  <2> HIDE DEF ver
  <2>3. runs[ver] = 0
    BY <2>2 DEF GateInv, FutureOK
  <2>4. FutureOK'
    <3>1. Shape(row')
      BY <1>3, <2>1, <2>2 DEF Shape, ver
    <3>2. \A v \in Versions : v > ver => v > row.maxv
      BY <2>2 DEF Versions
    <3> QED BY <1>0, <2>1, <3>1, <3>2 DEF GateInv, FutureOK, Shape
  <2>5. ReadyOK' /\ ReleaseOnce' /\ ReleaseOnRecord' /\ StampOK'
    BY <1>0, <2>1, <2>3 DEF GateInv, ReadyOK, ReleaseOnce, ReleaseOnRecord, StampOK, Fresh, Excused
  <2>6. ASSUME bpc # "none" PROVE bt.ver \in 1 .. row'.maxv /\ bt.ver # ver
    BY <1>0, <2>1, <2>2, <2>6 DEF GateInv, TaskOK
  <2>7. TaskOK'
    BY <1>0, <2>1, <2>3, <2>6 DEF GateInv, TaskOK, Fresh, Excused
  <2>8. TickOK'
    <3>1. SUFFICES ASSUME tpc # "idle" PROVE TickOK'
      BY <1>0 DEF TickOK
    <3>2. SnapOK /\ tk.snap.maxv \in Nat
      BY <3>1, BoundAssumption DEF GateInv, TickOK, TypeOK, GateRow, Release
    <3>3. /\ tk.snap.maxv < ver /\ tk.snap.bv # ver
      BY <2>2, <3>2 DEF SnapOK, Shape
    <3>4. SnapOK'
      BY <1>0, <2>1, <2>2, <3>2, <3>3 DEF SnapOK, Shape
    <3>5. /\ tk.snap.bv \in contexts' => tk.snap.bv \in contexts
          /\ tk.snap.own /\ tk.snap.ctx \in contexts' => tk.snap.ctx \in contexts
      BY <2>1, <3>2, <3>3 DEF SnapOK, Shape
    <3>6. tpc = "gate" => GateOK'
      BY <1>0, <3>1, <3>5 DEF GateInv, TickOK, GateOK, NeedsBuild, BuildNeverRan, Fresh, Excused
    <3> QED BY <1>0, <3>1, <3>4, <3>5, <3>6 DEF GateInv, TickOK, Fresh, Excused
  <2> QED BY <1>1, <2>4, <2>5, <2>7, <2>8 DEF RowInv
<1> QED BY <1>2, <1>3

\* A rollback puts an older generation back, which this module excuses from now on.
LEMMA RollbackKeeps ==
  ASSUME GateInv, RollbackWrites
  PROVE  RowInv' /\ StampOK' /\ TaskOK' /\ TickOK' /\ RequestOK'
<1>0. /\ UNCHANGED <<images, contexts, runs, released, lost, tpc, tk, tst, bpc, bt, bst>>
      /\ dpc = "rollback" /\ dpc' = "idle"
  BY DEF RollbackWrites
<1>1. RequestOK'
  BY <1>0 DEF RequestOK
<1>2. CASE ActiveRun \/ row.maxv # dq.maxv
  <2>1. row' = row /\ UNCHANGED rolled
    BY <1>2 DEF RollbackWrites
  <2>2. Patch(row, row')
    BY <2>1, RowVersions, SamePatch
  <2> QED BY <1>0, <1>1, <2>1, <2>2, PatchKeeps, PatchKeepsTask, PatchKeepsTick, PatchKeepsStamps
        DEF GateInv, TaskOK
<1>3. CASE ~(ActiveRun \/ row.maxv # dq.maxv)
  <2>1. /\ row'.bv = dq.prev /\ row'.prev = dq.bv /\ row'.maxv = row.maxv /\ ~row'.own
        /\ rolled' = rolled \cup {dq.prev} /\ row.maxv = dq.maxv
    BY <1>3, RowVersions DEF RollbackWrites, GateRow
  <2>2. dq.prev \in 1 .. dq.maxv /\ dq.bv \in 1 .. dq.maxv
    BY <1>0, <2>1, RowVersions DEF GateInv, RequestOK
  <2>3. FutureOK'
    BY <1>0, <2>1, <2>2 DEF GateInv, FutureOK, Shape
  <2>4. ReadyOK' /\ ReleaseOnce' /\ ReleaseOnRecord' /\ StampOK'
    BY <1>0, <2>1 DEF GateInv, ReadyOK, ReleaseOnce, ReleaseOnRecord, StampOK
  <2>5. TaskOK'
    BY <1>0, <2>1 DEF GateInv, TaskOK, Fresh, Excused
  <2>6. SnapOK => SnapOK'
    BY <1>0, <2>1 DEF SnapOK, Shape
  <2>7. GateOK => GateOK'
    BY <1>0, <2>1 DEF GateOK, NeedsBuild, BuildNeverRan, Fresh, Excused
  <2>8. TickOK'
    BY <1>0, <2>1, <2>6, <2>7 DEF GateInv, TickOK, Fresh, Excused
  <2> QED BY <1>1, <2>3, <2>4, <2>5, <2>8 DEF RowInv
<1> QED BY <1>2, <1>3

LEMMA RequestKeeps ==
  ASSUME GateInv, RequestStep
  PROVE  GateInv'
<1>1. TypeOK'
  BY RequestTypes DEF GateInv
<1> SUFFICES RowInv' /\ StampOK' /\ TaskOK' /\ TickOK' /\ RequestOK'
  BY <1>1 DEF GateInv, RowInv
<1>2. CASE StopService \/ RestartService \/ Drain \/ DeployReads \/ RollbackReads
  <2>1. UNCHANGED <<images, contexts, runs, released, rolled, lost, tpc, tk, tst, bpc, bt, bst>>
    BY <1>2 DEF StopService, RestartService, Drain, DeployReads, RollbackReads
  <2>2. Patch(row, row')
    <3>1. row \in GateRow /\ "restarting" \in Status /\ {"stopped", "running"} \subseteq Desired
      BY RowVersions DEF Status, Desired, Terminal
    <3>2. CASE StopService
      BY <3>1, <3>2, StatusPatch DEF StopService
    <3>3. CASE RestartService
      BY <3>1, <3>3, StatusPatch DEF RestartService
    <3>4. CASE Drain \/ DeployReads \/ RollbackReads
      BY <3>1, <3>4, SamePatch DEF Drain, DeployReads, RollbackReads
    <3> QED BY <1>2, <3>2, <3>3, <3>4
  <2>3. RowInv' /\ TaskOK' /\ TickOK' /\ StampOK'
    BY <2>1, <2>2, PatchKeeps, PatchKeepsTask, PatchKeepsTick, PatchKeepsStamps
    DEF GateInv, TaskOK
  <2>4. RequestOK'
    <3>1. CASE StopService \/ RestartService \/ Drain
      BY <3>1 DEF StopService, RestartService, Drain, GateInv, RequestOK
    <3>2. CASE DeployReads \/ RollbackReads
      <4>1. dq' = [bv |-> row.bv, prev |-> row.prev, maxv |-> row.maxv, ctx |-> row.ctx,
                   pending |-> row.pending]
        BY <3>2 DEF DeployReads, RollbackReads, ReadRow
      <4>2. /\ dpc' \in {"deploy", "rollback"} /\ (dpc' = "deploy" => row.maxv < MaxVersion)
            /\ dpc' = "rollback" => row.prev # 0
        BY <3>2 DEF DeployReads, RollbackReads
      <4> QED BY <4>1, <4>2, RowVersions DEF RequestOK, Shape
    <3> QED BY <1>2, <3>1, <3>2
  <2> QED BY <2>3, <2>4
<1> QED BY <1>2, DeployKeeps, RollbackKeeps DEF RequestStep

LEMMA FaultKeeps ==
  ASSUME GateInv, Fails
  PROVE  GateInv'
<1>1. TypeOK'
  BY FaultTypes DEF GateInv
<1> SUFFICES RowInv' /\ StampOK' /\ TaskOK' /\ TickOK' /\ RequestOK'
  BY <1>1 DEF GateInv, RowInv
<1>2. CASE ContainerExits
  <2>1. /\ UNCHANGED <<images, contexts, runs, released, rolled, lost, tpc, tk, tst, bpc, bt, bst>>
        /\ UNCHANGED <<row, dpc, dq>>
    BY <1>2 DEF ContainerExits
  <2>2. Patch(row, row')
    BY <2>1, RowVersions, SamePatch
  <2> QED BY <2>1, <2>2, PatchKeeps, PatchKeepsTask, PatchKeepsTick, PatchKeepsStamps
        DEF GateInv, TaskOK, RequestOK
<1>3. CASE ImageLost \/ ImageReturns
  <2>1. /\ images' \subseteq images \cup lost /\ images \subseteq images' \cup lost'
        /\ lost \subseteq lost'
        /\ UNCHANGED <<row, contexts, runs, released, rolled, tpc, tk, tst, bpc, bt, bst, dpc, dq>>
    BY <1>3 DEF ImageLost, ImageReturns
  <2>2. RowInv'
    BY <2>1 DEF GateInv, RowInv, FutureOK, Shape, ReadyOK, ReleaseOnce, ReleaseOnRecord, Fresh,
      Excused, BuildNeverRan
  <2>3. StampOK' /\ RequestOK'
    BY <2>1 DEF GateInv, StampOK, RequestOK, Fresh, Excused
  <2>4. TaskOK'
    BY <2>1 DEF GateInv, TaskOK, Fresh, Excused, BuildNeverRan
  <2>5. SnapOK => SnapOK'
    BY <2>1 DEF SnapOK, Shape
  <2>6. GateOK => GateOK'
    BY <2>1 DEF GateOK, NeedsBuild, BuildNeverRan, Fresh, Excused
  <2>7. TickOK'
    BY <2>1, <2>5, <2>6 DEF GateInv, TickOK, Fresh, Excused
  <2> QED BY <2>2, <2>3, <2>4, <2>7
<1>4. CASE TaskRaises \/ TaskGivesUp
  <2>1. row' = row
    BY <1>4 DEF TaskRaises, TaskGivesUp
  <2>2. bst.ver = 0
    BY <1>4 DEF TaskRaises, TaskGivesUp, GateInv, StampOK
  <2> QED BY <1>4, <2>1, <2>2, TaskMovesOn
<1>5. CASE DaemonCrashes \/ DaemonReexecs
  <2>1. /\ UNCHANGED <<row, images, contexts, runs, released, rolled, lost>>
        /\ tpc' = "idle" /\ bpc' = "none" /\ dpc' = "idle" /\ tst'.ver = 0 /\ bst'.ver = 0
    BY <1>5 DEF DaemonCrashes, DaemonReexecs, VolatileLost, TickDone, TaskDone, NoStamp
  <2>2. Patch(row, row')
    BY <2>1, RowVersions, SamePatch
  <2>3. RowInv'
    BY <2>1, <2>2, PatchKeeps
  <2> QED BY <2>1, <2>3 DEF StampOK, TaskOK, TickOK, RequestOK
<1> QED BY <1>2, <1>3, <1>4, <1>5 DEF Fails

LEMMA InitKeeps == ASSUME Init PROVE GateInv
<1>1. TypeOK
  BY InitTypes
<1>2. 1 \in Versions
  BY BoundAssumption DEF Versions
<1>3. PICK up \in BOOLEAN :
       /\ row = [status |-> IF up THEN "running" ELSE "building", desired |-> "running",
                 bv |-> 1, prev |-> 0, maxv |-> 1, ldver |-> 1, action |-> "deploy",
                 phase |-> IF up THEN "healthy" ELSE "queued", ctx |-> 1, pending |-> 0,
                 own |-> TRUE]
       /\ images = SurvivingTags \cup (IF up THEN {1} ELSE {})
       /\ released = IF up THEN {1} ELSE {}
       /\ runs = [v \in Versions |-> IF up /\ v = 1 THEN 1 ELSE 0]
  BY DEF Init
<1>4. /\ row.bv = 1 /\ row.prev = 0 /\ row.maxv = 1 /\ row.ctx = 1 /\ row.own
      /\ runs[1] = IF up THEN 1 ELSE 0
      /\ \A v \in Versions : v # 1 => runs[v] = 0
      /\ row.phase = IF up THEN "healthy" ELSE "queued"
  BY <1>2, <1>3
<1>5. FutureOK
  BY <1>4 DEF FutureOK, Shape
<1>6. ReadyOK
  BY <1>3, <1>4 DEF ReadyOK, Fresh, Excused, BuildNeverRan
<1>7. ReleaseOnce
  BY <1>4 DEF ReleaseOnce
<1>8. ReleaseOnRecord
  BY <1>3, <1>4 DEF ReleaseOnRecord
<1>9. StampOK /\ TaskOK /\ TickOK /\ RequestOK
  BY DEF Init, NoStamp, StampOK, TaskOK, TickOK, RequestOK
<1> QED BY <1>1, <1>5, <1>6, <1>7, <1>8, <1>9 DEF GateInv

LEMMA StepKeeps == ASSUME GateInv, [Next]_vars PROVE GateInv'
<1>1. CASE UNCHANGED vars
  BY <1>1 DEF vars, GateInv, TypeOK, FutureOK, Shape, ReadyOK, StampOK, TaskOK, TickOK, SnapOK,
    GateOK, RequestOK, ReleaseOnce, ReleaseOnRecord, Fresh, Excused, NeedsBuild, BuildNeverRan
<1> QED BY <1>1, TickKeeps, TaskKeeps, RequestKeeps, FaultKeeps DEF Next

LEMMA Always == Spec => []GateInv
  BY InitKeeps, StepKeeps, PTL DEF Spec

---------------------------------------------------------------------------
(* The theorems.                                                           *)

\* The migration of a generation runs at most once, whatever dies, raises, fails to
\* settle or is pruned; the generations that a rollback put back, and those whose image
\* the runtime lost, are not spoken of.
THEOREM ReleasesRunOnce == Spec => []ReleaseOnce
<1>1. GateInv => ReleaseOnce
  BY DEF GateInv
<1> QED BY <1>1, Always, PTL

\* A release that was started and is not known to have succeeded carries its marker for
\* as long as the row is on its deploy.
THEOREM ReleasesAreOnRecord == Spec => []ReleaseOnRecord
<1>1. GateInv => ReleaseOnRecord
  BY DEF GateInv
<1> QED BY <1>1, Always, PTL

\* Nothing of a deploy is launched while a release of it was started and has not exited
\* 0, unless a task ended between the tick's fetch and its gate.
THEOREM UnfinishedReleasesAreHeld == Spec => UnfinishedReleaseHoldsLaunch
<1>1. GateInv => [tpc = "adopt" /\ serving'.up /\ tk.snap.own
                    /\ runs[tk.snap.bv] > 0 /\ ~tk.aged
                    => tk.snap.bv \in released]_vars
  BY DEF GateInv, TickOK
<1> QED BY <1>1, Always, PTL DEF UnfinishedReleaseHoldsLaunch

\* Whatever a superseded task still does, it writes nothing of the newer generation's row
\* but last_deploy.
THEOREM SupersededTasksKeepOff == Spec => SupersededIsHandsOff
<1>1. ASSUME GateInv, [Next]_vars
      PROVE  [bpc # "none" /\ (bpc' # bpc \/ bst' # bst) /\ bt.ver # row.bv
                => row' = [row EXCEPT !.ldver = row'.ldver, !.phase = row'.phase,
                                      !.action = row'.action]]_vars
  <2>1. SUFFICES ASSUME bpc # "none", bpc' # bpc \/ bst' # bst, bt.ver # row.bv
                 PROVE  row' = [row EXCEPT !.ldver = row'.ldver, !.phase = row'.phase,
                                           !.action = row'.action]
    OBVIOUS
  <2>2. row \in GateRow /\ tpc \in {"idle", "gate"} /\ tst.ver = 0
    BY <1>1, <2>1, RowVersions DEF GateInv, TaskOK
  <2>3. row' = row \/ row' = StampWritten(row, bst)
    <3>1. CASE TaskStep
      BY <2>1, <3>1 DEF TaskStep, TaskBuilds, TaskTags, TaskBuildFails, TaskClaims, TaskArms,
        TaskCannotStart, TaskStarts, TaskExits, TaskClears, TaskPrunes, TaskSettles, TaskReclaims,
        TaskEnds, Settled, Marked
    <3>2. CASE TaskStampWrites
      BY <3>2 DEF TaskStampWrites
    <3>3. CASE Tick
      BY <2>1, <2>2, <3>3 DEF Tick, TickStep, TickFetch, TickStops, TickYields, TickHealthy,
        TickProbes, TickHolds, TickRequeues, TickSpawns, TickReaps, TickSettles, TickCrash,
        TickLaunches, TickSchedules, TickRuns, TickRunFails, TickAdopts, TickStampWrites
    <3>4. CASE RequestStep
      BY <2>1, <3>4 DEF RequestStep, StopService, RestartService, DeployReads, DeployWrites,
        RollbackReads, RollbackWrites, Drain
    <3>5. CASE Fails
      BY <2>1, <3>5 DEF Fails, ContainerExits, ImageLost, ImageReturns, TaskRaises, TaskGivesUp,
        DaemonCrashes, DaemonReexecs, VolatileLost
    <3> QED BY <1>1, <2>1, <3>1, <3>2, <3>3, <3>4, <3>5 DEF Next, Task, vars
  <2> QED BY <2>2, <2>3 DEF StampWritten, GateRow
<1> QED BY <1>1, Always, PTL DEF Spec, SupersededIsHandsOff
=============================================================================
