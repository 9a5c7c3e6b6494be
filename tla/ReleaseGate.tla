---------------------------- MODULE ReleaseGate ----------------------------
(***************************************************************************)
(* The gate in front of every swap (core/app_build.py): a deploy's image   *)
(* is built and its release command (a data migration) is run and succeeds *)
(* before the tick may launch the new generation.  One service, with       *)
(*   - the reconcile tick, which fetches a snapshot of the row, asks       *)
(*     ensure_built, and then either builds, settles a release that no     *)
(*     task owns, or launches,                                             *)
(*   - the build task: slot, docker build, release, settle, clean-up,      *)
(*   - requests: deploy, rollback, restart, stop, and a daemon restart,    *)
(*   - crashes, container exits, statements that raise and lost images.    *)
(* The swap itself is the subject of Cutover and appears here as one       *)
(* destroy-first launch.  Every generation declares a release command.     *)
(***************************************************************************)
EXTENDS Generations, FiniteSets

CONSTANTS
  Requests,      \* the kinds of request this instance issues
  MaxRequests,   \* how many of them
  MaxFaults,     \* how many crashes, exits, raised exceptions and lost images
  MaxVersion,    \* the last generation a deploy may allocate
  SurvivingTags, \* image tags left by a deleted service of the same name
  KeepTags,      \* how many of the newest tags a prune keeps
  Losable        \* the versions whose image the runtime may lose

ASSUME BoundAssumption ==
  /\ Requests \subseteq {"deploy", "rollback", "restart", "stop", "drain"}
  /\ MaxRequests \in Nat /\ MaxFaults \in Nat /\ MaxVersion \in Nat \ {0}
  /\ SurvivingTags \subseteq 1 .. MaxVersion /\ KeepTags \in Nat
  /\ Losable \subseteq 1 .. MaxVersion

VARIABLES
  row,        \* the jobs row
  images,     \* versions whose tag the container runtime has
  contexts,   \* versions whose build context is on disk
  serving,    \* the row's container: its generation (0: gone), and whether it runs
  migrating,  \* versions whose release container runs
  tpc, tk,    \* the tick: where it is, its snapshot and whether that was live
  tst,        \* the tick's stamp of last_deploy, read and not yet written
  bpc, bt,    \* the build task: where it is, and what it was given
  bst,        \* the build task's stamp
  dpc, dq,    \* a deploy or rollback between its read and its write
  draining,   \* a daemon restart is winding down
  left,       \* requests and faults left
  runs,       \* history: how often the release command of a version was started
  released,   \* history: versions whose release command exited 0
  rolled,     \* history: versions a rollback has put on the row
  lost        \* history: versions whose image the runtime has lost

persistent == <<row, images, contexts, serving, migrating>>
tickVars == <<tpc, tk, tst>>
taskVars == <<bpc, bt, bst>>
requestVars == <<dpc, dq>>
history == <<runs, released, rolled, lost>>
vars == <<persistent, tickVars, taskVars, requestVars, draining, left, history>>

Versions == 1 .. MaxVersion
Release == 0 .. MaxVersion
Action == {"deploy", "rollback"}
Phase == {"queued", "building", "launching", "healthy", "failed"}
GateRow == [status : Status, desired : Desired, bv : Release, prev : Release, maxv : Release,
            ldver : Release, phase : Phase, action : Action,  \* last_deploy
            ctx : Release,        \* build_context_dir, 0 when absent
            pending : Release,    \* release_pending, 0 when absent
            own : BOOLEAN]        \* history: on its last deploy's generation, neither
                                  \* rolled back nor reverted

Gone == [gen |-> 0, up |-> FALSE]
Exists == serving.gen # 0
NoSnap == [status |-> "stopped", desired |-> "stopped", bv |-> 0, prev |-> 0, maxv |-> 0,
           ldver |-> 0, phase |-> "failed", action |-> "deploy", ctx |-> 0, pending |-> 0,
           own |-> FALSE]
\* aged (history): a task has ended between the tick's fetch and its gate.
NoTick == [snap |-> NoSnap, live |-> FALSE, aged |-> FALSE]
NoTask == [ver |-> 0, ctx |-> 0, prev |-> 0]
NoRequest == [bv |-> 0, prev |-> 0, maxv |-> 0, ctx |-> 0, pending |-> 0]

TaskInFlight == bpc # "none"
\* stamp_last_deploy reads the row, then writes the whole last_deploy it read with a new
\* phase; only with require_version_match is that write a compare-and-swap.
NoStamp == [ver |-> 0, phase |-> "failed", action |-> "deploy", match |-> FALSE]
Stamp(r, to, match) == [ver |-> r.ldver, phase |-> to, action |-> r.action, match |-> match]
StampOf(r, from, to) == IF r.phase \in from THEN Stamp(r, to, FALSE) ELSE NoStamp
MatchedStampOf(r, from, to) ==
  IF r.phase \in from /\ r.ldver = r.bv THEN Stamp(r, to, TRUE) ELSE NoStamp
\* expect_version is compared with what was read, not with what is overwritten.
FailedStampOf(r, ver) == IF r.ldver = ver THEN Stamp(r, "failed", FALSE) ELSE NoStamp
StampWritten(r, st) ==
  IF st.match /\ r.bv # st.ver THEN r
  ELSE [r EXCEPT !.ldver = st.ver, !.phase = st.phase, !.action = st.action]

TickTo(pc) == tpc' = pc /\ tst' = NoStamp /\ UNCHANGED tk
TickDone == tpc' = "idle" /\ tst' = NoStamp /\ tk' = NoTick
TaskTo(pc) == bpc' = pc /\ bst' = NoStamp /\ UNCHANGED bt
TaskDone == bpc' = "none" /\ bst' = NoStamp /\ bt' = NoTask

\* The blob of a revert: it stamps last_deploy in the same compare-and-swap.
Abandoned(r, ver) ==
  [Reverted(r, ver) EXCEPT !.phase = IF r.ldver = ver THEN "failed" ELSE @,
                           !.ctx = 0, !.pending = 0, !.own = FALSE]

\* has_active_run: the slot is taken before the marker is armed and given back
\* when _release_impl returns.
ActiveRun == bpc \in {"claimed", "armed", "running", "released", "lost", "reclaim"}

ButTick == <<taskVars, requestVars, draining, left, history>>
ButTask == <<tickVars, requestVars, draining, left>>
OtherVars == <<requestVars, draining, left, history>>
ButRequest == <<images, serving, migrating, tickVars, taskVars, draining, history>>

Init ==
  /\ \E up \in BOOLEAN :   \* a generation that serves, or a first deploy
       /\ row = [status |-> IF up THEN "running" ELSE "building", desired |-> "running",
                 bv |-> 1, prev |-> 0, maxv |-> 1, ldver |-> 1, action |-> "deploy",
                 phase |-> IF up THEN "healthy" ELSE "queued", ctx |-> 1, pending |-> 0,
                 own |-> TRUE]
       /\ images = SurvivingTags \cup (IF up THEN {1} ELSE {})
       /\ contexts = IF up THEN {} ELSE {1}
       /\ serving = IF up THEN [gen |-> 1, up |-> TRUE] ELSE Gone
       /\ released = IF up THEN {1} ELSE {}
       /\ runs = [v \in Versions |-> IF up /\ v = 1 THEN 1 ELSE 0]
  /\ migrating = {} /\ rolled = {} /\ lost = {}
  /\ tpc = "idle" /\ tk = NoTick /\ tst = NoStamp
  /\ bpc = "none" /\ bt = NoTask /\ bst = NoStamp
  /\ dpc = "idle" /\ dq = NoRequest
  /\ draining = FALSE
  /\ left = [requests |-> MaxRequests, faults |-> MaxFaults]

---------------------------------------------------------------------------
(* Statements on the row that know the keys of the gate.                   *)

\* (mutant) The settles write without comparing the version.
SettledBlindly(r, ver, exists) ==
  IF exists THEN Abandoned(r, ver) ELSE SettledTerminal(r)

\* (mutant) The terminal settle drops the crash marker.
SettledUnmarked(r, ver, exists) ==
  IF r.bv # ver THEN r
  ELSE IF exists THEN Abandoned(r, ver)
  ELSE [SettledTerminal(r) EXCEPT !.pending = 0]

\* _settle_failed_generation: a revert drops the build and release markers, the
\* terminal settle keeps them.
Settled(r, ver, exists) ==
  IF r.bv # ver THEN r
  ELSE IF exists THEN Abandoned(r, ver) ELSE SettledTerminal(r)

\* _arm_release_pending and _clear_release_pending, compare-and-swap on the version.
Marked(r, ver, pending) == IF r.bv = ver THEN [r EXCEPT !.pending = pending] ELSE r

\* _build_never_ran: a queued deploy needs its build even if the tag exists.
BuildNeverRan(r) == r.phase = "queued" /\ r.action # "rollback" /\ r.ldver = r.bv

\* needs_build
NeedsBuild(r) == r.ctx # 0 /\ (r.bv \notin images \/ BuildNeverRan(r))

---------------------------------------------------------------------------
(* The tick.  A stamp is read with the step that asks for it: what lands   *)
(* between the two either changes neither, or leaves no phase to stamp.    *)

\* reconcile: fetch the rows, list the live containers.
TickFetch ==
  /\ tpc = "idle" /\ Reconcilable(row)
  /\ tpc' = "gate" /\ tst' = NoStamp
  /\ tk' = [snap |-> row, live |-> serving.up, aged |-> FALSE]
  /\ UNCHANGED <<persistent, ButTick>>

Stopping == tk.snap.desired = "stopped"

\* The stop branch comes before the gate: re-read, tear down, write `stopped'.
TickStops ==
  /\ tpc = "gate" /\ Stopping /\ TickDone
  /\ IF row.status = "stopped" THEN UNCHANGED <<row, serving>>
     ELSE row' = [row EXCEPT !.status = "stopped"] /\ serving' = Gone
  /\ UNCHANGED <<images, contexts, migrating, ButTick>>

\* Layer 1: a build or release in flight owns the row.
TickYields ==
  /\ tpc = "gate" /\ ~Stopping /\ TaskInFlight /\ TickDone
  /\ UNCHANGED <<persistent, ButTick>>

Converging == ~tk.live \/ tk.snap.status \in {"building", "restarting"}

\* A live service that is not converging skips the probes; its phase settles, also
\* when it failed and its own image was relaunched since.
TickHealthy ==
  /\ tpc = "gate" /\ ~Stopping /\ ~TaskInFlight /\ ~Converging
  /\ tpc' = "idle" /\ tk' = NoTick
  /\ \/ tst' = StampOf(row, {"launching"}, "healthy")
     \/ /\ tk.snap.phase = "failed" /\ tk.snap.ldver = tk.snap.bv
        /\ serving.gen = tk.snap.bv
        /\ tst' = MatchedStampOf(row, {"failed"}, "healthy")
  /\ UNCHANGED <<persistent, ButTick>>

\* (mutant) A release that no task owns does not hold the launch back.
TickProbesTag ==
  /\ tpc = "gate" /\ ~Stopping /\ ~TaskInFlight /\ Converging
  /\ TickTo(IF NeedsBuild(tk.snap) THEN "build" ELSE "launch")
  /\ UNCHANGED <<persistent, ButTick>>

\* Layers 2 and 3, on the snapshot: an image to build, a release nobody finished.
TickProbes ==
  /\ tpc = "gate" /\ ~Stopping /\ ~TaskInFlight /\ Converging
  /\ TickTo(IF NeedsBuild(tk.snap) THEN "build"
            ELSE IF tk.snap.pending # 0 /\ tk.snap.pending = tk.snap.bv THEN "reap"
            ELSE "launch")
  /\ UNCHANGED <<persistent, ButTick>>

\* The context is gone: that image was built and then lost.  Wait for it.
TickHolds ==
  /\ tpc = "build" /\ tk.snap.ctx \notin contexts /\ TickDone
  /\ UNCHANGED <<persistent, ButTick>>

\* The boot touch-up, whatever generation the row is on by now.
TickRequeues ==
  /\ tpc = "build" /\ tk.snap.ctx \in contexts
  /\ tpc' = "spawn" /\ tst' = StampOf(row, {"building"}, "queued")
  /\ UNCHANGED <<tk, persistent, ButTick>>

\* spawn: nothing during a drain.
TickSpawns ==
  /\ tpc = "spawn" /\ TickDone
  /\ IF draining THEN UNCHANGED taskVars
     ELSE /\ bpc' = "waiting" /\ UNCHANGED bst
          /\ bt' = [ver |-> tk.snap.bv, ctx |-> tk.snap.ctx, prev |-> tk.snap.prev]
  /\ UNCHANGED <<persistent, requestVars, draining, left, history>>

\* _settle_crashed_release: reap the orphaned release containers, best effort, ...
TickReaps ==
  /\ tpc = "reap" /\ TickTo("settle")
  /\ migrating' \in {{}, migrating}
  /\ UNCHANGED <<row, images, contexts, serving, ButTick>>

\* ... and fail the generation of the snapshot's marker; a terminal settle is
\* followed by the failed stamp.
TerminalStamp(ver) ==
  IF row.bv = ver /\ ~Exists THEN FailedStampOf(row, ver) ELSE NoStamp
TickSettles ==
  /\ tpc = "settle" /\ tpc' = "idle" /\ tk' = NoTick
  /\ row' = Settled(row, tk.snap.pending, Exists)
  /\ tst' = TerminalStamp(tk.snap.pending)
  /\ UNCHANGED <<images, contexts, serving, migrating, ButTick>>

\* _count_restart: back off, or give up on whatever generation is there, and stamp
\* the one of the snapshot.
CountRestart ==
  /\ tpc' = "idle" /\ tk' = NoTick
  /\ \/ row' = [row EXCEPT !.status = "restarting"] /\ tst' = NoStamp
     \/ row' = SettledTerminal(row) /\ tst' = FailedStampOf(row, tk.snap.ldver)

\* Past the gate, a service that was believed up has crashed.
TickCrash ==
  /\ tpc = "launch" /\ ~tk.live /\ tk.snap.status \in {"running", "degraded"}
  /\ serving' = Gone /\ CountRestart
  /\ UNCHANGED <<images, contexts, migrating, ButTick>>

\* The launch: destroy, stamp whatever generation the row is on, ...
TickLaunches ==
  /\ tpc = "launch" /\ (tk.live \/ tk.snap.status \notin {"running", "degraded"})
  /\ serving' = Gone
  /\ tpc' = "schedule" /\ tst' = MatchedStampOf(row, {"queued", "building"}, "launching")
  /\ UNCHANGED <<tk, row, images, contexts, migrating, ButTick>>

\* ... schedule, ...
TickSchedules ==
  /\ tpc = "schedule" /\ TickTo("run") /\ row' = [row EXCEPT !.status = "scheduled"]
  /\ UNCHANGED <<images, contexts, serving, migrating, ButTick>>

\* ... run the snapshot's image, or fail to, ...
TickRuns ==
  /\ tpc = "run" /\ tk.snap.bv \in images /\ TickTo("adopt")
  /\ UNCHANGED <<persistent, ButTick>>

TickRunFails ==
  /\ tpc = "run" /\ CountRestart
  /\ UNCHANGED <<images, contexts, serving, migrating, ButTick>>

\* ... and adopt the container.
TickAdopts ==
  /\ tpc = "adopt" /\ TickDone
  /\ serving' = [gen |-> tk.snap.bv, up |-> TRUE]
  /\ row' = [row EXCEPT !.status = "running"]
  /\ UNCHANGED <<images, contexts, migrating, ButTick>>

\* The statement of a pending stamp.
TickStampWrites ==
  /\ tst.ver # 0 /\ tst' = NoStamp /\ row' = StampWritten(row, tst)
  /\ UNCHANGED <<tpc, tk, images, contexts, serving, migrating, ButTick>>

TickStep ==
  \/ TickFetch \/ TickStops \/ TickYields \/ TickHealthy \/ TickProbes \/ TickHolds
  \/ TickRequeues \/ TickSpawns \/ TickReaps \/ TickSettles \/ TickCrash \/ TickLaunches
  \/ TickSchedules \/ TickRuns \/ TickRunFails \/ TickAdopts
Tick == (tst.ver = 0 /\ TickStep) \/ TickStampWrites

---------------------------------------------------------------------------
(* The build task.                                                         *)

\* The semaphore admits the build: stamped on whatever generation the row is on.
TaskBuilds ==
  /\ bpc = "waiting" /\ bpc' = "building" /\ UNCHANGED bt
  /\ bst' = StampOf(row, {"queued"}, "building")
  /\ UNCHANGED <<persistent, ButTask, history>>

\* A context that a redeploy removes meanwhile may have been sent already.
TaskTags ==
  /\ bpc = "building" /\ TaskTo("tagged")
  /\ images' = images \cup {bt.ver}
  /\ UNCHANGED <<row, contexts, serving, migrating, ButTask, history>>

\* (mutant) A failed build leaves the row to the next tick.
TaskBuildIsDropped ==
  /\ bpc = "building" /\ TaskTo("clean")
  /\ UNCHANGED <<persistent, ButTask, history>>

TaskBuildFails ==
  /\ bpc = "building" /\ bpc' = "clean" /\ UNCHANGED bt
  /\ row' = Settled(row, bt.ver, Exists) /\ bst' = TerminalStamp(bt.ver)
  /\ UNCHANGED <<images, contexts, serving, migrating, ButTask, history>>

\* _release_impl: a fresh read, and the run slot if the generation is still ours.
TaskClaims ==
  /\ bpc = "tagged" /\ TaskTo(IF row.bv = bt.ver THEN "claimed" ELSE "clean")
  /\ UNCHANGED <<persistent, ButTask, history>>

TaskArms ==
  /\ bpc = "claimed" /\ TaskTo(IF row.bv = bt.ver THEN "armed" ELSE "clean")
  /\ row' = Marked(row, bt.ver, bt.ver)
  /\ UNCHANGED <<images, contexts, serving, migrating, ButTask, history>>

\* The environment, the volumes or the container of the release: not available.
TaskCannotStart ==
  /\ bpc = "armed" /\ TaskTo("lost")
  /\ UNCHANGED <<persistent, ButTask, history>>

TaskStarts ==
  /\ bpc = "armed" /\ TaskTo("running")
  /\ migrating' = migrating \cup {bt.ver}
  /\ runs' = [runs EXCEPT ![bt.ver] = @ + 1]
  /\ UNCHANGED <<row, images, contexts, serving, ButTask, released, rolled, lost>>

\* Exit 0, or any other end: another exit code, the timeout, a lost container.
TaskExits ==
  /\ bpc = "running" /\ migrating' = migrating \ {bt.ver}
  /\ \/ TaskTo("released") /\ released' = released \cup {bt.ver}
     \/ TaskTo("lost") /\ UNCHANGED released
  /\ UNCHANGED <<row, images, contexts, serving, runs, rolled, lost, ButTask>>

\* _finish_release_ok: the marker goes before the task does.
TaskClears ==
  /\ bpc = "released" /\ TaskTo("prune")
  /\ row' = Marked(row, bt.ver, 0)
  /\ UNCHANGED <<images, contexts, serving, migrating, ButTask, history>>

\* prune_old_images, each removal best effort: neither the task's image, nor the
\* previous one of its snapshot, nor any of the newest goes.
TaskPrunes ==
  /\ bpc = "prune" /\ TaskTo("clean")
  /\ \E old \in SUBSET {v \in images \ {bt.ver, bt.prev} :
                         Cardinality({w \in images : w > v}) >= KeepTags} :
       images' = images \ old
  /\ UNCHANGED <<row, contexts, serving, migrating, ButTask, history>>

\* (mutant) The candidate of a terminal settle is reclaimed as well.
TaskSettlesAndReclaims ==
  /\ bpc \in {"lost", "blamed"} /\ UNCHANGED bt
  /\ row' = Settled(row, bt.ver, Exists) /\ bst' = TerminalStamp(bt.ver)
  /\ bpc' = IF row.bv = bt.ver THEN "reclaim" ELSE "clean"
  /\ UNCHANGED <<images, contexts, serving, migrating, ButTask, history>>

\* _settle_release_failure; only a revert leaves a candidate that may be reclaimed.
TaskSettles ==
  /\ bpc \in {"lost", "blamed"} /\ UNCHANGED bt
  /\ row' = Settled(row, bt.ver, Exists) /\ bst' = TerminalStamp(bt.ver)
  /\ bpc' = IF row.bv = bt.ver /\ Exists THEN "reclaim" ELSE "clean"
  /\ UNCHANGED <<images, contexts, serving, migrating, ButTask, history>>

\* Remove the candidate's tag, best effort, unless a newer generation would roll
\* back to it.
TaskReclaims ==
  /\ bpc = "reclaim" /\ TaskTo("clean")
  /\ \/ row.prev # bt.ver /\ images' = images \ {bt.ver}
     \/ UNCHANGED images
  /\ UNCHANGED <<row, contexts, serving, migrating, ButTask, history>>

\* build's finally: the context goes, the task leaves the registry.
TaskEnds ==
  /\ bpc = "clean" /\ TaskDone
  /\ contexts' = contexts \ {bt.ctx}
  /\ tk' = [tk EXCEPT !.aged = @ \/ tpc = "gate"]
  /\ UNCHANGED <<row, images, serving, migrating, tpc, tst, OtherVars>>

TaskStampWrites ==
  /\ bst.ver # 0 /\ bst' = NoStamp /\ row' = StampWritten(row, bst)
  /\ UNCHANGED <<bpc, bt, images, contexts, serving, migrating, ButTask, history>>

TaskStep ==
  \/ TaskBuilds \/ TaskTags \/ TaskBuildFails \/ TaskClaims \/ TaskArms \/ TaskCannotStart
  \/ TaskStarts \/ TaskExits \/ TaskClears \/ TaskPrunes \/ TaskSettles \/ TaskReclaims
  \/ TaskEnds
Task == (bst.ver = 0 /\ TaskStep) \/ TaskStampWrites

---------------------------------------------------------------------------
(* Requests.                                                               *)

Request(kind) ==
  /\ kind \in Requests /\ left.requests > 0
  /\ left' = [left EXCEPT !.requests = @ - 1]

StopService ==
  /\ Request("stop") /\ row' = [row EXCEPT !.desired = "stopped"]
  /\ UNCHANGED <<contexts, requestVars, ButRequest>>

RestartService ==
  /\ Request("restart") /\ row' = [row EXCEPT !.desired = "running", !.status = "restarting"]
  /\ UNCHANGED <<contexts, requestVars, ButRequest>>

\* What a deploy or a rollback uses of the row it reads.
ReadRow == dq' = [bv |-> row.bv, prev |-> row.prev, maxv |-> row.maxv, ctx |-> row.ctx,
                  pending |-> row.pending]

\* An upload is extracted and the row read; then the guarded write, which removes
\* the context of the generation it replaces.  A loser removes its own tree.
DeployReads ==
  /\ Request("deploy") /\ dpc = "idle" /\ row.maxv < MaxVersion
  /\ dpc' = "deploy" /\ ReadRow
  /\ UNCHANGED <<row, contexts, ButRequest>>

DeployWrites ==
  /\ dpc = "deploy" /\ dpc' = "idle" /\ dq' = NoRequest
  /\ LET ver == dq.maxv + 1 IN
     IF row.maxv # dq.maxv THEN UNCHANGED <<row, contexts>>
     ELSE /\ row' = [row EXCEPT !.status = "restarting", !.desired = "running",
                       !.bv = ver, !.prev = dq.bv, !.maxv = ver, !.ldver = ver,
                       !.phase = "queued", !.action = "deploy",
                       !.ctx = ver, !.pending = dq.pending, !.own = TRUE]
          /\ contexts' = (contexts \ {dq.ctx}) \cup {ver}
  /\ UNCHANGED <<left, ButRequest>>

RollbackReads ==
  /\ Request("rollback") /\ dpc = "idle" /\ row.prev # 0
  /\ dpc' = "rollback" /\ ReadRow
  /\ UNCHANGED <<row, contexts, ButRequest>>

\* has_active_run is tested and the guarded write queued without a yield between.
\* The old tag again, the context of the newer one kept, the marker dropped.
RollbackWrites ==
  /\ dpc = "rollback" /\ dpc' = "idle" /\ dq' = NoRequest
  /\ IF ActiveRun \/ row.maxv # dq.maxv THEN UNCHANGED <<row, rolled>>
     ELSE /\ row' = [row EXCEPT !.status = "restarting", !.desired = "running",
                       !.bv = dq.prev, !.prev = dq.bv, !.ldver = dq.prev, !.phase = "queued",
                       !.action = "rollback", !.ctx = dq.ctx, !.pending = 0, !.own = FALSE]
          /\ rolled' = rolled \cup {dq.prev}
  /\ UNCHANGED <<contexts, left, images, serving, migrating, tickVars, taskVars, draining,
                 runs, released, lost>>

\* A daemon restart drains first, ...
Drain ==
  /\ Request("drain") /\ ~draining /\ draining' = TRUE
  /\ UNCHANGED <<persistent, tickVars, taskVars, requestVars, history>>

RequestStep ==
  StopService \/ RestartService \/ DeployReads \/ DeployWrites \/ RollbackReads
  \/ RollbackWrites \/ Drain

---------------------------------------------------------------------------
(* Faults.                                                                 *)

Fault == left.faults > 0 /\ left' = [left EXCEPT !.faults = @ - 1]

ContainerExits ==
  /\ Fault /\ serving.up /\ serving' = [serving EXCEPT !.up = FALSE]
  /\ UNCHANGED <<row, images, contexts, migrating, tickVars, taskVars, requestVars,
                 draining, history>>

\* An image is gone from the runtime: an operator's prune, a disk, a box put to sleep.
ImageLost ==
  /\ Fault
  /\ \E v \in images \cap Losable : images' = images \ {v} /\ lost' = lost \cup {v}
  /\ UNCHANGED <<row, contexts, serving, migrating, tickVars, taskVars, requestVars,
                 draining, runs, released, rolled>>

\* A woken box restores its images after boot.
ImageReturns ==
  /\ \E v \in lost \ images : images' = images \cup {v}
  /\ UNCHANGED <<row, contexts, serving, migrating, tickVars, taskVars, requestVars,
                 draining, left, history>>

\* An exception nobody enumerated, anywhere in _release_impl: the release container
\* is removed, the slot given back, and the generation settled.
TaskRaises ==
  /\ Fault
  /\ bpc \in {"tagged", "claimed", "armed", "running", "released", "lost", "reclaim"}
  /\ TaskTo("blamed") /\ migrating' = migrating \ {bt.ver}
  /\ UNCHANGED <<row, images, contexts, serving, tickVars, requestVars, draining, history>>

\* That settle raises too: the generation stays unsettled.
TaskGivesUp ==
  /\ bpc = "blamed" /\ TaskTo("clean")
  /\ UNCHANGED <<persistent, tickVars, requestVars, draining, left, history>>

\* The daemon dies.  A container it started and had not adopted is left to the sweep;
\* a release container lives on, unless a cancellation could still remove it.
VolatileLost ==
  /\ TickDone /\ TaskDone /\ dpc' = "idle" /\ dq' = NoRequest /\ draining' = FALSE
  /\ UNCHANGED <<row, images, contexts, serving, history>>

DaemonCrashes == Fault /\ VolatileLost /\ UNCHANGED migrating

\* ... and re-execs once the builds are done or the wait for them is over.
DaemonReexecs ==
  /\ draining /\ VolatileLost /\ migrating' \in {{}, migrating} /\ UNCHANGED left

Fails ==
  \/ ContainerExits \/ ImageLost \/ ImageReturns \/ TaskRaises \/ TaskGivesUp
  \/ DaemonCrashes \/ DaemonReexecs

Next == Tick \/ Task \/ RequestStep \/ Fails

Spec == Init /\ [][Next]_vars

\* The loop ticks, a task goes on to its end (the release has a timeout), and a drain
\* has a deadline.
Fairness == WF_vars(Tick) /\ WF_vars(Task) /\ WF_vars(DaemonReexecs)

FairSpec == Spec /\ Fairness

---------------------------------------------------------------------------
(* Properties.                                                             *)

StampType == [ver : Release, phase : Phase, action : Action, match : BOOLEAN]
\* The type invariant.
TypeOK ==
  /\ row \in GateRow /\ images \subseteq Versions /\ contexts \subseteq Versions
  /\ serving \in [gen : Release, up : BOOLEAN] /\ migrating \subseteq Versions
  /\ tpc \in {"idle", "gate", "build", "spawn", "reap", "settle", "launch", "schedule", "run",
              "adopt"}
  /\ tk \in [snap : GateRow, live : BOOLEAN, aged : BOOLEAN]
  /\ bpc \in {"none", "waiting", "building", "tagged", "claimed", "armed", "running",
              "released", "prune", "lost", "blamed", "reclaim", "clean"}
  /\ bt \in [ver : Release, ctx : Release, prev : Release]
  /\ tst \in StampType /\ bst \in StampType
  /\ dpc \in {"idle", "deploy", "rollback"}
  /\ dq \in [bv : Release, prev : Release, maxv : Release, ctx : Release, pending : Release]
  /\ draining \in BOOLEAN /\ left \in [requests : Nat, faults : Nat]
  /\ runs \in [Versions -> Nat]
  /\ released \subseteq Versions /\ rolled \subseteq Versions /\ lost \subseteq Versions

\* The release command of a generation is started at most once: no crash, restart,
\* raised exception, failed settle or prune makes the daemon run a migration again.
\* (ensure_built's order of layers; the terminal settle that keeps tag and marker.)
\* Not claimed of a generation a rollback has put back, whose context may still be on
\* disk, nor of one whose image the runtime itself has lost: see ReleaseNeverTwice.
ReleaseOnce == \A v \in Versions \ (rolled \cup lost) : runs[v] <= 1

\* From its first action to a known success, a release is on record: whatever dies, the
\* row that is still on that generation carries its marker.  (_arm_release_pending, the
\* terminal settle, the compare-and-swap of every write.)
ReleaseOnRecord ==
  /\ row.own /\ row.bv \in Versions
  /\ runs[row.bv] > 0 /\ row.bv \notin released
  => row.pending = row.bv

\* A generation whose release was started is only launched once that release has
\* exited 0, whatever died, raised or was settled in between.  (Layers 1 and 3 of
\* ensure_built in front of every swap.)  Not claimed of a snapshot that a task's end
\* has aged, nor of a generation whose release never started: see LaunchedWasReleased.
UnfinishedReleaseHoldsLaunch ==
  [][/\ tpc = "adopt" /\ serving'.up /\ tk.snap.own
     /\ runs[tk.snap.bv] > 0 /\ ~tk.aged
     => tk.snap.bv \in released]_vars

\* A task whose generation was superseded neither settles, marks nor moves the newer
\* one: of the row it changes at most last_deploy, by a stamp it had read before.
\* (The compare-and-swaps on build_version.)  That much it does: see StampsSpareRedeploys.
SupersededIsHandsOff ==
  [][bpc # "none" /\ (bpc' # bpc \/ bst' # bst) /\ bt.ver # row.bv
     => row' = [row EXCEPT !.ldver = row'.ldver, !.phase = row'.phase,
                           !.action = row'.action]]_vars

\* The gate does not hold a deploy for ever: its build and release come to an end, or
\* the runtime lost its image and the gate waits for it to come back.  (Every exit of the
\* build task settles or lets a later tick; the boot touch-up.)
Held ==
  /\ row.status \in {"building", "restarting"} /\ row.desired = "running"
  /\ row.own /\ row.ldver = row.bv /\ row.phase \in {"queued", "building"}
ImageAwaited == row.bv \in lost \ images
DeploySettles == Held ~> ~Held \/ ImageAwaited

---------------------------------------------------------------------------
(* What docstrings say, and this model refutes.                            *)

\* _settle_failed_generation: removing the tag of a terminal settle "would ... answer
\* the next restart with a REBUILD, re-executing a migration that already ran once".
\* A tag the runtime loses while the context is still there does just that.
ReleaseNeverTwice == \A v \in Versions : runs[v] <= 1

\* ensure_built: "Block launch or swap while a build/release needs to finish or settle".
\* The marker is read from the snapshot and the task from the registry, so a release that
\* fails in between is launched; so is an image whose marker a crash kept from being armed.
LaunchedWasReleased ==
  [][tpc = "adopt" /\ serving'.up /\ tk.snap.own => tk.snap.bv \in released]_vars

\* ensure_built, of a context that is gone: "this generation already built and its image
\* went missing afterwards".  A restart of a generation whose build failed waits as well.
HoldsForLostImages ==
  tpc = "build" /\ tk.snap.own /\ tk.snap.bv = row.bv /\ tk.snap.ctx \notin contexts
    => row.bv \in lost

\* stamp_last_deploy: "expect_version: Generation to settle, protecting newer redeploys".
\* It is compared with what was read; a redeploy that lands before the write loses its
\* last_deploy to the older generation's.
StampsSpareRedeploys == [][row'.bv = row.bv => row'.ldver = row.ldver]_vars

\* The docstring of core/app_build.py has it that rollback bypasses the builder and never
\* runs a release command.
RollbackRunsNoRelease == [][runs' # runs => row.action # "rollback"]_vars

\* A generation that the row reports healthy has been through the gate: its release
\* exited 0.  The docstring of stamp_launching says what would keep the relaunch of an
\* older snapshot from stamping a deploy that landed meanwhile.
HealthyWasReleased ==
  row.phase = "healthy" /\ row.ldver = row.bv /\ row.own => row.bv \in released
=============================================================================
